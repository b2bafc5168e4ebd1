------------------------- MODULE Administration_proofs ------------------------
(***************************************************************************)
(* The proofs about Accounts, RoleDesk, Forms, RateLimiter and Advisory,   *)
(* one part each, and about the types of the five together.  Each part     *)
(* states an inductive invariant, has a lemma per kind of step, and ends   *)
(* in what the component promises.                                         *)
(***************************************************************************)
EXTENDS MCAdministration, Sums_proofs, Integers, FiniteSetTheorems, TLAPS

(* Accounts. *)

\* A row that no longer counts among the active administrators.
Out(u) == u = NoAccount \/ ~u.admin \/ ~u.active

\* What a request writes agrees if what it has read did, unless it is a legacy form; and if
\* it takes an active administrator away, it has counted another one, but for the two
\* requests that do not count.
AskOK(q) ==
    /\ q.pc \in {"idle", "commit"}
    /\ q.pc = "commit" =>
        /\ q.on \in People /\ q.was \in Account /\ q.want \in Account \cup {NoAccount}
        /\ q.role \subseteq SystemRoles
        /\ IF q.kind = "assign"
           THEN /\ \E r \in SystemRoles : q.role = {r}
                /\ q.old \subseteq SystemRoles
           ELSE q.role = {}
        /\ q.kind # "legacy" /\ q.want # NoAccount /\ Agree(q.was) => Agree(q.want)
        /\ \/ q.kind = "put" \/ (q.kind = "role" /\ q.was.role # "system_admin")
           \/ ~(q.was.admin /\ q.was.active /\ Out(q.want))
           \/ q.counted \ {q.on} # {}

\* The inductive invariant.
AccountsInv ==
    /\ account \in [People -> Account \cup {NoAccount}]
    /\ assigned \in [People -> SUBSET SystemRoles]
    /\ desk = [c \in AdminRequests |-> desk[c]]
    /\ \A c \in AdminRequests : AskOK(desk[c])
    /\ asked \in 0..MaxRequests /\ unsynced \subseteq People
    /\ RolesAgree

\* A row is none, or not.
LEMMA Rows ==
    /\ NoAccount \notin Account
    /\ \A u \in Account : /\ u.admin \in BOOLEAN /\ u.active \in BOOLEAN /\ u.banned \in BOOLEAN
                          /\ u.deleted \in BOOLEAN /\ u.role \in Roles
  <1>1. \A u \in Account : u.admin \in BOOLEAN /\ u.active \in BOOLEAN /\ u.banned \in BOOLEAN
                           /\ u.deleted \in BOOLEAN /\ u.role \in Roles
    BY DEF Account
  <1>2. NoAccount.role = "none" /\ "none" \notin Roles  BY DEF NoAccount, Roles
  <1> QED  BY <1>1, <1>2

\* A request that starts or ends leaves the others as they are.
LEMMA DeskMoves ==
    ASSUME AccountsInv, NEW c \in AdminRequests, NEW q, AskOK(q), desk' = [desk EXCEPT ![c] = q]
    PROVE  /\ desk' = [d \in AdminRequests |-> desk'[d]]
           /\ \A d \in AdminRequests : AskOK(desk'[d])
           /\ desk'[c] = q /\ \A d \in AdminRequests \ {c} : desk'[d] = desk[d]
  BY DEF AccountsInv

\* A request that changes a row as `want' does, if that is fit for it, keeps the invariant.
LEMMA AsksStep ==
    ASSUME AccountsAssumption, AccountsInv, NEW c \in AdminRequests, NEW a, NEW p \in People,
           NEW kind, NEW want \in Account \cup {NoAccount}, NEW guards \in BOOLEAN, NEW counts \in BOOLEAN,
           Asks(c, a, p, kind, want, guards, counts), Exists(p), kind # "assign",
           kind # "legacy" /\ want # NoAccount /\ Agree(account[p]) => Agree(want),
           \/ kind = "put" \/ (kind = "role" /\ account[p].role # "system_admin")
           \/ ~(guards /\ account[p].admin /\ account[p].active /\ Out(want)) \/ counts
    PROVE  AccountsInv'
  <1> DEFINE q == [pc |-> "commit", kind |-> kind, on |-> p, was |-> account[p],
                   want |-> want, counted |-> ActiveAdmins, role |-> {}]
  <1>1. account[p] \in Account  BY DEF AccountsInv, Exists
  <1>2. guards /\ (counts => ActiveAdmins \ {p} # {})
    BY DEF Asks, Others
  <1>3. /\ q.pc = "commit" /\ q.kind = kind /\ q.on = p /\ q.was = account[p] /\ q.want = want
        /\ q.counted = ActiveAdmins /\ q.role = {}
    OBVIOUS
  <1>4. desk' = [desk EXCEPT ![c] = q] /\ asked' \in 0..MaxRequests /\ UNCHANGED <<account, assigned, unsynced>>
    BY DEF Asks, AccountsInv, AccountsAssumption
  <1> HIDE DEF q
  <1>5. AskOK(q)  BY <1>1, <1>2, <1>3 DEF AskOK
  <1>6. RolesAgree'  BY <1>4 DEF AccountsInv, RolesAgree, Exists
  <1>7. /\ desk' = [d \in AdminRequests |-> desk'[d]]
        /\ \A d \in AdminRequests : AskOK(desk'[d])
    BY <1>4, <1>5, DeskMoves
  <1> QED  BY <1>4, <1>6, <1>7 DEF AccountsInv

\* The requests that change a row keep the invariant.
LEMMA DeactivateStep ==
    ASSUME AccountsAssumption, AccountsInv, NEW c \in AdminRequests, NEW a \in People, NEW p \in People,
           Deactivate(c, a, p) \/ SoftDelete(c, a, p) \/ HardDelete(c, a, p)
    PROVE  AccountsInv'
  <1>1. Exists(p) /\ account[p] \in Account  BY DEF Deactivate, SoftDelete, HardDelete, Exists, AccountsInv
  <1> DEFINE u == account[p]
             v == [u EXCEPT !.active = FALSE]
             w == [u EXCEPT !.active = FALSE, !.deleted = TRUE]
  <1>2. /\ v \in Account /\ v.admin = u.admin /\ v.role = u.role
        /\ w \in Account /\ w.admin = u.admin /\ w.role = u.role
    <2>1. u \in Account  BY <1>1
    <2> HIDE DEF u
    <2> QED  BY <2>1 DEF Account
  <1>3. u.admin \in BOOLEAN /\ (a # p) \in BOOLEAN /\ TRUE \in BOOLEAN  BY <1>1, Rows
  <1>4. \/ Asks(c, a, p, "deactivate", v, a # p, u.admin)
        \/ Asks(c, a, p, "delete", w, a # p, u.admin)
        \/ Asks(c, a, p, "erase", NoAccount, a # p, TRUE)
    BY DEF Deactivate, SoftDelete, HardDelete
  <1> HIDE DEF v, w
  <1>5. Agree(u) => Agree(v) /\ Agree(w)  BY <1>2 DEF Agree
  <1> HIDE DEF u
  <1>6. CASE Asks(c, a, p, "deactivate", v, a # p, u.admin)
    <2>1. /\ v \in Account \cup {NoAccount} /\ (Agree(account[p]) => Agree(v))
          /\ account[p].admin \in BOOLEAN
          /\ ~((a # p) /\ account[p].admin /\ account[p].active /\ Out(v)) \/ account[p].admin
      BY <1>2, <1>3, <1>5 DEF u
    <2>2. Asks(c, a, p, "deactivate", v, a # p, account[p].admin)  BY <1>6 DEF u
    <2> QED  BY <1>1, <1>3, <2>1, <2>2, AsksStep
  <1>7. CASE Asks(c, a, p, "delete", w, a # p, u.admin)
    <2>1. /\ w \in Account \cup {NoAccount} /\ (Agree(account[p]) => Agree(w))
          /\ account[p].admin \in BOOLEAN
          /\ ~((a # p) /\ account[p].admin /\ account[p].active /\ Out(w)) \/ account[p].admin
      BY <1>2, <1>3, <1>5 DEF u
    <2>2. Asks(c, a, p, "delete", w, a # p, account[p].admin)  BY <1>7 DEF u
    <2> QED  BY <1>1, <1>3, <2>1, <2>2, AsksStep
  <1>8. CASE Asks(c, a, p, "erase", NoAccount, a # p, TRUE)
    BY <1>1, <1>3, <1>8, AsksStep
  <1> QED  BY <1>4, <1>6, <1>7, <1>8

\* An account is restored or activated, or the console sets whether it is active.
LEMMA RestoreStep ==
    ASSUME AccountsAssumption, AccountsInv, NEW c \in AdminRequests, NEW a \in People, NEW p \in People,
           Restore(c, a, p) \/ Activate(c, a, p) \/ \E b \in BOOLEAN : AdminPut(c, a, p, b)
    PROVE  AccountsInv'
  <1>1. Exists(p) /\ account[p] \in Account  BY DEF Restore, Activate, AdminPut, Exists, AccountsInv
  <1> DEFINE u == account[p]
             v(b) == [u EXCEPT !.active = b]
             w == [u EXCEPT !.active = TRUE, !.deleted = FALSE, !.banned = FALSE]
  <1>2. /\ \A b \in BOOLEAN : v(b) \in Account /\ v(b).admin = u.admin /\ v(b).role = u.role /\ v(b).active = b
        /\ w \in Account /\ w.admin = u.admin /\ w.role = u.role /\ w.active
    <2>1. u \in Account  BY <1>1
    <2> HIDE DEF u
    <2> QED  BY <2>1 DEF Account
  <1>3. TRUE \in BOOLEAN /\ FALSE \in BOOLEAN  OBVIOUS
  <1>4. \/ Asks(c, a, p, "restore", w, TRUE, FALSE)
        \/ Asks(c, a, p, "activate", v(TRUE), TRUE, FALSE)
        \/ \E b \in BOOLEAN : Asks(c, a, p, "put", v(b), TRUE, FALSE)
    BY DEF Restore, Activate, AdminPut
  <1> HIDE DEF v, w
  <1>5. Agree(u) => Agree(w) /\ \A b \in BOOLEAN : Agree(v(b))  BY <1>2 DEF Agree
  <1>6. v(TRUE).active /\ w.active /\ w # NoAccount /\ v(TRUE) # NoAccount  BY <1>2, Rows
  <1>7. u.admin => ~Out(w) /\ ~Out(v(TRUE))  BY <1>2, <1>6 DEF Out
  <1> HIDE DEF u
  <1>8. CASE Asks(c, a, p, "restore", w, TRUE, FALSE)
    BY <1>1, <1>2, <1>3, <1>5, <1>7, <1>8, AsksStep DEF u
  <1>9. CASE Asks(c, a, p, "activate", v(TRUE), TRUE, FALSE)
    BY <1>1, <1>2, <1>3, <1>5, <1>7, <1>9, AsksStep DEF u
  <1>10. ASSUME NEW b \in BOOLEAN, Asks(c, a, p, "put", v(b), TRUE, FALSE)
         PROVE  AccountsInv'
    <2>1. v(b) \in Account \cup {NoAccount} /\ (Agree(account[p]) => Agree(v(b)))
      BY <1>2, <1>5 DEF u
    <2> QED  BY <1>1, <1>3, <1>10, <2>1, AsksStep
  <1> QED  BY <1>4, <1>8, <1>9, <1>10

\* An account is banned or deleted, from the console or the page of users.
LEMMA BanStep ==
    ASSUME AccountsAssumption, AccountsInv, NEW c \in AdminRequests, NEW a \in People, NEW p \in People,
           AdminBan(c, a, p) \/ AdminDelete(c, a, p) \/ \E b \in BOOLEAN : Ban(c, a, p, b)
    PROVE  AccountsInv'
  <1>1. Exists(p) /\ account[p] \in Account  BY DEF AdminBan, AdminDelete, Ban, Exists, AccountsInv
  <1> DEFINE u == account[p]
             v(b) == [u EXCEPT !.banned = b]
             w == [u EXCEPT !.active = FALSE, !.deleted = TRUE, !.banned = TRUE]
             spared == a # p /\ ~u.admin
  <1>2. /\ \A b \in BOOLEAN : /\ v(b) \in Account /\ v(b).admin = u.admin /\ v(b).role = u.role
                              /\ v(b).active = u.active
        /\ w \in Account /\ w.admin = u.admin /\ w.role = u.role
    <2>1. u \in Account  BY <1>1
    <2> HIDE DEF u
    <2> QED  BY <2>1 DEF Account
  <1>3. TRUE \in BOOLEAN /\ FALSE \in BOOLEAN /\ spared \in BOOLEAN /\ u.admin \in BOOLEAN
    BY <1>1, Rows
  <1>4. \/ Asks(c, a, p, "ban", v(TRUE), spared, FALSE)
        \/ Asks(c, a, p, "delete", w, spared, FALSE)
        \/ \E b \in BOOLEAN : Asks(c, a, p, "ban", v(b), TRUE, FALSE)
    BY DEF AdminBan, AdminDelete, Ban
  <1> HIDE DEF v, w
  <1>5. Agree(u) => Agree(w) /\ \A b \in BOOLEAN : Agree(v(b))  BY <1>2 DEF Agree
  <1>6. \A b \in BOOLEAN : u.admin /\ u.active => ~Out(v(b))  BY <1>2, Rows DEF Out
  <1>7. ~(spared /\ u.admin)  OBVIOUS
  <1> HIDE DEF u, spared
  <1>8. CASE Asks(c, a, p, "ban", v(TRUE), spared, FALSE)
    BY <1>1, <1>2, <1>3, <1>5, <1>7, <1>8, AsksStep DEF u
  <1>9. CASE Asks(c, a, p, "delete", w, spared, FALSE)
    BY <1>1, <1>2, <1>3, <1>5, <1>7, <1>9, AsksStep DEF u
  <1>10. ASSUME NEW b \in BOOLEAN, Asks(c, a, p, "ban", v(b), TRUE, FALSE)
         PROVE  AccountsInv'
    <2>1. v(b) \in Account \cup {NoAccount} /\ (Agree(account[p]) => Agree(v(b)))
          /\ ~(account[p].admin /\ account[p].active /\ Out(v(b)))
      BY <1>2, <1>5, <1>6 DEF u
    <2> QED  BY <1>1, <1>3, <1>10, <2>1, AsksStep
  <1> QED  BY <1>4, <1>8, <1>9, <1>10

\* The flag of an administrator is set, and the role with it.
LEMMA SetAdminStep ==
    ASSUME AccountsAssumption, AccountsInv, NEW c \in AdminRequests, NEW a \in People, NEW p \in People,
           NEW b \in BOOLEAN, SetAdmin(c, a, p, b)
    PROVE  AccountsInv'
  <1>1. Exists(p) /\ account[p] \in Account  BY DEF SetAdmin, Exists, AccountsInv
  <1> DEFINE u == account[p]
             v == IF b THEN Promoted(u) ELSE Demoted(u)
             guards == b \/ a # p
             counts == ~b /\ u.admin
  <1>2. v \in Account /\ (Agree(u) => Agree(v)) /\ (b /\ u.active /\ u.admin => v.admin /\ v.active)
    <2>1. u \in Account /\ u.role \in Roles /\ u.admin \in BOOLEAN  BY <1>1, Rows
    <2> HIDE DEF u
    <2>2. Demoted(u) \in Account /\ (Agree(u) => Agree(Demoted(u)))
      <3> DEFINE r == IF u.admin /\ u.role = "system_admin" THEN "member" ELSE u.role
                 d == [u EXCEPT !.admin = FALSE, !.role = r]
      <3>1. r \in Roles /\ FALSE \in BOOLEAN  BY <2>1 DEF Roles
      <3>2. Demoted(u) = d  BY DEF Demoted
      <3>3. (u.admin <=> u.role = "system_admin") => r # "system_admin"  OBVIOUS
      <3> HIDE DEF r
      <3>4. d \in Account /\ d.admin = FALSE /\ d.role = r  BY <2>1, <3>1 DEF Account
      <3> HIDE DEF d
      <3> QED  BY <3>2, <3>3, <3>4 DEF Agree
    <2>3. Promoted(u) \in Account /\ (Agree(u) => Agree(Promoted(u))) /\ (u.admin => Promoted(u) = u)
      <3> DEFINE d == [u EXCEPT !.admin = TRUE, !.role = "system_admin"]
      <3>1. "system_admin" \in Roles /\ TRUE \in BOOLEAN  BY DEF Roles
      <3>2. d \in Account /\ d.admin = TRUE /\ d.role = "system_admin"  BY <2>1, <3>1 DEF Account
      <3>3. Promoted(u) = IF u.admin THEN u ELSE d  BY DEF Promoted
      <3> HIDE DEF d
      <3> QED  BY <2>1, <3>2, <3>3 DEF Agree
    <2> QED  BY <2>1, <2>2, <2>3
  <1>3. Asks(c, a, p, "admin", v, guards, counts)  BY DEF SetAdmin
  <1>4. guards \in BOOLEAN /\ counts \in BOOLEAN  BY <1>1, Rows
  <1>5. u.admin /\ u.active /\ Out(v) => counts
    <2> HIDE DEF v
    <2> QED  BY <1>2, Rows DEF Out
  <1> HIDE DEF v, guards, counts, u
  <1> QED  BY <1>1, <1>2, <1>3, <1>4, <1>5, AsksStep DEF u

\* The role is set, and the flag with it.
LEMMA SetRoleStep ==
    ASSUME AccountsAssumption, AccountsInv, NEW c \in AdminRequests, NEW a \in People, NEW p \in People,
           NEW r \in Roles, SetRole(c, a, p, r)
    PROVE  AccountsInv'
  <1>1. Exists(p) /\ account[p] \in Account /\ account[p].role # r  BY DEF SetRole, Exists, AccountsInv
  <1> DEFINE u == account[p]
             top == r = "system_admin"
             v == [u EXCEPT !.role = r, !.admin = top]
             leaves == u.role = "system_admin" /\ r # "system_admin"
             guards == leaves => a # p
  <1>2. top \in BOOLEAN /\ leaves \in BOOLEAN /\ guards \in BOOLEAN  OBVIOUS
  <1>3. Asks(c, a, p, "role", v, guards, leaves)  BY DEF SetRole
  <1>4. v \in Account /\ v.admin = top /\ v.role = r
    <2>1. u \in Account /\ r \in Roles  BY <1>1
    <2> HIDE DEF top, u
    <2> QED  BY <1>2, <2>1 DEF Account
  <1> HIDE DEF v
  <1>5. Agree(v)  BY <1>4 DEF Agree
  <1>6. u.role = "system_admin" => leaves  BY <1>1
  <1> HIDE DEF top, leaves, guards, u
  <1> QED  BY <1>1, <1>2, <1>3, <1>4, <1>5, <1>6, AsksStep DEF u

\* The legacy form sets the fields that it has.
LEMMA LegacyStep ==
    ASSUME AccountsAssumption, AccountsInv, NEW c \in AdminRequests, NEW a \in People, NEW p \in People,
           NEW f \in LegacyForms, LegacyUpdate(c, a, p, f)
    PROVE  AccountsInv'
  <1>1. Exists(p) /\ account[p] \in Account  BY DEF LegacyUpdate, Exists, AccountsInv
  <1> DEFINE u == account[p]
             given(k) == k \in DOMAIN f
             takes == (given("active") /\ ~f.active) \/ (given("admin") /\ ~f.admin)
             role == IF given("role") THEN f.role
                     ELSE IF given("admin") /\ f.admin /\ ~u.admin THEN "system_admin" ELSE u.role
             active == IF given("active") THEN f.active ELSE u.active
             admin  == IF given("admin") THEN f.admin ELSE u.admin
             v == [u EXCEPT !.active = active, !.admin = admin, !.role = role]
             guards == ~(a = p /\ given("admin") /\ ~f.admin)
             counts == takes /\ u.admin
  <1>2. u \in Account /\ u.role \in Roles /\ u.admin \in BOOLEAN /\ u.active \in BOOLEAN  BY <1>1, Rows
  <1>3. /\ given("active") => f.active \in BOOLEAN
        /\ given("admin") => f.admin \in BOOLEAN
        /\ given("role") => f.role \in Roles
    BY DEF AccountsAssumption
  <1>4. /\ active \in BOOLEAN /\ admin \in BOOLEAN /\ role \in Roles
        /\ guards \in BOOLEAN /\ counts \in BOOLEAN
    <2>1. "system_admin" \in Roles  BY DEF Roles
    <2> QED  BY <1>2, <1>3, <2>1
  <1>5. Asks(c, a, p, "legacy", v, guards, counts)  BY DEF LegacyUpdate
  <1>6. u.admin /\ u.active /\ (~admin \/ ~active) => counts
    OBVIOUS
  <1> HIDE DEF active, admin, role, guards, counts, u
  <1>7. v \in Account /\ v.admin = admin /\ v.active = active
    BY <1>2, <1>4 DEF Account
  <1> HIDE DEF v
  <1>8. u.admin /\ u.active /\ Out(v) => counts
    BY <1>6, <1>7, Rows DEF Out
  <1> QED  BY <1>1, <1>4, <1>5, <1>7, <1>8, AsksStep DEF u

\* A role is assigned in the table of roles.
LEMMA AssignStep ==
    ASSUME AccountsAssumption, AccountsInv, NEW c \in AdminRequests, NEW a \in People, NEW p \in People,
           NEW r \in SystemRoles, AssignRole(c, a, p, r)
    PROVE  AccountsInv'
  <1>1. account[p] \in Account  BY DEF AssignRole, Exists, AccountsInv
  <1> DEFINE u == account[p]
             top == r = "system_admin"
             role == IF top THEN r ELSE "member"
             v == [u EXCEPT !.admin = top, !.role = role]
             q == [pc |-> "commit", kind |-> "assign", on |-> p, was |-> u, role |-> {r},
                   want |-> v, counted |-> ActiveAdmins, old |-> assigned[p]]
  <1>2. /\ desk' = [desk EXCEPT ![c] = q] /\ asked' \in 0..MaxRequests
        /\ UNCHANGED <<account, assigned, unsynced>>
    BY DEF AssignRole, AccountsInv, AccountsAssumption
  <1>3. u.admin /\ ~top => ActiveAdmins \ {p} # {}  BY DEF AssignRole, Others
  <1>4. top \in BOOLEAN /\ role \in Roles /\ (role = "system_admin" <=> top)  BY DEF Roles
  <1>5. v \in Account /\ v.admin = top /\ v.role = role /\ v.active = u.active
    <2>1. u \in Account  BY <1>1
    <2> HIDE DEF top, role, u
    <2> QED  BY <1>4, <2>1 DEF Account
  <1>6. /\ q.pc = "commit" /\ q.kind = "assign" /\ q.on = p /\ q.was = u /\ q.want = v
        /\ q.counted = ActiveAdmins /\ q.role = {r} /\ q.old = assigned[p]
    OBVIOUS
  <1>7. assigned[p] \subseteq SystemRoles  BY DEF AccountsInv
  <1> HIDE DEF v, q, role, top
  <1>8. Agree(v)  BY <1>4, <1>5 DEF Agree
  <1>9. u.admin /\ u.active /\ Out(v) => ~top  BY <1>5, Rows DEF Out
  <1>10. AskOK(q)
    BY <1>1, <1>3, <1>5, <1>6, <1>7, <1>8, <1>9 DEF AskOK
  <1>11. /\ desk' = [d \in AdminRequests |-> desk'[d]]
         /\ \A d \in AdminRequests : AskOK(desk'[d])
    BY <1>2, <1>10, DeskMoves
  <1>12. RolesAgree'  BY <1>2 DEF AccountsInv, RolesAgree, Exists
  <1> QED  BY <1>2, <1>11, <1>12 DEF AccountsInv
\* A merged row is a row, and the one that was asked for if the row is as it was read.
LEMMA MergedRow ==
    ASSUME NEW u \in Account, NEW was \in Account, NEW want \in Account
    PROVE  Merged(u, was, want) \in Account /\ (u = was => Merged(u, was, want) = want)
  <1> DEFINE F == {"admin", "active", "banned", "deleted", "role"}
             m == Merged(u, was, want)
  <1>1. DOMAIN u = F /\ DOMAIN want = F  BY DEF Account
  <1>2. m = [k \in F |-> IF want[k] # was[k] THEN want[k] ELSE u[k]]  BY <1>1 DEF Merged
  <1>3. /\ \A k \in {"admin", "active", "banned", "deleted"} : u[k] \in BOOLEAN /\ want[k] \in BOOLEAN
        /\ u["role"] \in Roles /\ want["role"] \in Roles
    BY DEF Account
  <1>4. m \in Account
    <2>1. /\ \A k \in {"admin", "active", "banned", "deleted"} : m[k] \in BOOLEAN
          /\ m["role"] \in Roles /\ DOMAIN m = F
      BY <1>2, <1>3
    <2>2. m = [admin |-> m["admin"], active |-> m["active"], banned |-> m["banned"],
               deleted |-> m["deleted"], role |-> m["role"]]
      BY <1>2
    <2> HIDE DEF m
    <2> QED  BY <2>1, <2>2 DEF Account
  <1>5. u = was => m = want
    <2>1. want = [k \in F |-> want[k]]  BY <1>1 DEF Account
    <2> QED  BY <1>2, <2>1
  <1> QED  BY <1>4, <1>5

\* The commit writes nothing, erases the row, or merges it.
LEMMA CommitStep ==
    ASSUME AccountsAssumption, AccountsInv, NEW c \in AdminRequests, AdminCommit(c)
    PROVE  AccountsInv'
  <1> DEFINE q == desk[c]
             p == desk[c].on
  <1>1. AskOK(q) /\ q.pc = "commit"  BY DEF AccountsInv, AdminCommit
  <1>2. AskOK(AtRestDesk)  BY DEF AskOK, AtRestDesk
  <1>3. /\ desk' = [d \in AdminRequests |-> desk'[d]]
        /\ \A d \in AdminRequests : AskOK(desk'[d])
        /\ asked' = asked
    BY <1>2, DeskMoves DEF AdminCommit
  <1>4. \/ UNCHANGED <<account, assigned, unsynced>>
        \/ /\ account' = [account EXCEPT ![p] = NoAccount]
           /\ assigned' = [assigned EXCEPT ![p] = {}]
           /\ unsynced' = unsynced \ {p}
        \/ /\ Exists(p) /\ q.want # NoAccount
           /\ account' = [account EXCEPT ![p] = Merged(account[p], q.was, q.want)]
           /\ assigned' = [assigned EXCEPT ![p] =
                             (assigned[p] \ (IF q.kind = "assign" THEN q.old ELSE {})) \cup q.role]
           /\ unsynced' = IF q.kind = "legacy" \/ Stale(q) THEN unsynced \cup {p} ELSE unsynced
    BY DEF AdminCommit
  <1>5. CASE UNCHANGED <<account, assigned, unsynced>>
    <2>1. RolesAgree'  BY <1>5 DEF AccountsInv, RolesAgree, Exists
    <2> QED  BY <1>3, <1>5, <2>1 DEF AccountsInv
  <1>6. p \in People  BY <1>1 DEF AskOK
  <1>7. CASE /\ account' = [account EXCEPT ![p] = NoAccount]
             /\ assigned' = [assigned EXCEPT ![p] = {}]
             /\ unsynced' = unsynced \ {p}
    <2> HIDE DEF p
    <2>1. RolesAgree'  BY <1>6, <1>7 DEF AccountsInv, RolesAgree, Exists
    <2> QED  BY <1>3, <1>6, <1>7, <2>1 DEF AccountsInv
  <1>8. CASE /\ Exists(p) /\ q.want # NoAccount
             /\ account' = [account EXCEPT ![p] = Merged(account[p], q.was, q.want)]
             /\ assigned' = [assigned EXCEPT ![p] =
                               (assigned[p] \ (IF q.kind = "assign" THEN q.old ELSE {})) \cup q.role]
             /\ unsynced' = IF q.kind = "legacy" \/ Stale(q) THEN unsynced \cup {p} ELSE unsynced
    <2> DEFINE m == Merged(account[p], q.was, q.want)
               r == (assigned[p] \ (IF q.kind = "assign" THEN q.old ELSE {})) \cup q.role
    <2>1. account[p] \in Account /\ q.was \in Account /\ q.want \in Account
      BY <1>1, <1>6, <1>8 DEF AskOK, Exists, AccountsInv
    <2>2. m \in Account /\ (account[p] = q.was => m = q.want)  BY <2>1, MergedRow
    <2>3. q.role \subseteq SystemRoles /\ assigned[p] \subseteq SystemRoles
      BY <1>1, <1>6 DEF AskOK, AccountsInv
    <2>4. r \subseteq SystemRoles  BY <2>3
    <2>5. account'[p] = m /\ assigned'[p] = r
          /\ \A o \in People \ {p} : account'[o] = account[o] /\ assigned'[o] = assigned[o]
      BY <1>6, <1>8 DEF AccountsInv
    <2>6. account' \in [People -> Account \cup {NoAccount}] /\ assigned' \in [People -> SUBSET SystemRoles]
      <3> HIDE DEF m, r
      <3> QED  BY <1>6, <1>8, <2>2, <2>4 DEF AccountsInv, m, r
    <2>7. unsynced' \subseteq People /\ unsynced \subseteq unsynced'  BY <1>6, <1>8 DEF AccountsInv
    <2>8. ASSUME p \notin unsynced'
          PROVE  Agree(m) /\ Cardinality(r) <= 1
      <3>1. q.kind # "legacy" /\ q.was = account[p] /\ (q.kind = "assign" => q.old = assigned[p])
        BY <1>8, <2>8 DEF Stale
      <3>2. Agree(account[p]) /\ Cardinality(assigned[p]) <= 1
        BY <1>6, <1>8, <2>7, <2>8 DEF AccountsInv, RolesAgree, Agree, RolesMatch
      <3>3. Agree(q.want)  BY <1>1, <1>8, <3>1, <3>2 DEF AskOK
      <3>4. Cardinality(r) <= 1
        <4>1. CASE q.kind = "assign"
          <5>1. PICK x \in SystemRoles : q.role = {x}  BY <1>1, <4>1 DEF AskOK
          <5>2. r = {x}  BY <3>1, <4>1, <5>1
          <5>3. Cardinality({x}) = 1  BY FS_Singleton
          <5> HIDE DEF r
          <5> QED  BY <5>2, <5>3
        <4>2. CASE q.kind # "assign"
          <5>1. r = assigned[p]  BY <1>1, <4>2 DEF AskOK
          <5> QED  BY <3>2, <5>1
        <4> QED  BY <4>1, <4>2
      <3> QED  BY <2>2, <3>1, <3>3, <3>4
    <2> HIDE DEF m, r, p
    <2>9. RolesAgree'
      <3> SUFFICES ASSUME NEW o \in People, account'[o] # NoAccount, o \notin unsynced'
                   PROVE  Agree(account'[o]) /\ Cardinality(assigned'[o]) <= 1
        BY DEF RolesAgree, Exists, Agree, RolesMatch
      <3>1. CASE o = p  BY <2>5, <2>8, <3>1
      <3>2. CASE o # p
        <4>1. account[o] # NoAccount /\ o \notin unsynced  BY <2>5, <2>7, <3>2
        <4> QED  BY <2>5, <3>2, <4>1 DEF AccountsInv, RolesAgree, Exists, Agree, RolesMatch
      <3> QED  BY <3>1, <3>2
    <2> QED  BY <1>3, <2>6, <2>7, <2>9 DEF AccountsInv
  <1> QED  BY <1>4, <1>5, <1>7, <1>8

\* The roles of a new account match, or it is noted.
LEMMA NewAccountStep ==
    ASSUME AccountsAssumption, AccountsInv, NEW p \in People, NEW u \in Account,
           NEW ofrole \in SUBSET SystemRoles, NewAccount(p, u, ofrole)
    PROVE  AccountsInv'
  <1>1. /\ account' = [account EXCEPT ![p] = u] /\ assigned' = [assigned EXCEPT ![p] = ofrole]
        /\ unsynced' = IF RolesMatch(u, ofrole) THEN unsynced \ {p} ELSE unsynced \cup {p}
        /\ desk' = desk /\ asked' \in 0..MaxRequests
    BY DEF NewAccount, AccountsInv, AccountsAssumption
  <1>2. /\ account' \in [People -> Account \cup {NoAccount}]
        /\ assigned' \in [People -> SUBSET SystemRoles] /\ unsynced' \subseteq People
    BY <1>1 DEF AccountsInv
  <1>3. RolesAgree'
    <2> SUFFICES ASSUME NEW o \in People, account'[o] # NoAccount, o \notin unsynced'
                 PROVE  RolesMatch(account'[o], assigned'[o])
      BY DEF RolesAgree, Exists, RolesMatch, Agree
    <2>1. CASE o = p  BY <1>1, <2>1 DEF AccountsInv
    <2>2. CASE o # p
      <3>1. account[o] # NoAccount /\ o \notin unsynced  BY <1>1, <2>2 DEF AccountsInv
      <3> QED  BY <1>1, <2>2, <3>1 DEF AccountsInv, RolesAgree, Exists
    <2> QED  BY <2>1, <2>2
  <1> QED  BY <1>1, <1>2, <1>3 DEF AccountsInv

\* Whoever is made, or comes by himself, is such an account.
LEMMA AccountRow ==
    ASSUME NEW p \in People, NEW a \in People, NEW b \in BOOLEAN, NEW active \in BOOLEAN,
           NEW asAdmin \in BOOLEAN, NEW r \in Roles \cup SystemRoles,
           CreateUser(a, p, b, active, r, asAdmin) \/ Register(p)
    PROVE  \E u \in Account, ofrole \in SUBSET SystemRoles : NewAccount(p, u, ofrole)
  <1>1. CASE Register(p)
    <2>1. [admin |-> FALSE, active |-> TRUE, banned |-> FALSE, deleted |-> FALSE, role |-> "member"] \in Account
      BY DEF Account, Roles
    <2> QED  BY <1>1, <2>1 DEF Register
  <1>2. CASE CreateUser(a, p, b, active, r, asAdmin)
    <2> DEFINE u == [admin |-> b, active |-> active, banned |-> FALSE, deleted |-> FALSE, role |-> RoleOf(b, r)]
               ofrole == (IF asAdmin THEN {r, "admin"} ELSE {r}) \cap SystemRoles
    <2>1. u \in Account  BY DEF Account, Roles, RoleOf
    <2>2. ofrole \in SUBSET SystemRoles  OBVIOUS
    <2>3. NewAccount(p, u, ofrole)  BY <1>2 DEF CreateUser
    <2> HIDE DEF u, ofrole
    <2> QED  BY <2>1, <2>2, <2>3
  <1> QED  BY <1>1, <1>2

\* Every step keeps the invariant.
LEMMA AccountsStep ==
    ASSUME AccountsAssumption, AccountsInv, [AccountsNext]_accountVars
    PROVE  AccountsInv'
  <1>1. ASSUME NEW c \in AdminRequests, AdminRollback(c)
        PROVE  AccountsInv'
    <2>1. AskOK(AtRestDesk)  BY DEF AskOK, AtRestDesk
    <2>2. desk' = [desk EXCEPT ![c] = AtRestDesk] /\ UNCHANGED <<account, assigned, asked, unsynced>>
      BY <1>1 DEF AdminRollback
    <2>3. RolesAgree'  BY <2>2 DEF AccountsInv, RolesAgree, Exists
    <2> QED  BY <2>1, <2>2, <2>3, DeskMoves DEF AccountsInv
  <1>2. CASE UNCHANGED accountVars
    BY <1>2 DEF accountVars, AccountsInv, RolesAgree, Exists
  <1>3. ASSUME NEW c \in AdminRequests, NEW a \in People, NEW p \in People,
               \/ Deactivate(c, a, p) \/ SoftDelete(c, a, p) \/ Restore(c, a, p) \/ Activate(c, a, p)
               \/ AdminBan(c, a, p) \/ AdminDelete(c, a, p) \/ HardDelete(c, a, p)
               \/ \E b \in BOOLEAN : Ban(c, a, p, b) \/ AdminPut(c, a, p, b) \/ SetAdmin(c, a, p, b)
               \/ \E r \in Roles : SetRole(c, a, p, r)
               \/ \E r \in SystemRoles : AssignRole(c, a, p, r)
               \/ \E f \in LegacyForms : LegacyUpdate(c, a, p, f)
        PROVE  AccountsInv'
    BY <1>3, DeactivateStep, RestoreStep, BanStep, SetAdminStep, SetRoleStep, AssignStep, LegacyStep
  <1>4. ASSUME NEW p \in People, NEW a \in People, NEW b \in BOOLEAN, NEW active \in BOOLEAN,
               NEW asAdmin \in BOOLEAN, NEW r \in Roles \cup SystemRoles,
               CreateUser(a, p, b, active, r, asAdmin) \/ Register(p)
        PROVE  AccountsInv'
    BY <1>4, AccountRow, NewAccountStep
  <1>5. ASSUME NEW p \in People, Register(p)
        PROVE  AccountsInv'
    BY <1>4, <1>5 DEF SystemRoles
  <1> QED  BY <1>1, <1>2, <1>3, <1>4, <1>5, CommitStep DEF AccountsNext

\* It holds at the start, and always.
LEMMA AccountsAlways ==
    ASSUME AccountsAssumption  PROVE AccountsSpec => []AccountsInv
  <1>1. AccountsInit => AccountsInv
    <2> SUFFICES ASSUME AccountsInit PROVE AccountsInv
      OBVIOUS
    <2>1. AskOK(AtRestDesk)  BY DEF AskOK, AtRestDesk
    <2>2. Cardinality({}) = 0  BY FS_EmptySet
    <2>3. RolesAgree  BY <2>2 DEF RolesAgree, AccountsInit
    <2> QED  BY <2>1, <2>3 DEF AccountsInit, AccountsInv, AccountsAssumption
  <1>2. AccountsInv /\ [AccountsNext]_accountVars => AccountsInv'
    BY AccountsStep
  <1> QED  BY <1>1, <1>2, PTL DEF AccountsSpec
\* The last active administrator goes in a commit that Stale, the count or its kind explains.
LEMMA LastAdminGoes ==
    ASSUME AccountsAssumption, AccountsInv, AccountsNext  PROVE LeftUncounted
  <1> SUFFICES ASSUME ActiveAdmins # {}, ActiveAdmins' = {},
                      \A c \in AdminRequests :
                         desk[c].pc = "commit" /\ desk'[c].pc = "idle" =>
                            /\ desk[c].kind # "put"
                            /\ ~(desk[c].kind = "role" /\ desk[c].was.role # "system_admin")
                            /\ ~Stale(desk[c])
                            /\ desk[c].counted = ActiveAdmins
               PROVE  FALSE
    BY DEF LeftUncounted
  <1>1. PICK o \in People : account[o] # NoAccount /\ account[o].admin /\ account[o].active
    BY DEF ActiveAdmins, Exists
  <1>2. \A p \in People : account'[p] # NoAccount => Out(account'[p])
    BY DEF ActiveAdmins, Exists, Out
  <1>3. account'[o] # account[o]
    BY <1>1, <1>2 DEF Out
  <1>4. \/ \E c \in AdminRequests : AdminCommit(c)
        \/ \E p \in People, u \in Account, ofrole \in SUBSET SystemRoles : NewAccount(p, u, ofrole)
    <2>1. account' # account  BY <1>3
    <2>2. \A c \in AdminRequests, a, p \in People : ~Deactivate(c, a, p) /\ ~SoftDelete(c, a, p)
      BY <2>1 DEF Deactivate, SoftDelete, Asks
    <2>3. \A c \in AdminRequests, a, p \in People : ~Restore(c, a, p) /\ ~Activate(c, a, p)
      BY <2>1 DEF Restore, Activate, Asks
    <2>4. \A c \in AdminRequests, a, p \in People :
             ~AdminBan(c, a, p) /\ ~AdminDelete(c, a, p) /\ ~HardDelete(c, a, p)
      BY <2>1 DEF AdminBan, AdminDelete, HardDelete, Asks
    <2>5. \A c \in AdminRequests, a, p \in People, b \in BOOLEAN :
             ~Ban(c, a, p, b) /\ ~AdminPut(c, a, p, b) /\ ~SetAdmin(c, a, p, b)
      BY <2>1 DEF Ban, AdminPut, SetAdmin, Asks
    <2>6. /\ \A c \in AdminRequests, a, p \in People, r \in Roles : ~SetRole(c, a, p, r)
          /\ \A c \in AdminRequests, a, p \in People, r \in SystemRoles :
                ~AssignRole(c, a, p, r)
      <3>1. \A c \in AdminRequests, a, p \in People, r \in Roles : ~SetRole(c, a, p, r)
        BY <2>1 DEF SetRole, Asks
      <3>2. \A c \in AdminRequests, a, p \in People, r \in SystemRoles :
               ~AssignRole(c, a, p, r)
        BY <2>1 DEF AssignRole
      <3> QED  BY <3>1, <3>2
    <2>8. \A c \in AdminRequests, a, p \in People, f \in LegacyForms : ~LegacyUpdate(c, a, p, f)
      <3> SUFFICES ASSUME NEW c \in AdminRequests, NEW a \in People, NEW p \in People,
                          NEW f \in LegacyForms, LegacyUpdate(c, a, p, f)
                   PROVE  account' = account
        BY <2>1
      <3> QED  BY DEF LegacyUpdate, Asks
    <2>7. \A c \in AdminRequests : ~AdminRollback(c)
      BY <2>1 DEF AdminRollback
    <2>9. ASSUME NEW p \in People, NEW a \in People, NEW b \in BOOLEAN, NEW active \in BOOLEAN,
                 NEW asAdmin \in BOOLEAN, NEW r \in Roles \cup SystemRoles,
                 CreateUser(a, p, b, active, r, asAdmin) \/ Register(p)
          PROVE  \E u \in Account, ofrole \in SUBSET SystemRoles : NewAccount(p, u, ofrole)
      BY <2>9, AccountRow
    <2>10. ASSUME NEW p \in People, Register(p)
           PROVE  \E u \in Account, ofrole \in SUBSET SystemRoles : NewAccount(p, u, ofrole)
      BY <2>9, <2>10 DEF SystemRoles
    <2> QED
      BY <2>2, <2>3, <2>4, <2>5, <2>6, <2>7, <2>8, <2>9, <2>10 DEF AccountsNext
  <1>5. ~\E p \in People, u \in Account, ofrole \in SUBSET SystemRoles : NewAccount(p, u, ofrole)
    BY <1>1, <1>3 DEF NewAccount, Exists, AccountsInv
  <1>6. PICK c \in AdminRequests : AdminCommit(c)
    BY <1>4, <1>5
  <1> DEFINE q == desk[c]
             p == desk[c].on
  <1>7. AskOK(q) /\ q.pc = "commit" /\ p \in People
    BY <1>6 DEF AdminCommit, AccountsInv, AskOK
  <1>8. desk'[c].pc = "idle"
    BY <1>6 DEF AdminCommit, AccountsInv, AtRestDesk
  <1>9. /\ q.kind # "put" /\ ~(q.kind = "role" /\ q.was.role # "system_admin")
        /\ ~Stale(q) /\ q.counted = ActiveAdmins
    BY <1>7, <1>8
  <1>10. q.was = account[p]  BY <1>9 DEF Stale
  <1>11. \A x \in People \ {p} : account'[x] = account[x]
    <2>1. \/ account' = account \/ account' = [account EXCEPT ![p] = NoAccount]
          \/ account' = [account EXCEPT ![p] = Merged(account[p], q.was, q.want)]
      BY <1>6 DEF AdminCommit
    <2> HIDE DEF p, q
    <2> QED  BY <1>7, <2>1 DEF AccountsInv
  <1>12. o = p  BY <1>3, <1>11
  <1>13. ActiveAdmins \ {p} = {}
    BY <1>2, <1>11 DEF ActiveAdmins, Exists, Out
  <1>14. Out(q.want)
    <2>1. CASE q.want = NoAccount  BY <2>1 DEF Out
    <2>2. CASE q.want # NoAccount
      <3>1. q.was \in Account /\ q.want \in Account /\ account[p] \in Account
        BY <1>1, <1>7, <1>12, <2>2 DEF AskOK, AccountsInv
      <3>2. account' = account \/ account' = [account EXCEPT ![p] = Merged(account[p], q.was, q.want)]
        BY <1>6, <2>2 DEF AdminCommit
      <3>3. account'[p] = q.want
        <4>1. Merged(account[p], q.was, q.want) = q.want  BY <1>10, <3>1, MergedRow
        <4> HIDE DEF p, q
        <4> QED  BY <1>3, <1>7, <1>12, <3>2, <4>1 DEF AccountsInv
      <3> QED  BY <1>2, <1>7, <2>2, <3>3
    <2> QED  BY <2>1, <2>2
  <1>15. q.was.admin /\ q.was.active  BY <1>1, <1>10, <1>12
  <1>16. \/ ~(q.was.admin /\ q.was.active /\ Out(q.want))
         \/ q.counted \ {p} # {}
    BY <1>7, <1>9 DEF AskOK
  <1> QED  BY <1>9, <1>13, <1>14, <1>15, <1>16

\* It says what the runs check of the types.
LEMMA AccountsFacts ==
    ASSUME AccountsInv
    PROVE  AccountsTypeOK
  BY DEF AccountsInv, AskOK, AccountsTypeOK

\* The flag and the role of an account agree, but for one that was seeded otherwise or that a
\* legacy form or overlapping requests have written, and the last active administrator goes only
\* by a request that does not count, or by one that counted before the accounts changed.
THEOREM AccountsStayExplained == AccountsSpec => AccountsExplained
  <1>1. AccountsInv /\ [AccountsNext]_accountVars => [LeftUncounted]_accountVars
    BY AccountsAssumption, LastAdminGoes
  <1>2. AccountsInv => RolesAgree  BY DEF AccountsInv
  <1> QED
    BY <1>1, <1>2, AccountsAssumption, AccountsAlways, PTL
    DEF AccountsSpec, AccountsExplained, LastAdminGoesUncounted

-----------------------------------------------------------------------------
(* RoleDesk. *)

\* A request names roles that may be made, or a set that it replaces with what that set may
\* have; and between its DELETE and its INSERT it knows all that the DELETE has seen.
EditOK(q) ==
    /\ q.pc \in {"idle", "read", "cleared", "create"}
    /\ q.pc = "create" => q.names \subseteq Operational \cup Custom /\ q.new \subseteq Permissions
    /\ q.pc \in {"read", "cleared"} =>
          \/ q.of \in Workers /\ q.new \subseteq Operational
          \/ q.of \in Names /\ q.new \subseteq Permissions /\ Allowed(q.of, q.new)
    /\ q.pc = "cleared" => q.rows = q.saw

\* The inductive invariant.
RolesInv ==
    /\ grants \in [Names -> {Absent} \cup SUBSET Permissions]
    /\ grants["system_admin"] = Absent \/ Vital \subseteq grants["system_admin"]
    /\ works \in [Workers -> SUBSET Operational]
    /\ edit = [c \in RoleRequests |-> edit[c]]
    /\ \A c \in RoleRequests : EditOK(edit[c])
    /\ edits \in 0..MaxEdits /\ blended \subseteq Names \cup Workers

\* A request that starts, goes on or ends leaves the others as they are.
LEMMA EditMoves ==
    ASSUME RolesInv, NEW c \in RoleRequests, NEW q, EditOK(q), edit' = [edit EXCEPT ![c] = q]
    PROVE  /\ edit' = [d \in RoleRequests |-> edit'[d]]
           /\ \A d \in RoleRequests : EditOK(edit'[d])
           /\ edit'[c] = q /\ \A d \in RoleRequests \ {c} : edit'[d] = edit[d]
  BY DEF RolesInv

\* A request that is over has nothing left to do.
LEMMA NoEditOK == EditOK(NoEdit)
  BY DEF EditOK, NoEdit

\* A request that takes q keeps the invariant.
LEMMA TakesStep ==
    ASSUME RoleDeskAssumption, RolesInv, NEW c \in RoleRequests, NEW q, EditOK(q),
           Takes(c, q), UNCHANGED <<grants, works, blended>>
    PROVE  RolesInv'
  <1>1. edits' \in 0..MaxEdits
    BY DEF Takes, RolesInv, RoleDeskAssumption
  <1>2. edit' = [edit EXCEPT ![c] = q]  BY DEF Takes
  <1> QED  BY <1>1, <1>2, EditMoves DEF RolesInv

\* So do the commit of a creation, and a request that is rolled back.
LEMMA RoleCreateStep ==
    ASSUME RoleDeskAssumption, RolesInv, NEW c \in RoleRequests, RoleCreateCommit(c)
    PROVE  RolesInv'
  <1>1. edit[c].names \subseteq Operational \cup Custom /\ edit[c].new \subseteq Permissions
    BY DEF RoleCreateCommit, RolesInv, EditOK
  <1>2. edit' = [edit EXCEPT ![c] = NoEdit]  BY DEF RoleCreateCommit, Leaves
  <1>3. /\ edit' = [d \in RoleRequests |-> edit'[d]]
        /\ \A d \in RoleRequests : EditOK(edit'[d])
    BY <1>2, NoEditOK, EditMoves
  <1>4. /\ grants' \in [Names -> {Absent} \cup SUBSET Permissions]
        /\ grants'["system_admin"] = Absent \/ Vital \subseteq grants'["system_admin"]
    BY <1>1 DEF RoleCreateCommit, RolesInv, Names, RoleDeskAssumption
  <1>5. blended' \subseteq Names \cup Workers /\ UNCHANGED <<works, edits>>
    BY DEF RoleCreateCommit, RolesInv
  <1> QED  BY <1>3, <1>4, <1>5 DEF RolesInv

\* The DELETE.
LEMMA ClearStep ==
    ASSUME RolesInv, NEW c \in RoleRequests, Clear(c)
    PROVE  RolesInv'
  <1> DEFINE q == [pc |-> "cleared", of |-> edit[c].of, was |-> edit[c].was,
                   rows |-> Cleared(edit[c]), saw |-> Current(edit[c].of), new |-> edit[c].new]
  <1>1. EditOK(q)
    BY DEF Clear, RolesInv, EditOK, Cleared
  <1>2. edit' = [edit EXCEPT ![c] = NoEdit] \/ edit' = [edit EXCEPT ![c] = q]
    BY DEF Clear, Leaves
  <1> HIDE DEF q
  <1>3. /\ edit' = [d \in RoleRequests |-> edit'[d]]
        /\ \A d \in RoleRequests : EditOK(edit'[d])
    BY <1>1, <1>2, NoEditOK, EditMoves
  <1>4. UNCHANGED <<grants, works, edits, blended>>  BY DEF Clear
  <1> QED  BY <1>3, <1>4 DEF RolesInv

\* The INSERT: what was kept is of the set that is replaced.
LEMMA ReplaceStep ==
    ASSUME RoleDeskAssumption, RolesInv, NEW c \in RoleRequests, Replace(c)
    PROVE  RolesInv'
  <1> DEFINE x    == edit[c].of
             kept == Current(x) \ edit[c].rows
  <1>1. edit' = [edit EXCEPT ![c] = NoEdit] /\ edits' = edits  BY DEF Replace, Leaves
  <1>2. /\ edit' = [d \in RoleRequests |-> edit'[d]]
        /\ \A d \in RoleRequests : EditOK(edit'[d])
    BY <1>1, NoEditOK, EditMoves
  <1>3. CASE Current(x) = Absent \/ kept \cap edit[c].new # {}
    <2>1. UNCHANGED <<grants, works, blended>>  BY <1>3 DEF Replace
    <2> QED  BY <1>1, <1>2, <2>1 DEF RolesInv
  <1>4. CASE ~(Current(x) = Absent \/ kept \cap edit[c].new # {})
    <2>1. \/ x \in Workers /\ edit[c].new \subseteq Operational
          \/ x \in Names /\ edit[c].new \subseteq Permissions /\ Allowed(x, edit[c].new)
      BY DEF Replace, RolesInv, EditOK
    <2>2. x \in Workers => x \notin Names  BY DEF RoleDeskAssumption, Names
    <2>3. blended' \subseteq Names \cup Workers
      <3>1. blended' = IF kept # {} THEN blended \cup {x} ELSE blended \ {x}
        BY <1>4 DEF Replace
      <3> QED  BY <2>1, <3>1 DEF RolesInv
    <2>4. CASE x \in Workers
      <3>1. works' = [works EXCEPT ![x] = kept \cup edit[c].new] /\ grants' = grants
        BY <1>4, <2>4 DEF Replace
      <3>2. kept \subseteq Operational /\ edit[c].new \subseteq Operational
        BY <2>1, <2>2, <2>4 DEF Current, RolesInv
      <3>3. works' \in [Workers -> SUBSET Operational]
        BY <2>4, <3>1, <3>2 DEF RolesInv
      <3> QED  BY <1>1, <1>2, <2>3, <3>1, <3>3 DEF RolesInv
    <2>5. CASE x \notin Workers
      <3>1. grants' = [grants EXCEPT ![x] = kept \cup edit[c].new] /\ works' = works
        BY <1>4, <2>5 DEF Replace
      <3>2. x \in Names /\ edit[c].new \subseteq Permissions /\ Allowed(x, edit[c].new)
        BY <2>1, <2>5
      <3>3. kept \subseteq Permissions
        BY <1>4, <2>5, <3>2 DEF Current, RolesInv
      <3>4. grants' \in [Names -> {Absent} \cup SUBSET Permissions]
        BY <3>1, <3>2, <3>3 DEF RolesInv
      <3>5. grants'["system_admin"] = Absent \/ Vital \subseteq grants'["system_admin"]
        BY <3>1, <3>2 DEF RolesInv, Allowed, Names
      <3> QED  BY <1>1, <1>2, <2>3, <3>1, <3>4, <3>5 DEF RolesInv
    <2> QED  BY <2>4, <2>5
  <1> QED  BY <1>3, <1>4

\* Every step keeps the invariant.
LEMMA RolesStep ==
    ASSUME RoleDeskAssumption, RolesInv, [RolesNext]_roleVars
    PROVE  RolesInv'
  <1>1. ASSUME NEW c \in RoleRequests, NEW r \in Names, NEW P \in SUBSET Permissions,
               RoleCreateBegin(c, r, P)
        PROVE  RolesInv'
    <2>1. EditOK([pc |-> "create", names |-> {r}, new |-> P])
      BY <1>1 DEF RoleCreateBegin, EditOK
    <2> QED  BY <1>1, <2>1, TakesStep DEF RoleCreateBegin
  <1>2. ASSUME NEW c \in RoleRequests, OperationalEnsure(c)
        PROVE  RolesInv'
    <2>1. EditOK([pc |-> "create", names |-> Operational \ Known, new |-> {}])
      BY DEF EditOK
    <2> QED  BY <1>2, <2>1, TakesStep DEF OperationalEnsure
  <1>3. ASSUME NEW c \in RoleRequests, NEW r \in Names, NEW P \in SUBSET Permissions,
               PermissionsBegin(c, r, P)
        PROVE  RolesInv'
    <2>1. EditOK([pc |-> "read", of |-> r, was |-> grants[r], new |-> P])
      BY <1>3 DEF PermissionsBegin, EditOK
    <2> QED  BY <1>3, <2>1, TakesStep DEF PermissionsBegin
  <1>4. ASSUME NEW c \in RoleRequests, NEW u \in Workers, NEW R \in SUBSET Operational,
               WorkBegin(c, u, R) \/ WorkPut(c, u, R)
        PROVE  RolesInv'
    <2>1. EditOK([pc |-> "read", of |-> u, was |-> works[u], new |-> R])
      BY DEF EditOK
    <2> QED  BY <1>4, <2>1, TakesStep DEF WorkBegin, WorkPut
  <1>5. ASSUME NEW r \in Names, NEW inUse \in BOOLEAN, DeleteRole(r, inUse) \/ HardDeleteRole(r, inUse)
        PROVE  RolesInv'
    <2>1. grants' = [grants EXCEPT ![r] = Absent] /\ edits' = edits + 1 /\ edits < MaxEdits
          /\ UNCHANGED <<works, edit, blended>>
      BY <1>5 DEF DeleteRole, HardDeleteRole, Deleted
    <2>2. edits' \in 0..MaxEdits
      BY <2>1 DEF RolesInv, RoleDeskAssumption
    <2>3. /\ grants' \in [Names -> {Absent} \cup SUBSET Permissions]
          /\ grants'["system_admin"] = Absent \/ Vital \subseteq grants'["system_admin"]
      BY <2>1 DEF RolesInv, Names
    <2> QED  BY <2>1, <2>2, <2>3 DEF RolesInv
  <1>6. ASSUME NEW c \in RoleRequests, RoleRollback(c)
        PROVE  RolesInv'
    <2>1. edit' = [edit EXCEPT ![c] = NoEdit] /\ UNCHANGED <<grants, works, edits, blended>>
      BY <1>6 DEF RoleRollback, Leaves
    <2> QED  BY <2>1, NoEditOK, EditMoves DEF RolesInv
  <1>7. CASE UNCHANGED roleVars
    BY <1>7 DEF roleVars, RolesInv
  <1> QED
    BY <1>1, <1>2, <1>3, <1>4, <1>5, <1>6, <1>7, RoleCreateStep, ClearStep, ReplaceStep DEF RolesNext

\* It holds at the start, and always.
LEMMA RolesAlways ==
    ASSUME RoleDeskAssumption  PROVE RolesSpec => []RolesInv
  <1>1. RolesInit => RolesInv
    BY NoEditOK DEF RolesInit, RolesInv, Names, RoleDeskAssumption
  <1>2. RolesInv /\ [RolesNext]_roleVars => RolesInv'
    BY RolesStep
  <1> QED  BY <1>1, <1>2, PTL DEF RolesSpec

\* The types follow.
LEMMA RolesFacts ==
    ASSUME RolesInv  PROVE RolesTypeOK
  BY DEF RolesInv, RolesTypeOK, EditOK

\* Only the INSERT of its own request ends a replacement with a change: what it keeps is
\* what the DELETE has not seen.
LEMMA SetsReplaced ==
    ASSUME RoleDeskAssumption, RolesInv, RolesNext  PROVE SetAsAsked
  <1> SUFFICES ASSUME NEW c \in RoleRequests, edit[c].pc = "cleared", edit'[c].pc = "idle",
                      <<grants, works>>' # <<grants, works>>
               PROVE  LET x == edit[c].of
                      IN  \/ (IF x \in Workers THEN works'[x] ELSE grants'[x]) = edit[c].new
                          \/ (x \in blended' /\ edit[c].saw # Current(x))
    BY DEF SetAsAsked
  <1>1. \/ \E d \in RoleRequests : RoleCreateCommit(d) \/ Replace(d)
        \/ \E r \in Names, inUse \in BOOLEAN : DeleteRole(r, inUse) \/ HardDeleteRole(r, inUse)
    BY DEF RolesNext, OperationalEnsure, Clear, RoleRollback, RoleCreateBegin, PermissionsBegin,
           WorkBegin, WorkPut
  <1>2. ~\E r \in Names, inUse \in BOOLEAN : DeleteRole(r, inUse) \/ HardDeleteRole(r, inUse)
    BY DEF DeleteRole, HardDeleteRole, Deleted
  <1>3. ~\E d \in RoleRequests : RoleCreateCommit(d)
    BY DEF RoleCreateCommit, Leaves, RolesInv
  <1>4. PICK d \in RoleRequests : Replace(d)
    BY <1>1, <1>2, <1>3
  <1>5. d = c
    BY <1>4 DEF Replace, Leaves, RolesInv
  <1> DEFINE x    == edit[c].of
             kept == Current(x) \ edit[c].rows
  <1>6. /\ IF x \in Workers THEN works' = [works EXCEPT ![x] = kept \cup edit[c].new]
                            ELSE grants' = [grants EXCEPT ![x] = kept \cup edit[c].new]
        /\ blended' = IF kept # {} THEN blended \cup {x} ELSE blended \ {x}
    BY <1>4, <1>5 DEF Replace
  <1>7. (x \in Workers \/ x \in Names) /\ edit[c].rows = edit[c].saw
    BY DEF RolesInv, EditOK
  <1>8. (IF x \in Workers THEN works'[x] ELSE grants'[x]) = kept \cup edit[c].new
    BY <1>6, <1>7 DEF RolesInv
  <1>9. kept # {} => x \in blended' /\ edit[c].saw # Current(x)
    BY <1>6, <1>7
  <1> QED  BY <1>8, <1>9

\* A replacement of the permissions of a role, or of the roles of a worker, leaves the set that
\* was asked for, unless what it did not see was committed between its DELETE and its INSERT.
THEOREM ReplacementsAreExact == RolesSpec => ReplacedAsAsked
  <1>1. RolesInv /\ [RolesNext]_roleVars => [SetAsAsked]_roleVars
    BY RoleDeskAssumption, SetsReplaced
  <1> QED  BY <1>1, RoleDeskAssumption, RolesAlways, PTL DEF RolesSpec, ReplacedAsAsked

-----------------------------------------------------------------------------
(* Forms. *)

\* No two fields of a set have the same id, or the same key.
OneEach(F)  == \A f, g \in F : f.id = g.id => f = g
Distinct(F) == \A f, g \in F : f.key = g.key => f = g

\* What an edit may be asked to do with the fields that it has loaded.
ChangeOK(b, was) ==
    \/ b.op = "add" /\ b.key \in Keys /\ NewKey(b.key, was)
    \/ /\ b.op = "set" /\ b.field \in was /\ b.key \in Keys
       /\ b.key # b.field.key => NewKey(b.key, was \ {b.field})
    \/ b.op = "drop" /\ b.field \in was
    \/ b.op = "meta" /\ b.target \in Targets \cup {"inactive"}
    \/ b.op = "restore" /\ b.of \subseteq Field

\* A request in flight when there are n versions and the submissions S: an edit, or a
\* submission that its handler has not committed, or has.
WorkOK(w, n, S) ==
    \/ w = NoWork
    \/ /\ w.pc = "edit" /\ w.was \subseteq Field /\ OneEach(w.was) /\ ChangeOK(w.by, w.was)
       /\ w.version \in 1..n /\ w.version < MaxVersions
    \/ w.pc = "handle" /\ w.version \in Nat /\ w.target \in Targets
    \/ w.pc = "answer" /\ w.sub \in DOMAIN S /\ S[w.sub].done /\ S[w.sub].target \in Committing

Version    == [n : Nat \ {0}, of : SUBSET Field]
Submission == [status : {"pending", "processed", "failed"}, done : BOOLEAN, target : Targets, version : Nat]

FormTypes ==
    /\ form = NoForm \/ form \in [version : 1..MaxVersions + 1, target : Targets \cup {"inactive"}]
    /\ fields \subseteq Field /\ OneEach(fields)
    /\ nextField \in 1..MaxFieldId + 1 /\ \A f \in fields : f.id < nextField
    /\ versions \in Seq(Version) /\ subs \in Seq(Submission)
    /\ overlapped \in BOOLEAN /\ cut \subseteq DOMAIN subs
    /\ work = [r \in FormRequests |-> work[r]]
    /\ \A r \in FormRequests : WorkOK(work[r], Len(versions), subs)

\* Without a form nothing is under way, and the version of a form never exceeds the number of
\* its versions: an edit may be numbered like another, but not beyond.
FormOrNothing ==
    /\ form = NoForm => fields = {} /\ subs = <<>> /\ \A r \in FormRequests : work[r] = NoWork
    /\ form # NoForm => form.version <= Len(versions)

RestoresDistinct(w) == w.pc = "edit" /\ w.by.op = "restore" => Distinct(w.by.of)

\* While edits do not overlap, the keys of the fields differ, and so do those of every
\* version and of what is being restored; the versions are numbered one by one.
InStep ==
    form # NoForm /\ ~overlapped =>
        /\ Distinct(fields) /\ form.version = Len(versions)
        /\ \A i \in DOMAIN versions : versions[i].n = i /\ Distinct(versions[i].of)
        /\ \A r \in FormRequests : RestoresDistinct(work[r])

\* The inductive invariant.
FormsInv == FormTypes /\ FormOrNothing /\ InStep /\ SubmissionTells

\* There are finitely many fields.
LEMMA FieldFinite ==
    ASSUME FormsAssumption  PROVE IsFiniteSet(Field)
  <1> DEFINE P == (1..MaxFieldId) \X Keys
             f == [x \in Field |-> <<x.id, x.key>>]
  <1>1. IsFiniteSet(1..MaxFieldId)  BY FS_Interval DEF FormsAssumption
  <1>2. IsFiniteSet(P)  BY <1>1, FS_Product DEF FormsAssumption
  <1>3. f \in Injection(Field, P)
    <2>1. \A x \in Field : x.id \in 1..MaxFieldId /\ x.key \in Keys  BY DEF Field
    <2>2. \A x, y \in Field : x.id = y.id /\ x.key = y.key => x = y  BY DEF Field
    <2>3. f \in [Field -> P]  BY <2>1
    <2>4. IsInjective(f)  BY <2>2 DEF IsInjective
    <2> QED  BY <2>3, <2>4 DEF Injection
  <1> QED  BY <1>2, <1>3, FS_Injection

\* SetToSeq lists a finite set, each element once.
LEMMA ListsOnce ==
    ASSUME NEW S, IsFiniteSet(S)
    PROVE  /\ Cardinality(S) \in Nat /\ SetToSeq(S) \in [1..Cardinality(S) -> S]
           /\ IsInjective(SetToSeq(S))
  <1>1. Cardinality(S) \in Nat /\ ExistsBijection(1..Cardinality(S), S)  BY FS_CardinalityType
  <1>2. \E f \in [1..Cardinality(S) -> S] : IsInjective(f)
    BY <1>1 DEF ExistsBijection, Bijection, Injection
  <1> QED  BY <1>1, <1>2 DEF SetToSeq

\* Fields whose keys differ are as many as their keys.
LEMMA KeysCounted ==
    ASSUME NEW F, IsFiniteSet(F), Distinct(F)
    PROVE  Cardinality(KeysOf(F)) = Cardinality(F)
  <1> DEFINE f == [x \in F |-> x.key]
  <1>1. f \in [F -> KeysOf(F)] /\ \A k \in KeysOf(F) : \E x \in F : f[x] = k  BY DEF KeysOf
  <1>2. f \in Surjection(F, KeysOf(F))  BY <1>1 DEF Surjection
  <1>3. f \in Injection(F, KeysOf(F))  BY <1>1 DEF Injection, IsInjective, Distinct
  <1> QED  BY <1>2, <1>3, FS_Surjection

\* New rows have ids of their own, and different keys if the keys listed differ.
LEMMA FreshRows ==
    ASSUME NEW K \in Seq(Keys), nextField \in 1..MaxFieldId + 1, MaxFieldId \in Nat,
           nextField + Len(K) <= MaxFieldId + 1
    PROVE  /\ Fresh(K) \subseteq Field /\ OneEach(Fresh(K))
           /\ \A f \in Fresh(K) : nextField <= f.id /\ f.id < nextField + Len(K)
           /\ IsInjective(K) => Distinct(Fresh(K))
           /\ \A f \in Fresh(K) : \E i \in DOMAIN K : f.key = K[i]
  <1> DEFINE row(i) == [id |-> nextField + i - 1, key |-> K[i]]
  <1>1. Len(K) \in Nat /\ DOMAIN K = 1..Len(K) /\ \A i \in 1..Len(K) : K[i] \in Keys  OBVIOUS
  <1>2. \A i \in 1..Len(K) : row(i) \in Field /\ row(i).id = nextField + i - 1 /\ row(i).key = K[i]
    BY <1>1 DEF Field
  <1>3. Fresh(K) = {row(i) : i \in 1..Len(K)}  BY DEF Fresh
  <1> HIDE DEF row
  <1>4. \A f \in Fresh(K) : \E i \in 1..Len(K) : f = row(i)  BY <1>3
  <1>5. ASSUME NEW f \in Fresh(K), NEW g \in Fresh(K)
        PROVE  /\ f.id = g.id => f = g
               /\ IsInjective(K) /\ f.key = g.key => f = g
    <2>1. PICK i \in 1..Len(K) : f = row(i)  BY <1>4
    <2>2. PICK j \in 1..Len(K) : g = row(j)  BY <1>4
    <2>3. f.id = g.id => i = j  BY <1>2, <2>1, <2>2
    <2>4. IsInjective(K) /\ f.key = g.key => i = j  BY <1>1, <1>2, <2>1, <2>2 DEF IsInjective
    <2> QED  BY <2>1, <2>2, <2>3, <2>4
  <1>6. Fresh(K) \subseteq Field  BY <1>2, <1>3
  <1>7. \A f \in Fresh(K) : /\ nextField <= f.id /\ f.id < nextField + Len(K)
                            /\ \E i \in DOMAIN K : f.key = K[i]
    <2> SUFFICES ASSUME NEW f \in Fresh(K)
                 PROVE  /\ nextField <= f.id /\ f.id < nextField + Len(K)
                        /\ \E i \in DOMAIN K : f.key = K[i]
      OBVIOUS
    <2>1. PICK i \in 1..Len(K) : f = row(i)  BY <1>4
    <2>2. f.id = nextField + i - 1 /\ f.key = K[i]  BY <1>2, <2>1
    <2>3. nextField \in Nat  OBVIOUS
    <2> QED  BY <1>1, <2>2, <2>3
  <1> QED  BY <1>5, <1>6, <1>7 DEF OneEach, Distinct

\* A field under another key keeps its id.
LEMMA RenamedRows ==
    ASSUME NEW F \in SUBSET Field, OneEach(F), NEW f \in Field, NEW k \in Keys
    PROVE  /\ Renamed(F, f, k) \subseteq Field /\ OneEach(Renamed(F, f, k))
           /\ \A h \in Renamed(F, f, k) : \E g \in F : h.id = g.id
           /\ Distinct(F) /\ f \in F /\ (k # f.key => NewKey(k, F \ {f})) => Distinct(Renamed(F, f, k))
  <1> DEFINE row(g) == IF g.id = f.id THEN [g EXCEPT !.key = k] ELSE g
  <1>1. \A g \in F : /\ row(g) \in Field /\ row(g).id = g.id
                     /\ row(g).key = IF g.id = f.id THEN k ELSE g.key
    BY DEF Field
  <1>2. Renamed(F, f, k) = {row(g) : g \in F}  BY DEF Renamed
  <1> HIDE DEF row
  <1>3. \A h \in Renamed(F, f, k) : \E g \in F : h = row(g)  BY <1>2
  <1>4. ASSUME NEW h \in Renamed(F, f, k), NEW i \in Renamed(F, f, k)
        PROVE  /\ h.id = i.id => h = i
               /\ Distinct(F) /\ f \in F /\ (k # f.key => NewKey(k, F \ {f})) /\ h.key = i.key => h = i
    <2>1. PICK g \in F : h = row(g)  BY <1>3
    <2>2. PICK e \in F : i = row(e)  BY <1>3
    <2>3. h.id = i.id => g = e  BY <1>1, <2>1, <2>2 DEF OneEach
    <2>4. ASSUME Distinct(F), f \in F, k # f.key => NewKey(k, F \ {f}), h.key = i.key
          PROVE  g = e
      <3>1. \A x \in F : (x.id = f.id) <=> (x = f)  BY <2>4 DEF OneEach
      <3>2. \A x \in F : x # f => x.key # k
        BY <2>4 DEF NewKey, KeysOf, Distinct
      <3> QED  BY <1>1, <2>1, <2>2, <2>4, <3>1, <3>2 DEF Distinct
    <2> QED  BY <2>1, <2>2, <2>3, <2>4
  <1>5. \A h \in Renamed(F, f, k) : h \in Field /\ \E g \in F : h.id = g.id
    BY <1>1, <1>3
  <1> QED  BY <1>4, <1>5 DEF OneEach, Distinct

\* The keys an edit inserts.
LEMMA InsertedKeys ==
    ASSUME FormsAssumption, NEW q, ChangeOK(q.by, q.was)
    PROVE  /\ Inserted(q) \in Seq(Keys) /\ Len(Inserted(q)) \in Nat
           /\ q.by.op = "add" => Inserted(q) = <<q.by.key>>
           /\ q.by.op = "restore" /\ Distinct(q.by.of) => IsInjective(Inserted(q))
           /\ q.by.op \notin {"add", "restore"} => Inserted(q) = <<>>
  <1>1. CASE q.by.op = "add"
    <2>1. Inserted(q) = <<q.by.key>>  BY <1>1 DEF Inserted
    <2>2. q.by.key \in Keys  BY <1>1 DEF ChangeOK
    <2> QED  BY <1>1, <2>1, <2>2
  <1>2. CASE q.by.op = "restore"
    <2> DEFINE F == q.by.of
               s == SetToSeq(F)
               n == Cardinality(F)
               K == [i \in 1..n |-> s[i].key]
    <2>1. F \subseteq Field  BY <1>2 DEF ChangeOK
    <2>2. IsFiniteSet(F)  BY <2>1, FieldFinite, FS_Subset
    <2>3. n \in Nat /\ s \in [1..n -> F] /\ IsInjective(s)  BY <2>2, ListsOnce
    <2>4. Inserted(q) = K  BY <1>2 DEF Inserted
    <2> HIDE DEF s, n, F
    <2>5. \A i \in 1..n : s[i] \in F /\ s[i] \in Field /\ s[i].key \in Keys  BY <2>1, <2>3 DEF Field
    <2>6. K \in Seq(Keys) /\ Len(K) = n  BY <2>3, <2>5
    <2>7. Distinct(F) => IsInjective(K)
      <3>1. \A i, j \in 1..n : s[i] = s[j] => i = j  BY <2>3 DEF IsInjective
      <3> QED  BY <2>5, <3>1 DEF IsInjective, Distinct
    <2> QED  BY <1>2, <2>3, <2>4, <2>6, <2>7 DEF F
  <1>3. CASE q.by.op \notin {"add", "restore"}
    <2>1. Inserted(q) = <<>>  BY <1>3 DEF Inserted
    <2> QED  BY <1>3, <2>1
  <1> QED  BY <1>1, <1>2, <1>3
\* The rows after an edit.
LEMMA EditedRows ==
    ASSUME FormsAssumption, FormTypes, NEW q, ChangeOK(q.by, q.was), q.was \subseteq Field,
           nextField + Len(Inserted(q)) <= MaxFieldId + 1
    PROVE  LET F == Edited(q, Fresh(Inserted(q))) IN
           /\ F \subseteq Field /\ OneEach(F)
           /\ \A f \in F : f.id < nextField + Len(Inserted(q))
           /\ /\ Distinct(fields) /\ fields = q.was
              /\ q.by.op = "restore" => Distinct(q.by.of)
              /\ q.by.op = "set" => q.by.field \in fields
              => Distinct(F)
  <1> DEFINE K == Inserted(q)
             new == Fresh(K)
             F == Edited(q, new)
  <1>1. /\ K \in Seq(Keys) /\ Len(K) \in Nat
        /\ q.by.op = "add" => K = <<q.by.key>>
        /\ q.by.op = "restore" /\ Distinct(q.by.of) => IsInjective(K)
    BY InsertedKeys
  <1>2. nextField \in 1..MaxFieldId + 1 /\ MaxFieldId \in Nat /\ nextField + Len(K) <= MaxFieldId + 1
    BY DEF FormTypes, FormsAssumption
  <1>3. /\ fields \subseteq Field /\ OneEach(fields) /\ \A f \in fields : f.id < nextField
        /\ \A f \in Field : f.id \in Nat
    BY DEF FormTypes, Field
  <1> HIDE DEF K
  <1>4. /\ new \subseteq Field /\ OneEach(new)
        /\ \A f \in new : nextField <= f.id /\ f.id < nextField + Len(K)
        /\ IsInjective(K) => Distinct(new)
        /\ \A f \in new : \E i \in DOMAIN K : f.key = K[i]
    BY <1>1, <1>2, FreshRows
  <1>5. \A f \in fields : f.id < nextField + Len(K) /\ \A g \in new : f.id # g.id
    BY <1>1, <1>2, <1>3, <1>4
  <1> HIDE DEF new
  <1>6. CASE q.by.op = "add"
    <2>1. F = fields \cup new  BY <1>6 DEF Edited
    <2>2. K = <<q.by.key>> /\ NewKey(q.by.key, q.was)  BY <1>1, <1>6 DEF ChangeOK
    <2>3. \A f \in new : f.key = q.by.key  BY <1>4, <2>2
    <2>4. IsInjective(K)  BY <2>2 DEF IsInjective
    <2>5. OneEach(F)  BY <1>3, <1>4, <1>5, <2>1 DEF OneEach
    <2>6. Distinct(fields) /\ fields = q.was => Distinct(F)
      BY <1>4, <2>1, <2>2, <2>3, <2>4 DEF Distinct, NewKey, KeysOf
    <2> QED  BY <1>3, <1>4, <1>5, <2>1, <2>5, <2>6 DEF K, new
  <1>7. CASE q.by.op = "set"
    <2>1. F = Renamed(fields, q.by.field, q.by.key)  BY <1>7 DEF Edited
    <2>2. /\ q.by.field \in q.was /\ q.by.field \in Field /\ q.by.key \in Keys
          /\ q.by.key # q.by.field.key => NewKey(q.by.key, q.was \ {q.by.field})
      BY <1>7 DEF ChangeOK
    <2> DEFINE f == q.by.field
               k == q.by.key
    <2>4. fields \in SUBSET Field /\ OneEach(fields) /\ f \in Field /\ k \in Keys  BY <1>3, <2>2
    <2>5. fields = q.was => f \in fields /\ (k # f.key => NewKey(k, fields \ {f}))  BY <2>2
    <2> HIDE DEF f, k
    <2>6. /\ Renamed(fields, f, k) \subseteq Field /\ OneEach(Renamed(fields, f, k))
          /\ \A h \in Renamed(fields, f, k) : \E g \in fields : h.id = g.id
          /\ Distinct(fields) /\ f \in fields /\ (k # f.key => NewKey(k, fields \ {f}))
             => Distinct(Renamed(fields, f, k))
      BY <2>4, RenamedRows
    <2>3. /\ F \subseteq Field /\ OneEach(F) /\ \A h \in F : \E g \in fields : h.id = g.id
          /\ Distinct(fields) /\ fields = q.was => Distinct(F)
      <3>1. F = Renamed(fields, f, k)  BY <2>1 DEF f, k
      <3> HIDE DEF F
      <3> QED  BY <2>5, <2>6, <3>1
    <2> QED  BY <1>5, <2>3 DEF K, new
  <1>8. CASE q.by.op \in {"drop", "meta"}
    <2>1. F \subseteq fields  BY <1>8 DEF Edited
    <2> QED  BY <1>3, <1>5, <2>1 DEF OneEach, Distinct, K, new
  <1>9. CASE q.by.op = "restore"
    <2> DEFINE old == {g \in fields : \E f \in q.was : f.id = g.id}
    <2>1. F = (fields \ old) \cup new  BY <1>9 DEF Edited, Restored
    <2>2. F \subseteq fields \cup new /\ (fields = q.was => F = new)  BY <2>1
    <2>3. OneEach(F)  BY <1>3, <1>4, <1>5, <2>2 DEF OneEach
    <2> HIDE DEF F
    <2> QED  BY <1>1, <1>3, <1>4, <1>5, <1>9, <2>2, <2>3 DEF K, new, F
  <1> QED  BY <1>6, <1>7, <1>8, <1>9 DEF ChangeOK

\* The version that an edit writes shows fields, whose keys differ as they did.
LEMMA SnapshotRows ==
    ASSUME NEW q, ChangeOK(q.by, q.was), q.was \subseteq Field, OneEach(q.was)
    PROVE  Snapshot(q) \subseteq Field /\ (Distinct(q.was) => Distinct(Snapshot(q)))
  <1>1. CASE q.by.op = "set"
    <2>1. Snapshot(q) = Renamed(q.was, q.by.field, q.by.key)  BY <1>1 DEF Snapshot
    <2>2. /\ q.by.field \in q.was /\ q.by.field \in Field /\ q.by.key \in Keys
          /\ q.by.key # q.by.field.key => NewKey(q.by.key, q.was \ {q.by.field})
      BY <1>1 DEF ChangeOK
    <2> DEFINE F == q.was
               f == q.by.field
               k == q.by.key
    <2>3. /\ F \in SUBSET Field /\ OneEach(F) /\ f \in Field /\ k \in Keys
          /\ f \in F /\ (k # f.key => NewKey(k, F \ {f})) /\ Snapshot(q) = Renamed(F, f, k)
      BY <2>1, <2>2
    <2> HIDE DEF F, f, k
    <2>4. Snapshot(q) \subseteq Field /\ (Distinct(F) => Distinct(Snapshot(q)))
      BY <2>3, RenamedRows
    <2> QED  BY <2>4 DEF F
  <1>2. CASE q.by.op # "set"
    BY <1>2 DEF Snapshot
  <1> QED  BY <1>1, <1>2
\* A request stays what it is when versions and submissions come, and what is done stays.
LEMMA WorkKept ==
    ASSUME NEW w, NEW n \in Nat, NEW m \in Nat, n <= m, NEW S, NEW T, WorkOK(w, n, S),
           \A i \in DOMAIN S : i \in DOMAIN T /\ S[i].target = T[i].target /\ (S[i].done => T[i].done)
    PROVE  WorkOK(w, m, T)
  BY DEF WorkOK

\* A request that starts, goes on or ends leaves the others as they are.
LEMMA WorkMoves ==
    ASSUME FormTypes, NEW r \in FormRequests, NEW w, work' = [work EXCEPT ![r] = w]
    PROVE  /\ work' = [q \in FormRequests |-> work'[q]]
           /\ work'[r] = w /\ \A q \in FormRequests \ {r} : work'[q] = work[q]
  BY DEF FormTypes

\* An edit begins.
LEMMA EditBegins ==
    ASSUME FormsAssumption, FormsInv, NEW r \in FormRequests, NEW change, Edits(r, change),
           ChangeOK(change, fields), ~overlapped /\ change.op = "restore" => Distinct(change.of)
    PROVE  FormsInv'
  <1> DEFINE w == [pc |-> "edit", was |-> fields, version |-> form.version, by |-> change]
  <1>1. /\ work[r] = NoWork /\ form # NoForm /\ Len(versions) < MaxVersions
        /\ work' = [work EXCEPT ![r] = w]
        /\ UNCHANGED <<form, fields, nextField, versions, subs, overlapped, cut>>
    BY DEF Edits
  <1>2. /\ w.pc = "edit" /\ w.was = fields /\ w.version = form.version /\ w.by = change /\ w # NoWork
    BY DEF NoWork
  <1>3. form.version \in Nat /\ 1 <= form.version /\ form.version <= Len(versions) /\ Len(versions) \in Nat
    <2>1. form \in [version : 1..MaxVersions + 1, target : Targets \cup {"inactive"}]
      BY <1>1 DEF FormsInv, FormTypes
    <2>2. versions \in Seq(Version)  BY DEF FormsInv, FormTypes
    <2> QED  BY <1>1, <2>1, <2>2 DEF FormsInv, FormOrNothing, FormsAssumption
  <1> HIDE DEF w
  <1>4. WorkOK(w, Len(versions), subs)
    <2>1. fields \subseteq Field /\ OneEach(fields)  BY DEF FormsInv, FormTypes
    <2>2. w.version \in 1..Len(versions) /\ w.version < MaxVersions
      BY <1>1, <1>2, <1>3 DEF FormsAssumption
    <2> QED  BY <1>2, <2>1, <2>2 DEF WorkOK
  <1>5. /\ work' = [q \in FormRequests |-> work'[q]]
        /\ work'[r] = w /\ \A q \in FormRequests \ {r} : work'[q] = work[q]
    BY <1>1, WorkMoves DEF FormsInv
  <1>6. FormTypes'
    <2>1. \A q \in FormRequests : WorkOK(work'[q], Len(versions'), subs')
      BY <1>1, <1>4, <1>5 DEF FormsInv, FormTypes
    <2> QED  BY <1>1, <1>5, <2>1 DEF FormsInv, FormTypes
  <1>7. FormOrNothing'  BY <1>1 DEF FormsInv, FormOrNothing
  <1>8. InStep'
    <2>1. ~overlapped => RestoresDistinct(w)  BY <1>2 DEF RestoresDistinct
    <2> QED  BY <1>1, <1>5, <2>1 DEF FormsInv, InStep
  <1>9. SubmissionTells'
    <2>1. work[r].pc # "answer"  BY <1>1 DEF NoWork
    <2>2. Sent(FormRequests) \subseteq Sent(FormRequests)'  BY <1>1, <1>5, <2>1 DEF Sent
    <2> QED  BY <1>1, <2>2 DEF FormsInv, SubmissionTells
  <1> QED  BY <1>6, <1>7, <1>8, <1>9 DEF FormsInv

\* So begin all edits.
LEMMA EditsBegin ==
    ASSUME FormsAssumption, FormsInv, NEW r \in FormRequests,
           \/ \E k \in Keys : AddField(r, k) \/ \E f \in fields : UpdateField(r, f, k)
           \/ \E f \in fields : DeleteField(r, f)
           \/ \E t \in Targets \cup {"inactive"} : UpdateForm(r, t)
           \/ \E i \in 1..MaxVersions : RestoreVersion(r, i)
    PROVE  FormsInv'
  <1>1. ASSUME NEW k \in Keys, AddField(r, k)
        PROVE  FormsInv'
    <2> DEFINE b == [op |-> "add", key |-> k]
    <2>1. Edits(r, b) /\ NewKey(k, fields) /\ b.op = "add" /\ b.key = k  BY <1>1 DEF AddField
    <2> HIDE DEF b
    <2> QED  BY <2>1, EditBegins DEF ChangeOK
  <1>2. ASSUME NEW k \in Keys, NEW f \in fields, UpdateField(r, f, k)
        PROVE  FormsInv'
    <2> DEFINE b == [op |-> "set", field |-> f, key |-> k]
    <2>1. Edits(r, b) /\ (k # f.key => NewKey(k, fields \ {f})) /\ b.op = "set" /\ b.key = k /\ b.field = f
      BY <1>2 DEF UpdateField
    <2> HIDE DEF b
    <2> QED  BY <2>1, EditBegins DEF ChangeOK
  <1>3. ASSUME NEW f \in fields, DeleteField(r, f)
        PROVE  FormsInv'
    <2> DEFINE b == [op |-> "drop", field |-> f]
    <2>1. Edits(r, b) /\ b.op = "drop" /\ b.field = f  BY <1>3 DEF DeleteField
    <2> HIDE DEF b
    <2> QED  BY <2>1, EditBegins DEF ChangeOK
  <1>4. ASSUME NEW t \in Targets \cup {"inactive"}, UpdateForm(r, t)
        PROVE  FormsInv'
    <2> DEFINE b == [op |-> "meta", target |-> t]
    <2>1. Edits(r, b) /\ b.op = "meta" /\ b.target = t  BY <1>4 DEF UpdateForm
    <2> HIDE DEF b
    <2> QED  BY <2>1, EditBegins DEF ChangeOK
  <1>5. ASSUME NEW i \in 1..MaxVersions, RestoreVersion(r, i)
        PROVE  FormsInv'
    <2> DEFINE b == [op |-> "restore", of |-> versions[i].of]
    <2>1. Edits(r, b) /\ i \in DOMAIN versions /\ b.op = "restore" /\ b.of = versions[i].of
      BY <1>5 DEF RestoreVersion
    <2>2. form # NoForm  BY <2>1 DEF Edits
    <2> HIDE DEF b
    <2>3. versions[i] \in Version  BY <2>1 DEF FormsInv, FormTypes
    <2>4. b.of \subseteq Field  BY <2>1, <2>3 DEF Version
    <2>5. ~overlapped => Distinct(b.of)  BY <2>1, <2>2 DEF FormsInv, InStep
    <2> QED  BY <2>1, <2>4, <2>5, EditBegins DEF ChangeOK
  <1> QED  BY <1>1, <1>2, <1>3, <1>4, <1>5
\* The first version of a form shows its fields, which have the keys that were asked for.
LEMMA CreateFormStep ==
    ASSUME FormsAssumption, FormsInv, NEW t \in Targets, NEW K \in SUBSET Keys, CreateForm(t, K)
    PROVE  FormsInv'
  <1> DEFINE s == SetToSeq(K)
             n == Cardinality(K)
  <1>1. n \in Nat /\ s \in [1..n -> K] /\ IsInjective(s)
    <2>1. IsFiniteSet(K)  BY FS_Subset DEF FormsAssumption
    <2> QED  BY <2>1, ListsOnce
  <1>2. /\ form = NoForm /\ versions = <<>> /\ nextField + n <= MaxFieldId + 1
        /\ fields' = Fresh(s) /\ versions' = <<[n |-> 1, of |-> fields']>>
        /\ form' = [version |-> 1, target |-> t] /\ nextField' = nextField + n
        /\ UNCHANGED <<subs, work, overlapped, cut>>
    BY DEF CreateForm
  <1> HIDE DEF s, n
  <1>3. s \in Seq(Keys) /\ Len(s) = n
    <2>1. s \in [1..n -> Keys]  BY <1>1
    <2> QED  BY <1>1, <2>1
  <1>4. nextField \in 1..MaxFieldId + 1 /\ MaxFieldId \in Nat /\ MaxVersions \in Nat
    BY DEF FormsInv, FormTypes, FormsAssumption
  <1>5. /\ fields' \subseteq Field /\ OneEach(fields')
        /\ \A f \in fields' : f.id < nextField'
        /\ Distinct(fields')
    BY <1>1, <1>2, <1>3, <1>4, FreshRows
  <1>6. \A r \in FormRequests : work'[r] = NoWork
    BY <1>2 DEF FormsInv, FormOrNothing
  <1>7. FormTypes'
    <2>1. form' \in [version : 1..MaxVersions + 1, target : Targets \cup {"inactive"}]
      BY <1>2, <1>4
    <2>2. versions' \in Seq(Version) /\ nextField' \in 1..MaxFieldId + 1
      BY <1>1, <1>2, <1>4, <1>5 DEF Version
    <2>3. \A r \in FormRequests : WorkOK(work'[r], Len(versions'), subs')
      BY <1>6 DEF WorkOK
    <2> QED  BY <1>2, <1>5, <2>1, <2>2, <2>3 DEF FormsInv, FormTypes
  <1>8. FormOrNothing'
    <2>1. form'.version = 1 /\ Len(versions') = 1 /\ form' # NoForm
      BY <1>2 DEF NoForm
    <2> QED  BY <2>1 DEF FormOrNothing
  <1>9. InStep'
    <2>1. form'.version = 1 /\ Len(versions') = 1 /\ DOMAIN versions' = {1}
          /\ versions'[1].n = 1 /\ versions'[1].of = fields'
      BY <1>2
    <2>2. \A r \in FormRequests : RestoresDistinct(work'[r])
      BY <1>6 DEF RestoresDistinct, NoWork
    <2> QED  BY <1>5, <2>1, <2>2 DEF InStep
  <1>10. SubmissionTells'
    BY <1>2 DEF FormsInv, SubmissionTells, Sent
  <1> QED  BY <1>7, <1>8, <1>9, <1>10 DEF FormsInv

\* A form that goes takes everything with it.
LEMMA DeleteFormStep ==
    ASSUME FormsAssumption, FormsInv, DeleteForm  PROVE FormsInv'
  <1>1. /\ form' = NoForm /\ fields' = {} /\ versions' = <<>> /\ subs = <<>>
        /\ work' = [r \in FormRequests |-> NoWork] /\ overlapped' = FALSE
        /\ UNCHANGED <<nextField, subs, cut>>
    BY DEF DeleteForm
  <1>2. \A r \in FormRequests : work'[r] = NoWork  BY <1>1
  <1>3. \A r \in FormRequests : WorkOK(work'[r], Len(versions'), subs')  BY <1>2 DEF WorkOK
  <1>4. FormTypes'
    <2>1. <<>> \in Seq(Version) /\ OneEach({})  BY DEF OneEach
    <2> QED  BY <1>1, <1>3, <2>1 DEF FormsInv, FormTypes
  <1>5. FormOrNothing' /\ InStep'  BY <1>1, <1>2 DEF FormOrNothing, InStep
  <1>6. SubmissionTells'  BY <1>1 DEF SubmissionTells
  <1> QED  BY <1>4, <1>5, <1>6 DEF FormsInv

\* The commit of an edit numbers a version after the one that it has loaded.
LEMMA EditCommitStep ==
    ASSUME FormsAssumption, FormsInv, NEW r \in FormRequests, EditCommit(r)
    PROVE  FormsInv'
  <1> DEFINE q == work[r]
             K == Inserted(q)
             v == [n |-> q.version + 1, of |-> Snapshot(q)]
  <1>1. /\ q.pc = "edit" /\ work' = [work EXCEPT ![r] = NoWork] /\ UNCHANGED <<subs, cut>>
    BY DEF EditCommit, FormIdle
  <1>2. /\ q.was \subseteq Field /\ OneEach(q.was) /\ ChangeOK(q.by, q.was)
        /\ q.version \in 1..Len(versions) /\ q.version < MaxVersions /\ q # NoWork
    <2>1. WorkOK(q, Len(versions), subs) /\ q # NoWork  BY <1>1 DEF FormsInv, FormTypes, NoWork
    <2> QED  BY <1>1, <2>1 DEF WorkOK
  <1>3. /\ work' = [x \in FormRequests |-> work'[x]]
        /\ work'[r] = NoWork /\ \A x \in FormRequests \ {r} : work'[x] = work[x]
    BY <1>1, WorkMoves DEF FormsInv
  <1>4. form # NoForm /\ form \in [version : 1..MaxVersions + 1, target : Targets \cup {"inactive"}]
    BY <1>2 DEF FormsInv, FormOrNothing, FormTypes
  <1>5. versions \in Seq(Version) /\ subs \in Seq(Submission)  BY DEF FormsInv, FormTypes
  <1>6. SubmissionTells'
    <2>1. work[r].pc # "answer"  BY <1>1
    <2>2. Sent(FormRequests) \subseteq Sent(FormRequests)'  BY <1>1, <1>3, <2>1 DEF Sent
    <2> QED  BY <1>1, <2>2 DEF FormsInv, SubmissionTells
  <1>7. CASE UNCHANGED <<form, fields, nextField, versions, overlapped>>
    <2>1. \A x \in FormRequests : WorkOK(work'[x], Len(versions'), subs')
      BY <1>1, <1>3, <1>7 DEF WorkOK, FormsInv, FormTypes
    <2>2. FormTypes'  BY <1>1, <1>3, <1>7, <2>1 DEF FormsInv, FormTypes
    <2>3. FormOrNothing'  BY <1>1, <1>3, <1>4, <1>7 DEF FormsInv, FormOrNothing
    <2>4. RestoresDistinct(NoWork)  BY DEF RestoresDistinct, NoWork
    <2>5. InStep'  BY <1>3, <1>7, <2>4 DEF FormsInv, InStep
    <2> QED  BY <1>6, <2>2, <2>3, <2>5 DEF FormsInv
  <1>8. CASE /\ nextField + Len(K) <= MaxFieldId + 1
             /\ q.by.op = "set" => \E g \in fields : g.id = q.by.field.id
             /\ fields' = Edited(q, Fresh(K))
             /\ nextField' = nextField + Len(K)
             /\ versions' = Append(versions, v)
             /\ form' = [version |-> q.version + 1,
                         target |-> IF q.by.op = "meta" THEN q.by.target ELSE form.target]
             /\ overlapped' = (overlapped \/ fields # q.was \/ form.version # q.version)
    <2>1. /\ fields' \subseteq Field /\ OneEach(fields')
          /\ \A f \in fields' : f.id < nextField'
          /\ /\ Distinct(fields) /\ fields = q.was
             /\ q.by.op = "restore" => Distinct(q.by.of)
             /\ q.by.op = "set" => q.by.field \in fields
             => Distinct(fields')
      <3>1. FormTypes  BY DEF FormsInv
      <3> QED  BY <1>2, <1>8, <3>1, EditedRows
    <2>2. /\ Snapshot(q) \subseteq Field /\ (Distinct(q.was) => Distinct(Snapshot(q)))
      BY <1>2, SnapshotRows
    <2>3. Len(K) \in Nat  BY <1>2, InsertedKeys
    <2>4. nextField' \in 1..MaxFieldId + 1
      <3>1. nextField \in 1..MaxFieldId + 1 /\ MaxFieldId \in Nat  BY DEF FormsInv, FormTypes, FormsAssumption
      <3> HIDE DEF K
      <3> QED  BY <1>8, <2>3, <3>1
    <2> HIDE DEF K
    <2>5. /\ form'.version = q.version + 1 /\ form' # NoForm
          /\ form' \in [version : 1..MaxVersions + 1, target : Targets \cup {"inactive"}]
      <3>1. q.by.op = "meta" => q.by.target \in Targets \cup {"inactive"}  BY <1>2 DEF ChangeOK
      <3>2. q.version + 1 \in 1..MaxVersions + 1 /\ q.version + 1 > 0
        BY <1>2, <1>5 DEF FormsAssumption
      <3>3. NoForm.version = 0  BY DEF NoForm
      <3> QED  BY <1>4, <1>8, <3>1, <3>2, <3>3
    <2>6. v \in Version /\ v.n = q.version + 1 /\ v.of = Snapshot(q)
      BY <1>2, <1>5, <2>2 DEF Version
    <2> HIDE DEF v
    <2>7. /\ versions' \in Seq(Version) /\ Len(versions') = Len(versions) + 1
          /\ DOMAIN versions' = 1..Len(versions) + 1
          /\ \A i \in 1..Len(versions) : versions'[i] = versions[i]
          /\ versions'[Len(versions) + 1] = v
      BY <1>5, <1>8, <2>6
    <2>8. \A x \in FormRequests : WorkOK(work'[x], Len(versions'), subs')
      <3>1. \A x \in FormRequests : WorkOK(work[x], Len(versions), subs)  BY DEF FormsInv, FormTypes
      <3>2. Len(versions) \in Nat  BY <1>5
      <3>3. \A x \in FormRequests \ {r} : WorkOK(work[x], Len(versions) + 1, subs)
        BY <3>1, <3>2, WorkKept
      <3>4. WorkOK(NoWork, Len(versions'), subs')  BY DEF WorkOK
      <3> QED  BY <1>1, <1>3, <2>7, <3>3, <3>4
    <2>9. FormTypes'
      <3>1. overlapped' \in BOOLEAN  BY <1>8 DEF FormsInv, FormTypes
      <3> QED  BY <1>1, <1>3, <2>1, <2>4, <2>5, <2>7, <2>8, <3>1 DEF FormsInv, FormTypes
    <2>10. FormOrNothing'
      BY <1>2, <1>5, <2>5, <2>7 DEF FormOrNothing
    <2>11. InStep'
      <3> SUFFICES ASSUME ~overlapped' PROVE InStep'
        BY DEF InStep
      <3>1. ~overlapped /\ fields = q.was /\ form.version = q.version  BY <1>8
      <3>2. /\ Distinct(fields) /\ form.version = Len(versions)
            /\ \A i \in DOMAIN versions : versions[i].n = i /\ Distinct(versions[i].of)
            /\ \A x \in FormRequests : RestoresDistinct(work[x])
        BY <1>4, <3>1 DEF FormsInv, InStep
      <3>3. q.by.op = "restore" => Distinct(q.by.of)  BY <1>1, <3>2 DEF RestoresDistinct
      <3>4. q.by.op = "set" => q.by.field \in fields  BY <1>2, <3>1 DEF ChangeOK
      <3>5. Distinct(fields') /\ Distinct(Snapshot(q))  BY <2>1, <2>2, <3>1, <3>2, <3>3, <3>4
      <3>6. \A i \in DOMAIN versions' : versions'[i].n = i /\ Distinct(versions'[i].of)
        <4>1. \A i \in 1..Len(versions) : versions[i].n = i /\ Distinct(versions[i].of)
          BY <1>5, <3>2
        <4>2. v.n = Len(versions) + 1 /\ Distinct(v.of)  BY <2>6, <3>1, <3>2, <3>5
        <4> QED  BY <1>5, <2>7, <4>1, <4>2
      <3>7. \A x \in FormRequests : RestoresDistinct(work'[x])
        <4>1. RestoresDistinct(NoWork)  BY DEF RestoresDistinct, NoWork
        <4> QED  BY <1>3, <3>2, <4>1
      <3>8. form'.version = Len(versions')  BY <2>5, <2>7, <3>1, <3>2
      <3> QED  BY <3>5, <3>6, <3>7, <3>8 DEF InStep
    <2> QED  BY <1>6, <2>9, <2>10, <2>11 DEF FormsInv
  <1>9. \/ UNCHANGED <<form, fields, nextField, versions, overlapped>>
        \/ /\ nextField + Len(K) <= MaxFieldId + 1
           /\ q.by.op = "set" => \E g \in fields : g.id = q.by.field.id
           /\ fields' = Edited(q, Fresh(K))
           /\ nextField' = nextField + Len(K)
           /\ versions' = Append(versions, v)
           /\ form' = [version |-> q.version + 1,
                       target |-> IF q.by.op = "meta" THEN q.by.target ELSE form.target]
           /\ overlapped' = (overlapped \/ fields # q.was \/ form.version # q.version)
    BY DEF EditCommit
  <1> QED  BY <1>7, <1>8, <1>9

\* What SubmissionTells says of one submission.
Told(s, left) == (s.done \/ s.status = "failed")
                 /\ (s.done /\ s.status # "processed" => s.target \in Committing /\ left)

LEMMA TellsEach ==
    /\ SubmissionTells <=> \A i \in DOMAIN subs : Told(subs[i], i \in cut \cup Sent(FormRequests))
    /\ SubmissionTells' <=> \A i \in DOMAIN subs' : Told(subs'[i], i \in cut' \cup Sent(FormRequests)')
  BY DEF SubmissionTells, Told

\* A submission that comes, with what its handler has done, leaves the others as they are.
LEMMA SubmissionComes ==
    ASSUME FormsAssumption, FormsInv, NEW r \in FormRequests, NEW sub \in Submission, NEW w,
           form # NoForm, work[r].pc = "handle",
           subs' = Append(subs, sub), work' = [work EXCEPT ![r] = w],
           UNCHANGED <<form, fields, nextField, versions, overlapped, cut>>,
           \/ w = NoWork /\ sub.status # "pending" /\ (sub.status = "processed" <=> sub.done)
           \/ /\ w.pc = "answer" /\ w.sub = Len(subs) + 1
              /\ sub.status = "pending" /\ sub.done /\ sub.target \in Committing
    PROVE  FormsInv'
  <1>1. subs \in Seq(Submission) /\ Len(subs) \in Nat  BY DEF FormsInv, FormTypes
  <1>2. /\ subs' \in Seq(Submission) /\ Len(subs') = Len(subs) + 1 /\ DOMAIN subs' = 1..Len(subs) + 1
        /\ \A i \in 1..Len(subs) : subs'[i] = subs[i]
        /\ subs'[Len(subs) + 1] = sub
    BY <1>1
  <1>3. /\ work' = [q \in FormRequests |-> work'[q]]
        /\ work'[r] = w /\ \A q \in FormRequests \ {r} : work'[q] = work[q]
    BY WorkMoves DEF FormsInv
  <1>4. \A q \in FormRequests : WorkOK(work'[q], Len(versions'), subs')
    <2>1. \A q \in FormRequests : WorkOK(work[q], Len(versions), subs)  BY DEF FormsInv, FormTypes
    <2>2. Len(versions) \in Nat  BY DEF FormsInv, FormTypes
    <2>3. \A i \in DOMAIN subs : i \in DOMAIN subs' /\ subs[i].target = subs'[i].target
                                /\ (subs[i].done => subs'[i].done)
      BY <1>1, <1>2
    <2>4. \A q \in FormRequests : WorkOK(work[q], Len(versions), subs')
      <3>1. ASSUME NEW q \in FormRequests  PROVE WorkOK(work[q], Len(versions), subs')
        BY <2>1, <2>2, <2>3 DEF WorkOK
      <3> QED  BY <3>1
    <2>5. WorkOK(w, Len(versions), subs')  BY <1>1, <1>2 DEF WorkOK
    <2> QED  BY <1>3, <2>4, <2>5
  <1>5. FormTypes'
    <2>1. cut' \subseteq DOMAIN subs'  BY <1>1, <1>2 DEF FormsInv, FormTypes
    <2> QED  BY <1>2, <1>3, <1>4, <2>1 DEF FormsInv, FormTypes
  <1>6. FormOrNothing'  BY DEF FormsInv, FormOrNothing
  <1>7. InStep'
    <2>1. RestoresDistinct(w)  BY DEF RestoresDistinct, NoWork
    <2> QED  BY <1>3, <2>1 DEF FormsInv, InStep
  <1>8. SubmissionTells'
    <2> SUFFICES ASSUME NEW i \in DOMAIN subs'
                 PROVE  Told(subs'[i], i \in cut' \cup Sent(FormRequests)')
      BY TellsEach
    <2>1. CASE i = Len(subs) + 1
      <3>1. w.pc = "answer" => i \in Sent(FormRequests)'  BY <1>3, <2>1 DEF Sent, NoWork
      <3>2. subs'[i] = sub /\ sub.status \in {"pending", "processed", "failed"}
        BY <1>2, <2>1 DEF Submission
      <3>3. CASE w = NoWork /\ sub.status # "pending" /\ (sub.status = "processed" <=> sub.done)
        BY <3>2, <3>3 DEF Told
      <3>4. CASE w.pc = "answer" /\ sub.done /\ sub.target \in Committing
        BY <3>1, <3>2, <3>4 DEF Told
      <3> QED  BY <3>3, <3>4
    <2>2. CASE i # Len(subs) + 1
      <3>1. i \in DOMAIN subs /\ subs'[i] = subs[i]  BY <1>1, <1>2, <2>2
      <3>2. \A q \in FormRequests : work[q].pc = "answer" => work'[q] = work[q]  BY <1>3
      <3>3. Sent(FormRequests) \subseteq Sent(FormRequests)'  BY <3>2 DEF Sent
      <3>4. Told(subs[i], i \in cut \cup Sent(FormRequests))
        BY <3>1, TellsEach DEF FormsInv
      <3> QED  BY <3>1, <3>3, <3>4 DEF Told
    <2> QED  BY <2>1, <2>2
  <1> QED  BY <1>5, <1>6, <1>7, <1>8 DEF FormsInv

\* So do the submissions that their handlers commit, and those that are answered at once.
LEMMA HandlerStep ==
    ASSUME FormsAssumption, FormsInv, NEW r \in FormRequests,
           HandlerCommits(r) \/ \E ok \in BOOLEAN : SubmitAtOnce(r, ok)
    PROVE  FormsInv'
  <1>1. work[r].pc = "handle"  BY DEF HandlerCommits, SubmitAtOnce
  <1>2. work[r] # NoWork  BY <1>1 DEF NoWork
  <1>3. WorkOK(work[r], Len(versions), subs)  BY DEF FormsInv, FormTypes
  <1>4. work[r].version \in Nat /\ work[r].target \in Targets  BY <1>1, <1>2, <1>3 DEF WorkOK
  <1>5. form # NoForm  BY <1>2 DEF FormsInv, FormOrNothing
  <1>6. CASE HandlerCommits(r)
    <2> DEFINE sub == [status |-> "pending", done |-> TRUE, target |-> work[r].target, version |-> work[r].version]
               w   == [pc |-> "answer", sub |-> Len(subs) + 1]
    <2>1. /\ sub \in Submission /\ sub.status = "pending" /\ sub.done /\ sub.target \in Committing
          /\ w.pc = "answer" /\ w.sub = Len(subs) + 1
      BY <1>4, <1>6 DEF Submission, HandlerCommits
    <2>2. /\ subs' = Append(subs, sub) /\ work' = [work EXCEPT ![r] = w]
          /\ UNCHANGED <<form, fields, nextField, versions, overlapped, cut>>
      BY <1>6 DEF HandlerCommits
    <2> HIDE DEF sub, w
    <2> QED  BY <1>1, <1>5, <2>1, <2>2, SubmissionComes
  <1>7. ASSUME NEW ok \in BOOLEAN, SubmitAtOnce(r, ok)
        PROVE  FormsInv'
    <2> DEFINE sub == [status |-> Outcome(ok), done |-> ok, target |-> work[r].target, version |-> work[r].version]
    <2>1. /\ sub \in Submission /\ sub.status # "pending" /\ (sub.status = "processed" <=> sub.done)
      BY <1>4 DEF Submission, Outcome
    <2>2. /\ subs' = Append(subs, sub) /\ work' = [work EXCEPT ![r] = NoWork]
          /\ UNCHANGED <<form, fields, nextField, versions, overlapped, cut>>
      BY <1>7 DEF SubmitAtOnce, FormIdle
    <2> HIDE DEF sub
    <2> QED  BY <1>1, <1>5, <2>1, <2>2, SubmissionComes
  <1> QED  BY <1>6, <1>7

\* The answer marks what the handler has done, or leaves it marked as failed and remembers it.
LEMMA AnswerStep ==
    ASSUME FormsAssumption, FormsInv, NEW r \in FormRequests, NEW ok \in BOOLEAN, SubmitAnswer(r, ok)
    PROVE  FormsInv'
  <1> DEFINE s == work[r].sub
             sub == [subs[s] EXCEPT !.status = Outcome(ok)]
  <1>1. /\ work[r].pc = "answer" /\ subs' = [subs EXCEPT ![s] = sub]
        /\ work' = [work EXCEPT ![r] = NoWork]
        /\ cut' = IF ok THEN cut ELSE cut \cup {s}
        /\ UNCHANGED <<form, fields, nextField, versions, overlapped>>
    BY DEF SubmitAnswer, FormIdle
  <1>2. s \in DOMAIN subs /\ subs[s].done /\ subs[s].target \in Committing
    <2>1. WorkOK(work[r], Len(versions), subs) /\ work[r] # NoWork
      BY <1>1 DEF FormsInv, FormTypes, NoWork
    <2> QED  BY <1>1, <2>1 DEF WorkOK
  <1>3. subs \in Seq(Submission)  BY DEF FormsInv, FormTypes
  <1>4. /\ sub \in Submission /\ (ok => sub.status = "processed")
        /\ sub.done /\ sub.target = subs[s].target
    <2>1. subs[s] \in Submission  BY <1>2, <1>3
    <2>2. (ok => Outcome(ok) = "processed") /\ (~ok => Outcome(ok) = "failed")  BY DEF Outcome
    <2> QED  BY <1>2, <2>1, <2>2 DEF Submission
  <1> HIDE DEF sub, s
  <1>5. /\ subs' \in Seq(Submission) /\ DOMAIN subs' = DOMAIN subs /\ subs'[s] = sub
        /\ \A i \in DOMAIN subs \ {s} : subs'[i] = subs[i]
    <2>1. subs \in [1..Len(subs) -> Submission] /\ Len(subs) \in Nat  BY <1>3
    <2>2. subs' \in [1..Len(subs) -> Submission]  BY <1>1, <1>2, <1>4, <2>1
    <2>3. subs' \in Seq(Submission)  BY <2>1, <2>2
    <2> QED  BY <1>1, <1>2, <2>1, <2>3
  <1>6. /\ work' = [q \in FormRequests |-> work'[q]]
        /\ work'[r] = NoWork /\ \A q \in FormRequests \ {r} : work'[q] = work[q]
    BY <1>1, WorkMoves DEF FormsInv
  <1>7. FormTypes'
    <2>1. \A q \in FormRequests : WorkOK(work[q], Len(versions), subs)  BY DEF FormsInv, FormTypes
    <2>2. Len(versions) \in Nat  BY DEF FormsInv, FormTypes
    <2>3. \A i \in DOMAIN subs : i \in DOMAIN subs' /\ subs[i].target = subs'[i].target
                                /\ (subs[i].done => subs'[i].done)
      BY <1>4, <1>5
    <2>4. \A q \in FormRequests : WorkOK(work[q], Len(versions), subs')
      BY <2>1, <2>2, <2>3, WorkKept
    <2>5. WorkOK(NoWork, Len(versions), subs')  BY DEF WorkOK
    <2>6. \A q \in FormRequests : WorkOK(work'[q], Len(versions'), subs')
      BY <1>1, <1>6, <2>4, <2>5
    <2>7. cut' \subseteq DOMAIN subs'  BY <1>1, <1>2, <1>5 DEF FormsInv, FormTypes
    <2> QED  BY <1>1, <1>5, <1>6, <2>6, <2>7 DEF FormsInv, FormTypes
  <1>8. FormOrNothing'
    <2>1. form # NoForm
      <3>1. work[r] # NoWork  BY <1>1 DEF NoWork
      <3> QED  BY <3>1 DEF FormsInv, FormOrNothing
    <2> QED  BY <1>1, <2>1 DEF FormsInv, FormOrNothing
  <1>9. InStep'
    <2>1. RestoresDistinct(NoWork)  BY DEF RestoresDistinct, NoWork
    <2> QED  BY <1>1, <1>6, <2>1 DEF FormsInv, InStep
  <1>10. SubmissionTells'
    <2> SUFFICES ASSUME NEW i \in DOMAIN subs'
                 PROVE  Told(subs'[i], i \in cut' \cup Sent(FormRequests)')
      BY TellsEach
    <2>1. CASE i = s
      <3>1. ~ok => s \in cut'  BY <1>1
      <3> QED  BY <1>2, <1>4, <1>5, <2>1, <3>1 DEF Told
    <2>2. CASE i # s
      <3>1. i \in DOMAIN subs /\ subs'[i] = subs[i]  BY <1>5, <2>2
      <3>2. \A q \in FormRequests : work[q].pc = "answer" /\ work[q].sub = i => work'[q] = work[q]
        BY <1>6, <2>2 DEF s
      <3>3. i \in Sent(FormRequests) => i \in Sent(FormRequests)'  BY <3>2 DEF Sent
      <3>4. Told(subs[i], i \in cut \cup Sent(FormRequests))
        BY <3>1, TellsEach DEF FormsInv
      <3>5. cut \subseteq cut'  BY <1>1
      <3> QED  BY <3>1, <3>3, <3>4, <3>5 DEF Told
    <2> QED  BY <2>1, <2>2
  <1> QED  BY <1>7, <1>8, <1>9, <1>10 DEF FormsInv

\* A request that fails, or a stop of the server, ends what is under way, and is remembered of
\* what was not answered.
LEMMA FormsCrashStep ==
    ASSUME FormsAssumption, FormsInv, FormsCrash \/ \E r \in FormRequests : SubmitFails(r)
    PROVE  FormsInv'
  <1>1. PICK R \in SUBSET FormRequests :
           /\ cut' = cut \cup Sent(R)
           /\ work' = [r \in FormRequests |-> IF r \in R THEN NoWork ELSE work[r]]
           /\ form # NoForm \/ R = FormRequests
           /\ UNCHANGED <<form, fields, nextField, versions, subs, overlapped>>
    <2>1. CASE FormsCrash
      BY <2>1 DEF FormsCrash
    <2>2. ASSUME NEW r \in FormRequests, SubmitFails(r)
          PROVE  /\ cut' = cut \cup Sent({r})
                 /\ work' = [q \in FormRequests |-> IF q \in {r} THEN NoWork ELSE work[q]]
                 /\ form # NoForm
                 /\ UNCHANGED <<form, fields, nextField, versions, subs, overlapped>>
      <3>1. work[r] # NoWork  BY <2>2 DEF SubmitFails, NoWork
      <3> QED  BY <2>2, <3>1 DEF SubmitFails, FormIdle, FormsInv, FormTypes, FormOrNothing
    <2> QED  BY <2>1, <2>2
  <1>2. \A r \in FormRequests : work'[r] = NoWork \/ work'[r] = work[r]  BY <1>1
  <1>3. FormTypes'
    <2>1. \A r \in FormRequests : WorkOK(work'[r], Len(versions'), subs')
      BY <1>1, <1>2 DEF WorkOK, FormsInv, FormTypes
    <2>2. Sent(R) \subseteq DOMAIN subs
      <3> SUFFICES ASSUME NEW r \in FormRequests, work[r].pc = "answer" PROVE work[r].sub \in DOMAIN subs
        BY DEF Sent
      <3>1. WorkOK(work[r], Len(versions), subs) /\ work[r] # NoWork
        BY DEF FormsInv, FormTypes, NoWork
      <3> QED  BY <3>1 DEF WorkOK
    <2>3. cut' \subseteq DOMAIN subs'  BY <1>1, <2>2 DEF FormsInv, FormTypes
    <2>4. work' = [r \in FormRequests |-> work'[r]]  BY <1>1
    <2> QED  BY <1>1, <2>1, <2>3, <2>4 DEF FormsInv, FormTypes
  <1>4. FormOrNothing'  BY <1>1, <1>2 DEF FormsInv, FormOrNothing
  <1>5. InStep'
    <2>1. RestoresDistinct(NoWork)  BY DEF RestoresDistinct, NoWork
    <2> QED  BY <1>1, <1>2, <2>1 DEF FormsInv, InStep, RestoresDistinct
  <1>6. SubmissionTells'
    <2>1. Sent(FormRequests) \subseteq Sent(R) \cup Sent(FormRequests)'
      BY <1>1 DEF Sent
    <2>2. cut \cup Sent(FormRequests) \subseteq cut' \cup Sent(FormRequests)'
      BY <1>1, <2>1
    <2> QED  BY <1>1, <2>2, TellsEach DEF FormsInv, Told
  <1> QED  BY <1>3, <1>4, <1>5, <1>6 DEF FormsInv

\* Every step keeps the invariant.
LEMMA FormsStep ==
    ASSUME FormsAssumption, FormsInv, [FormsNext]_formVars
    PROVE  FormsInv'
  <1>1. ASSUME NEW r \in FormRequests, SubmitBegin(r)
        PROVE  FormsInv'
    <2> DEFINE w == [pc |-> "handle", target |-> form.target, version |-> form.version]
    <2>1. /\ work[r] = NoWork /\ form # NoForm /\ work' = [work EXCEPT ![r] = w]
          /\ UNCHANGED <<form, fields, nextField, versions, subs, overlapped, cut>>
      BY <1>1 DEF SubmitBegin
    <2>2. w.pc = "handle" /\ w.version = form.version /\ w.target = form.target  OBVIOUS
    <2> HIDE DEF w
    <2>3. /\ work' = [q \in FormRequests |-> work'[q]]
          /\ work'[r] = w /\ \A q \in FormRequests \ {r} : work'[q] = work[q]
      BY <2>1, WorkMoves DEF FormsInv
    <2>4. form.version \in Nat /\ form.target \in Targets  BY <1>1, <2>1 DEF FormsInv, FormTypes, SubmitBegin
    <2>5. WorkOK(w, Len(versions), subs)  BY <2>2, <2>4 DEF WorkOK
    <2>6. FormTypes'  BY <2>1, <2>3, <2>5 DEF FormsInv, FormTypes
    <2>7. FormOrNothing'  BY <2>1 DEF FormsInv, FormOrNothing
    <2>8. InStep'
      <3>1. RestoresDistinct(w)  BY <2>2 DEF RestoresDistinct
      <3> QED  BY <2>1, <2>3, <3>1 DEF FormsInv, InStep
    <2>9. SubmissionTells'
      <3>1. work[r].pc # "answer"  BY <2>1 DEF NoWork
      <3>2. Sent(FormRequests) \subseteq Sent(FormRequests)'  BY <2>3, <3>1 DEF Sent
      <3> QED  BY <2>1, <3>2 DEF FormsInv, SubmissionTells
    <2> QED  BY <2>6, <2>7, <2>8, <2>9 DEF FormsInv
  <1>2. CASE UNCHANGED formVars
    <2>1. UNCHANGED <<form, fields, nextField, versions, subs, work, overlapped, cut>>
      BY <1>2 DEF formVars
    <2> QED  BY <2>1 DEF FormsInv, FormTypes, FormOrNothing, InStep, SubmissionTells, Sent
  <1>3. ASSUME NEW r \in FormRequests,
               \/ EditCommit(r) \/ SubmitBegin(r) \/ HandlerCommits(r)
               \/ \E k \in Keys : AddField(r, k) \/ \E f \in fields : UpdateField(r, f, k)
               \/ \E f \in fields : DeleteField(r, f)
               \/ \E t \in Targets \cup {"inactive"} : UpdateForm(r, t)
               \/ \E i \in 1..MaxVersions : RestoreVersion(r, i)
               \/ \E ok \in BOOLEAN : SubmitAtOnce(r, ok) \/ SubmitAnswer(r, ok)
        PROVE  FormsInv'
    BY <1>1, <1>3, EditsBegin, EditCommitStep, HandlerStep, AnswerStep
  <1> QED
    BY <1>2, <1>3, CreateFormStep, DeleteFormStep, FormsCrashStep DEF FormsNext

\* It holds at the start, and always.
LEMMA FormsAlways ==
    ASSUME FormsAssumption  PROVE FormsSpec => []FormsInv
  <1>1. FormsInit => FormsInv
    <2> SUFFICES ASSUME FormsInit PROVE FormsInv
      OBVIOUS
    <2>1. /\ form = NoForm /\ fields = {} /\ nextField = 1 /\ versions = <<>> /\ subs = <<>>
          /\ work = [r \in FormRequests |-> NoWork] /\ overlapped = FALSE /\ cut = {}
      BY DEF FormsInit
    <2>2. \A r \in FormRequests : WorkOK(work[r], Len(versions), subs)  BY <2>1 DEF WorkOK
    <2>3. FormTypes
      <3>1. OneEach({}) /\ <<>> \in Seq(Version) /\ <<>> \in Seq(Submission)  BY DEF OneEach
      <3>2. nextField \in 1..MaxFieldId + 1  BY <2>1 DEF FormsAssumption
      <3> QED  BY <2>1, <2>2, <3>1, <3>2 DEF FormTypes
    <2> QED  BY <2>1, <2>3 DEF FormsInv, FormOrNothing, InStep, SubmissionTells
  <1>2. FormsInv /\ [FormsNext]_formVars => FormsInv'
    BY FormsStep
  <1> QED  BY <1>1, <1>2, PTL DEF FormsSpec

\* What the module states of forms follows.
LEMMA FormsFacts ==
    ASSUME FormsAssumption, FormsInv  PROVE FormsTypeOK /\ FormsKept
  <1>1. FormsTypeOK
    <2>1. \A i \in DOMAIN versions : versions[i].n >= 1 /\ versions[i].of \subseteq Field
      <3>1. \A i \in DOMAIN versions : versions[i] \in Version  BY DEF FormsInv, FormTypes
      <3> QED  BY <3>1 DEF Version
    <2>2. \A s \in DOMAIN subs : subs[s].status \in {"pending", "processed", "failed"}
      <3>1. \A s \in DOMAIN subs : subs[s] \in Submission  BY DEF FormsInv, FormTypes
      <3> QED  BY <3>1 DEF Submission
    <2> QED  BY <2>1, <2>2 DEF FormsTypeOK, FormsInv, FormTypes, FormOrNothing, OneEach
  <1>2. IsFiniteSet(fields)
    <2>1. fields \in SUBSET Field  BY DEF FormsInv, FormTypes
    <2> QED  BY <2>1, FieldFinite, FS_Subset
  <1>3. Distinct(fields) => Cardinality(KeysOf(fields)) = Cardinality(fields)
    BY <1>2, KeysCounted
  <1>4. FormsKept
    BY <1>3 DEF FormsInv, InStep, FormsKept, EditsInStep
  <1> QED  BY <1>1, <1>4

\* While edits do not overlap, a form's keys are unique and its versions are numbered one by
\* one; the work of a submission that is not failed is done, and one whose work is done without
\* being processed is of a handler that commits, and still on its way or cut off after that.
THEOREM FormsStayFit == FormsSpec => []FormsKept
  <1>1. FormsInv => FormsKept  BY FormsAssumption, FormsFacts
  <1> QED  BY <1>1, FormsAssumption, FormsAlways, PTL

-----------------------------------------------------------------------------
(* RateLimiter. *)

\* The inductive invariant: who has been refused, and not served since, has no window or one
\* that is over less than a second after the time that it was told.
RateInv ==
    /\ RateTypeOK
    /\ told \in [RateKeys -> Int]
    /\ \A k \in RateKeys :
          told[k] # Nothing => windows[k] = NoWindow \/ windows[k].start + Window * Second < told[k] + Second

\* Division rounds down.
LEMMA Rounded ==
    ASSUME NEW a \in Nat, NEW s \in Nat \ {0}
    PROVE  a \div s \in Nat /\ (a \div s) * s <= a /\ a < (a \div s) * s + s
  BY SMT

\* The word that decides the tier is one of the table.
LEMMA TierNamed ==
    ASSUME NEW p
    PROVE  TierOf(p) \in {"auth", "api", "sales", "inventory", "automation", "ws", "notifications", "upload",
                          "admin", "system", "audit"}
  <1> DEFINE names == {"auth", "api", "sales", "inventory", "automation", "ws", "notifications", "upload",
                       "admin", "system", "audit"}
             found == {i \in 1..Len(TierOrder) : TierOrder[i] \in p.words}
  <1>1. Len(TierOrder) = 10 /\ \A i \in 1..10 : TierOrder[i] \in names
    BY DEF TierOrder
  <1>2. CASE found = {}  BY <1>2 DEF TierOf
  <1>3. CASE found # {}
    <2>1. \E i \in found : \A j \in found : i <= j
      <3>1. found \subseteq 1..10  BY <1>1
      <3> HIDE DEF found
      <3>2. PICK m \in found : TRUE  BY <1>3
      <3> QED
        BY <3>1, <3>2
    <2>2. (CHOOSE i \in found : \A j \in found : i <= j) \in found  BY <2>1
    <2> QED  BY <1>1, <1>3, <2>2 DEF TierOf
  <1> QED  BY <1>2, <1>3

\* Every limit lets something through, and none is above the largest of the table.
LEMMA SomeLimit ==
    ASSUME NEW p, NEW class \in Classes
    PROVE  Limit(p, class) \in 1 .. 1000
  <1> DEFINE n == Limits[TierOf(p)][class]
  <1>2. n \in Nat /\ n >= 1 /\ n <= 1000
    BY TierNamed DEF Limits, Tier, Classes
  <1> HIDE DEF n
  <1>3. Scale \in Nat \ {0} /\ n + Scale - 1 \in Nat /\ n + Scale - 1 >= Scale
    BY <1>2, RateLimiterAssumption DEF RateLimiterAssumption
  <1> DEFINE m == n + Scale - 1
             d == m \div Scale
  <1>4. d \in Nat /\ d * Scale <= m /\ m < d * Scale + Scale
    BY <1>3, Rounded
  <1>5. d # 0
    BY <1>3, <1>4
  <1>6. Limit(p, class) = d
    BY DEF Limit, n
  <1>7. d <= 1000
    <2> HIDE DEF d
    <2> SUFFICES ASSUME d >= n + 1 PROVE FALSE
      BY <1>2, <1>4
    <2>1. d - n - 1 \in Nat /\ Scale - 1 \in Nat  BY <1>2, <1>3, <1>4
    <2>2. d * Scale = (d - n - 1) * Scale + n * (Scale - 1) + n + Scale  BY <1>2, <1>3, <1>4
    <2>3. (d - n - 1) * Scale \in Nat /\ n * (Scale - 1) \in Nat  BY <1>2, <1>3, <2>1
    <2>4. d * Scale \in Nat  BY <1>3, <1>4
    <2> QED  BY <1>2, <1>3, <1>4, <2>2, <2>3, <2>4
  <1> QED  BY <1>4, <1>5, <1>6, <1>7

\* The entry that a request finds.
LEMMA EntryFound ==
    ASSUME RateInv, NEW k \in RateKeys
    PROVE  /\ Entry(k) \in [count : Nat, start : 0..MaxTime] /\ Entry(k).start <= now
           /\ \/ Entry(k).count = 0 /\ Entry(k).start = now
              \/ windows[k] # NoWindow /\ Entry(k) = windows[k] /\ now < windows[k].start + Window * Second
  <1> DEFINE w == windows[k]
             fresh == [count |-> 0, start |-> now]
  <1>1. /\ w \in [count : Nat, start : 0..(MaxTime + 1)] /\ now \in 0..MaxTime /\ MaxTime \in Nat
        /\ w # NoWindow => w.count > 0 /\ w.start <= now
    BY RateLimiterAssumption DEF RateInv, RateTypeOK, RateLimiterAssumption
  <1>2. Window * Second \in Nat
    BY RateLimiterAssumption DEF RateLimiterAssumption
  <1>3. fresh \in [count : Nat, start : 0..MaxTime] /\ fresh.count = 0 /\ fresh.start = now
    BY <1>1
  <1>4. CASE w = NoWindow \/ now - w.start >= Window * Second
    <2>1. Entry(k) = fresh  BY <1>4 DEF Entry
    <2> QED  BY <1>1, <1>3, <2>1
  <1>5. CASE ~(w = NoWindow \/ now - w.start >= Window * Second)
    <2>1. Entry(k) = w  BY <1>5 DEF Entry
    <2>2. w.start \in 0..MaxTime /\ now < w.start + Window * Second /\ w \in [count : Nat, start : 0..MaxTime]
      BY <1>1, <1>2, <1>5
    <2> QED  BY <1>1, <1>5, <2>1, <2>2
  <1> QED  BY <1>4, <1>5

\* A window is told from none by its count.
LEMMA Counted ==
    ASSUME NEW e, e.count # 0
    PROVE  e # NoWindow
  BY DEF NoWindow

\* A request is let through: its key has been told nothing.
LEMMA AllowStep ==
    ASSUME RateInv, NEW k \in RateKeys, Allow(k, Entry(k))
    PROVE  RateInv' /\ RefusedInTime
  <1> DEFINE e == Entry(k)
             w == [count |-> e.count + 1, start |-> e.start]
  <1>1. /\ windows' = [windows EXCEPT ![k] = w] /\ told' = [told EXCEPT ![k] = Nothing] /\ UNCHANGED now
        /\ served' = [served EXCEPT ![k] = [served[k] EXCEPT ![now] = @ + 1]]
    BY DEF Allow
  <1>2. MaxTime \in Nat /\ now \in 0..MaxTime /\ Nothing \in Int
    BY RateLimiterAssumption DEF RateInv, RateTypeOK, RateLimiterAssumption, Nothing
  <1>3. w \in [count : Nat, start : 0..(MaxTime + 1)] /\ w.count > 0 /\ w.start <= now
    <2>1. e \in [count : Nat, start : 0..MaxTime] /\ e.start <= now  BY EntryFound
    <2> HIDE DEF e
    <2> QED  BY <1>2, <2>1
  <1> HIDE DEF w
  <1>4. RateTypeOK'
    <2> DEFINE row == [served[k] EXCEPT ![now] = @ + 1]
    <2>0. served[k] \in [0..MaxTime -> Nat]  BY DEF RateInv, RateTypeOK
    <2>2. row \in [0..MaxTime -> Nat]  BY <2>0, <1>2
    <2>3. served' = [served EXCEPT ![k] = row]  BY <1>1
    <2> HIDE DEF row
    <2>1. served' \in [RateKeys -> [0..MaxTime -> Nat]]
      BY <2>2, <2>3 DEF RateInv, RateTypeOK
    <2> QED  BY <1>1, <1>3, <2>1 DEF RateInv, RateTypeOK
  <1>5. told' \in [RateKeys -> Int]
    BY <1>1, <1>2 DEF RateInv
  <1>6. \A x \in RateKeys : told'[x] # Nothing => told'[x] = told[x] /\ windows'[x] = windows[x]
    BY <1>1 DEF RateInv
  <1>7. RefusedInTime
    BY <1>6 DEF RefusedInTime
  <1> QED  BY <1>4, <1>5, <1>6, <1>7 DEF RateInv

\* A request is refused, with the time when its window is over: it is not one that was told
\* a time that is over by a second.
LEMMA RefuseStep ==
    ASSUME RateInv, NEW k \in RateKeys, Refuse(k, Entry(k)), Entry(k).count >= 1
    PROVE  RateInv' /\ RefusedInTime
  <1> DEFINE e == Entry(k)
             rest == Window * Second - (now - e.start)
             t == now + ResetAfter(e) * Second
  <1>1. windows' = [windows EXCEPT ![k] = e] /\ told' = [told EXCEPT ![k] = t] /\ UNCHANGED <<now, served>>
    BY DEF Refuse
  <1>2. /\ MaxTime \in Nat /\ now \in 0..MaxTime /\ Window * Second \in Nat /\ Second \in Nat \ {0}
    BY RateLimiterAssumption DEF RateInv, RateTypeOK, RateLimiterAssumption
  <1>3. /\ e \in [count : Nat, start : 0..MaxTime] /\ e.start <= now
        /\ windows[k] # NoWindow /\ e = windows[k] /\ now < e.start + Window * Second
    BY EntryFound
  <1>4. e.start \in 0..MaxTime /\ e.count > 0
    BY <1>3
  <1>5. t \in Int /\ e.start + Window * Second < t + Second
    <2>1. rest \in Nat  BY <1>2, <1>3, <1>4
    <2> DEFINE d == rest \div Second
    <2>2. d \in Nat /\ rest < d * Second + Second  BY <1>2, <2>1, Rounded
    <2>3. ResetAfter(e) = d  BY DEF ResetAfter
    <2> HIDE DEF d
    <2>4. d * Second \in Nat  BY <1>2, <2>2
    <2> QED  BY <1>2, <1>4, <2>2, <2>3, <2>4
  <1>6. RateTypeOK'
    BY <1>1, <1>3, <1>4 DEF RateInv, RateTypeOK
  <1> HIDE DEF t
  <1>7. told' \in [RateKeys -> Int]
    BY <1>1, <1>5 DEF RateInv
  <1>8. \A x \in RateKeys : told'[x] # Nothing =>
           windows'[x] = NoWindow \/ windows'[x].start + Window * Second < told'[x] + Second
    BY <1>1, <1>3, <1>5 DEF RateInv, RateTypeOK
  <1>9. RefusedInTime
    <2> SUFFICES ASSUME NEW x \in RateKeys, told'[x] # told[x], told[x] # Nothing PROVE now < told[x] + Second
      BY DEF RefusedInTime
    <2>1. x = k  BY <1>1 DEF RateInv
    <2>2. e.start + Window * Second < told[k] + Second  BY <1>3, <2>1 DEF RateInv
    <2>3. told[k] \in Int  BY DEF RateInv
    <2> QED  BY <1>2, <1>3, <1>4, <2>1, <2>2, <2>3
  <1> QED  BY <1>6, <1>7, <1>8, <1>9 DEF RateInv

\* Every step keeps the invariant and refuses nobody late.
LEMMA RateStep ==
    ASSUME RateInv, RateNext
    PROVE  RateInv' /\ RefusedInTime
  <1>1. ASSUME NEW x \in Users \cup (Addresses \ Whitelist), NEW p \in Paths, NEW class \in Classes, Request(x, p, class)
        PROVE  RateInv' /\ RefusedInTime
    <2> DEFINE k == <<x, p.segment>>
    <2>1. k \in RateKeys  BY DEF RateKeys, Segments
    <2>2. \/ Entry(k).count < Limit(p, class) /\ Allow(k, Entry(k))
          \/ ~(Entry(k).count < Limit(p, class)) /\ Refuse(k, Entry(k))
      BY <1>1 DEF Request
    <2> HIDE DEF k
    <2>3. Entry(k).count \in Nat /\ Limit(p, class) \in 1 .. 1000
      BY <2>1, EntryFound, SomeLimit
    <2> QED  BY <2>1, <2>2, <2>3, AllowStep, RefuseStep
  <1>2. CASE Cleanup
    <2>1. /\ windows' = [k \in RateKeys |-> IF windows[k] # NoWindow /\ now - windows[k].start > Interval * Second
                                            THEN NoWindow ELSE windows[k]]
          /\ UNCHANGED <<now, served, told>>
      BY <1>2 DEF Cleanup
    <2>2. \A k \in RateKeys : windows'[k] = NoWindow \/ windows'[k] = windows[k]
      BY <2>1
    <2>3. NoWindow \in [count : Nat, start : 0..(MaxTime + 1)]
      BY RateLimiterAssumption DEF NoWindow, RateLimiterAssumption
    <2>4. windows' \in [RateKeys -> [count : Nat, start : 0..(MaxTime + 1)]]
      BY <2>1, <2>3 DEF RateInv, RateTypeOK
    <2> QED  BY <2>1, <2>2, <2>4 DEF RateInv, RateTypeOK, RefusedInTime
  <1>3. CASE Clock
    <2>1. now \in 0..MaxTime /\ MaxTime \in Nat /\ now' = now + 1 /\ now' \in 0..MaxTime /\ UNCHANGED <<windows, served, told>>
      BY <1>3, RateLimiterAssumption DEF Clock, RateInv, RateTypeOK, RateLimiterAssumption
    <2>2. \A k \in RateKeys : windows[k] # NoWindow => windows[k].count > 0 /\ windows[k].start <= now'
      BY <2>1 DEF RateInv, RateTypeOK
    <2> QED  BY <2>1, <2>2 DEF RateInv, RateTypeOK, RefusedInTime
  <1> QED  BY <1>1, <1>2, <1>3 DEF RateNext

\* Nobody has been refused at the start.
LEMMA RateStarts ==
    ASSUME RateInit
    PROVE  RateInv
  <1>1. MaxTime \in Nat /\ Nothing \in Int
    BY RateLimiterAssumption DEF RateLimiterAssumption, Nothing
  <1>2. NoWindow \in [count : Nat, start : 0..(MaxTime + 1)]
    BY <1>1 DEF NoWindow
  <1> QED  BY <1>1, <1>2 DEF RateInit, RateInv, RateTypeOK

\* The invariant holds in every state.
LEMMA RateAlways == RateSpec => []RateInv
  <1>1. RateInv /\ [RateNext]_rateVars => RateInv'
    <2>1. RateInv /\ UNCHANGED rateVars => RateInv'  BY DEF rateVars, RateInv, RateTypeOK
    <2> QED  BY <2>1, RateStep
  <1> QED  BY <1>1, RateStarts, PTL DEF RateSpec

\* A client that waits a second longer than its refusal said is not refused, unless a request
\* with its key was served in between.
THEOREM RetriesAreServed == RateSpec => RetryIsServed
  <1>1. RateInv /\ [RateNext]_rateVars => [RefusedInTime]_rateVars
    BY RateStep
  <1> QED  BY <1>1, RateAlways, PTL DEF RateSpec, RetryIsServed

\* MostOf is at least the limit of every request with the key.
LEMMA MostIsMost ==
    ASSUME NEW k \in RateKeys
    PROVE  /\ MostOf(k) \in Nat
           /\ \A p \in Paths, class \in Classes :
                 /\ p.segment = k[2]
                 /\ IF k[1] \in Users THEN class # "anonymous" ELSE class = "anonymous"
                 => Limit(p, class) <= MostOf(k)
  <1> DEFINE C == IF k[1] \in Users THEN Classes \ {"anonymous"} ELSE {"anonymous"}
             P == {q \in Paths : q.segment = k[2]}
             L == {Limit(q, c) : q \in P, c \in C}
             Top == {n \in L : \A m \in L : m <= n}
  <1>1. MostOf(k) = CHOOSE n \in L : \A m \in L : m <= n  BY DEF MostOf
  <1>2. C \subseteq Classes /\ C # {} /\ P # {} /\ P \subseteq Paths
    <2>1. \E q \in Paths : q.segment = k[2]  BY DEF RateKeys, Segments
    <2> QED  BY <2>1 DEF Classes
  <1>3. \A p \in Paths, class \in Classes :
           /\ p.segment = k[2]
           /\ IF k[1] \in Users THEN class # "anonymous" ELSE class = "anonymous"
           => p \in P /\ class \in C
    OBVIOUS
  <1> HIDE DEF C, P
  <1>5. \A p \in P, c \in C : Limit(p, c) \in L  OBVIOUS
  <1>4. L # {} /\ \A l \in L : l \in 1 .. 1000
    <2>1. ASSUME NEW l \in L PROVE l \in 1 .. 1000
      <3>1. PICK p \in P, c \in C : l = Limit(p, c)  OBVIOUS
      <3> QED  BY <1>2, <3>1, SomeLimit
    <2>2. PICK p \in P, c \in C : TRUE  BY <1>2
    <2>3. Limit(p, c) \in L  BY <1>5
    <2> QED  BY <2>1, <2>3
  <1> HIDE DEF L
  <1>6. \E n \in L : \A m \in L : m <= n
    <2>1. PICK N \in Nat : N = 1000  OBVIOUS
    <2>2. PICK R : R = 0 .. N  OBVIOUS
    <2>3. PICK l \in L : TRUE  BY <1>4
    <2>4. L \in SUBSET R  BY <1>4, <2>1, <2>2
    <2> QED  BY <2>2, <2>3, <2>4, Largest
  <1>7. MostOf(k) \in L /\ \A m \in L : m <= MostOf(k)  BY <1>1, <1>6
  <1>8. MostOf(k) \in Nat  BY <1>4, <1>7
  <1> QED  BY <1>3, <1>5, <1>7, <1>8

\* The length of a window in ticks; the times from a on, and those from a to before b.
Span          == Window * Second
Since(a)      == {t \in 0..MaxTime : a <= t}
Between(a, b) == {t \in 0..MaxTime : a <= t /\ t < b}

\* The requests of a row of served at some times.
Total(f, T) == SumFunctionOnSet(f, T)

\* What has been let through in a window from start that counts count, of limit m, and in a
\* window's time before it.
Bounded(f, start, count, m) ==
    /\ \A t \in 0..MaxTime : start + Span <= t => f[t] = 0
    /\ Total(f, Since(start)) <= count /\ count <= m
    /\ Total(f, Between(start - Span, start)) <= m

\* Nothing yet at n or later, and no more than a limit in a window's time before.
Quiet(f, n, m) ==
    /\ \A t \in 0..MaxTime : n <= t => f[t] = 0
    /\ Total(f, Since(n - Span)) <= m

\* A window counts what was let through in it, and the one before it had its limit too; without a
\* window, little was let through lately.
KeyFits(f, w, n, m) ==
    /\ \A t \in 0..MaxTime : n < t => f[t] = 0
    /\ IF w = NoWindow THEN Quiet(f, n, m) ELSE Bounded(f, w.start, w.count, m)
    /\ \A from \in 0..MaxTime : Total(f, WindowOf(from)) <= 2 * m

LimitsInv == \A k \in RateKeys : KeyFits(served[k], windows[k], now, MostOf(k))

\* Sets of times are finite, and more times have more requests.
LEMMA Times ==
    ASSUME NEW f, \A t \in 0..MaxTime : f[t] \in Nat
    PROVE  /\ MaxTime \in Nat /\ Span \in Nat \ {0} /\ IsFiniteSet(0..MaxTime)
           /\ \A T \in SUBSET (0..MaxTime) : Total(f, T) \in Nat /\ IsFiniteSet(T)
           /\ \A T \in SUBSET (0..MaxTime) : \A U \in SUBSET T : Total(f, U) <= Total(f, T)
           /\ \A T \in SUBSET (0..MaxTime) : (\A t \in T : f[t] = 0) => Total(f, T) = 0
           /\ \A T, U \in SUBSET (0..MaxTime) : \A C \in SUBSET (T \cup U) : Total(f, C) <= Total(f, T) + Total(f, U)
  <1>1. MaxTime \in Nat /\ Window \in Nat \ {0} /\ Second \in Nat \ {0}
    BY RateLimiterAssumption DEF RateLimiterAssumption
  <1>2. Span \in Nat \ {0}  BY <1>1 DEF Span
  <1>3. IsFiniteSet(0..MaxTime)  BY <1>1, FS_Interval
  <1>4. PICK All : All = 0..MaxTime  OBVIOUS
  <1>5. IsFiniteSet(All) /\ \A t \in All : f[t] \in Nat  BY <1>3, <1>4
  <1>6. \A T \in SUBSET All : Total(f, T) \in Nat /\ IsFiniteSet(T)
    BY <1>5, SumSubset, FS_Subset DEF Total
  <1>7. ASSUME NEW T \in SUBSET All, NEW U \in SUBSET T PROVE Total(f, U) <= Total(f, T)
    <2>1. IsFiniteSet(T) /\ \A t \in T : f[t] \in Nat  BY <1>5, <1>6
    <2> QED  BY <2>1, SumSubset DEF Total
  <1>8. ASSUME NEW T \in SUBSET All, \A t \in T : f[t] = 0 PROVE Total(f, T) = 0
    BY <1>6, <1>8, SumZero DEF Total
  <1>9. ASSUME NEW T \in SUBSET All, NEW U \in SUBSET All, NEW C \in SUBSET (T \cup U)
        PROVE  Total(f, C) <= Total(f, T) + Total(f, U)
    BY <1>5, SumCover DEF Total
  <1> QED  BY <1>1, <1>2, <1>3, <1>4, <1>6, <1>7, <1>8, <1>9

\* A window that is over leaves little behind.
LEMMA WindowEnds ==
    ASSUME NEW f, \A t \in 0..MaxTime : f[t] \in Nat, NEW n \in Nat, NEW m \in Nat,
           NEW start \in Nat, NEW count \in Nat, Bounded(f, start, count, m), start + Span <= n
    PROVE  Quiet(f, n, m)
  <1>1. MaxTime \in Nat /\ Span \in Nat \ {0}  BY Times
  <1>2. \A t \in 0..MaxTime : n <= t => f[t] = 0
    <2>1. \A t \in 0..MaxTime : n <= t => start + Span <= t  BY <1>1
    <2> QED  BY <2>1 DEF Bounded
  <1> DEFINE A == Since(n - Span)
             B == Since(start)
  <1>3. A \in SUBSET B /\ B \in SUBSET (0..MaxTime) /\ A \in SUBSET (0..MaxTime)  BY <1>1 DEF Since
  <1> HIDE DEF A, B
  <1>4. Total(f, A) <= Total(f, B) /\ Total(f, A) \in Nat /\ Total(f, B) \in Nat  BY <1>3, Times
  <1>5. Total(f, B) <= count /\ count <= m  BY DEF Bounded, B
  <1>6. Total(f, A) <= m  BY <1>4, <1>5
  <1> QED  BY <1>2, <1>6 DEF Quiet, A

\* A window can start where it is quiet.
LEMMA WindowStarts ==
    ASSUME NEW f, \A t \in 0..MaxTime : f[t] \in Nat, NEW n \in Nat, NEW m \in Nat, Quiet(f, n, m)
    PROVE  Bounded(f, n, 0, m)
  <1>1. MaxTime \in Nat /\ Span \in Nat \ {0}  BY Times
  <1>2. \A t \in 0..MaxTime : n + Span <= t => f[t] = 0
    <2>1. \A t \in 0..MaxTime : n + Span <= t => n <= t  BY <1>1
    <2> QED  BY <2>1 DEF Quiet
  <1>3. Total(f, Since(n)) = 0
    <2>1. Since(n) \in SUBSET (0..MaxTime) /\ \A t \in Since(n) : f[t] = 0  BY DEF Quiet, Since
    <2> QED  BY <2>1, Times
  <1> DEFINE A == Between(n - Span, n)
             B == Since(n - Span)
  <1>4. A \in SUBSET B /\ B \in SUBSET (0..MaxTime) /\ A \in SUBSET (0..MaxTime)  BY DEF Between, Since
  <1> HIDE DEF A, B
  <1>5. Total(f, A) <= Total(f, B) /\ Total(f, A) \in Nat /\ Total(f, B) \in Nat  BY <1>4, Times
  <1>6. Total(f, B) <= m  BY DEF Quiet, B
  <1>7. Total(f, A) <= m  BY <1>5, <1>6
  <1> QED  BY <1>2, <1>3, <1>7 DEF Bounded, A

\* One request more in a window that has room.
LEMMA OneServed ==
    ASSUME NEW f, \A t \in 0..MaxTime : f[t] \in Nat, NEW n \in 0..MaxTime, NEW m \in Nat,
           NEW s \in 0..MaxTime, NEW c \in Nat, s <= n, n < s + Span, c < m, Bounded(f, s, c, m),
           \A t \in 0..MaxTime : n < t => f[t] = 0,
           \A from \in 0..MaxTime : Total(f, WindowOf(from)) <= 2 * m,
           NEW g, g[n] = f[n] + 1, \A t \in 0..MaxTime : t # n => g[t] = f[t]
    PROVE  /\ Bounded(g, s, c + 1, m)
           /\ \A t \in 0..MaxTime : n < t => g[t] = 0
           /\ \A from \in 0..MaxTime : Total(g, WindowOf(from)) <= 2 * m
  <1>1. MaxTime \in Nat /\ Span \in Nat \ {0} /\ IsFiniteSet(0..MaxTime)  BY Times
  <1>2. \A t \in 0..MaxTime : g[t] \in Nat
    BY <1>1
  <1>3. \A T \in SUBSET (0..MaxTime) :
           (n \in T => Total(g, T) = Total(f, T) + 1) /\ (n \notin T => Total(g, T) = Total(f, T))
    <2>1. PICK All, y : All = 0..MaxTime /\ y = n  OBVIOUS
    <2>2. /\ IsFiniteSet(All) /\ \A t \in All : f[t] \in Nat
          /\ g[y] = f[y] + 1 /\ \A t \in All : t # y => g[t] = f[t]
      BY <1>1, <2>1
    <2>3. \A T \in SUBSET All :
             /\ y \in T => SumFunctionOnSet(g, T) = SumFunctionOnSet(f, T) + 1
             /\ y \notin T => SumFunctionOnSet(g, T) = SumFunctionOnSet(f, T)
      BY <2>2, SumOneUp
    <2> QED  BY <2>1, <2>3 DEF Total
  <1>4. \A t \in 0..MaxTime : n < t => g[t] = 0
    BY <1>1
  <1>5. \A t \in 0..MaxTime : s + Span <= t => g[t] = 0
    <2>1. \A t \in 0..MaxTime : s + Span <= t => n < t  BY <1>1
    <2> QED  BY <1>4, <2>1
  <1> DEFINE A == Since(s)
             B == Between(s - Span, s)
  <1>6. A \in SUBSET (0..MaxTime) /\ B \in SUBSET (0..MaxTime) /\ n \in A /\ n \notin B
    BY <1>1 DEF Since, Between
  <1>7. Total(f, A) <= c /\ Total(f, B) <= m  BY DEF Bounded, A, B
  <1>8. ASSUME NEW from \in 0..MaxTime, n \in WindowOf(from) PROVE WindowOf(from) \in SUBSET (A \cup B)
    <2>1. from <= n /\ n < from + Span  BY <1>8 DEF WindowOf, Span
    <2>2. \A t \in WindowOf(from) : t \in 0..MaxTime /\ from <= t  BY DEF WindowOf
    <2>3. \A t \in 0..MaxTime : from <= t => s - Span <= t  BY <1>1, <2>1
    <2>4. \A t \in WindowOf(from) : t \in Since(s) \/ t \in Between(s - Span, s)
      <3> SUFFICES ASSUME NEW t \in WindowOf(from) PROVE t \in Since(s) \/ t \in Between(s - Span, s)
        OBVIOUS
      <3>1. t \in 0..MaxTime /\ s - Span <= t  BY <2>2, <2>3
      <3>2. CASE s <= t  BY <3>1, <3>2 DEF Since
      <3>3. CASE ~(s <= t)
        <4>1. t < s  BY <1>1, <3>1, <3>3
        <4> QED  BY <3>1, <4>1 DEF Between
      <3> QED  BY <3>2, <3>3
    <2> QED  BY <2>4
  <1> HIDE DEF A, B
  <1>9. Total(f, A) \in Nat /\ Total(f, B) \in Nat  BY <1>6, Times
  <1>10. Total(g, A) = Total(f, A) + 1 /\ Total(g, B) = Total(f, B)  BY <1>3, <1>6, <1>9
  <1>11. Total(g, A) <= c + 1 /\ c + 1 <= m /\ Total(g, B) <= m  BY <1>7, <1>9, <1>10
  <1>12. ASSUME NEW from \in 0..MaxTime PROVE Total(g, WindowOf(from)) <= 2 * m
    <2> DEFINE C == WindowOf(from)
    <2>1. C \in SUBSET (0..MaxTime)  BY DEF WindowOf
    <2>2. Total(f, C) <= 2 * m /\ Total(f, C) \in Nat  BY <2>1, Times
    <2>3. CASE n \notin C
      <3> HIDE DEF C
      <3>1. Total(g, C) = Total(f, C)  BY <1>3, <2>1, <2>2, <2>3
      <3> QED  BY <2>2, <3>1 DEF C
    <2>4. CASE n \in C
      <3>1. C \in SUBSET (A \cup B)  BY <1>8, <2>4
      <3> HIDE DEF C
      <3>2. Total(g, C) <= Total(g, A) + Total(g, B)  BY <1>2, <1>6, <3>1, Times
      <3>3. Total(g, C) \in Nat /\ Total(g, A) \in Nat /\ Total(g, B) \in Nat
        BY <1>2, <1>6, <2>1, Times
      <3>4. Total(g, C) <= 2 * m  BY <1>11, <3>2, <3>3
      <3> QED  BY <3>4 DEF C
    <2> QED  BY <2>3, <2>4
  <1> QED  BY <1>4, <1>5, <1>11, <1>12 DEF Bounded, A, B

\* A row, its window and the clock.
LEMMA RowFacts ==
    ASSUME RateInv, NEW k \in RateKeys
    PROVE  /\ \A t \in 0..MaxTime : served[k][t] \in Nat
           /\ served[k] \in [0..MaxTime -> Nat] /\ now \in 0..MaxTime /\ MaxTime \in Nat
           /\ windows[k] # NoWindow => windows[k].start \in Nat /\ windows[k].start <= now
                                       /\ windows[k].count \in Nat
  <1>1. served[k] \in [0..MaxTime -> Nat]  BY DEF RateInv, RateTypeOK
  <1>2. MaxTime \in Nat  BY RateLimiterAssumption DEF RateLimiterAssumption
  <1> QED  BY <1>1, <1>2 DEF RateInv, RateTypeOK

\* The entry that a request finds is bounded, whether it is there or new.
LEMMA FoundBounded ==
    ASSUME RateInv, NEW k \in RateKeys, NEW m \in Nat, KeyFits(served[k], windows[k], now, m)
    PROVE  Bounded(served[k], Entry(k).start, Entry(k).count, m)
  <1> DEFINE w == windows[k]
             fresh == [count |-> 0, start |-> now]
  <1>1. MaxTime \in Nat /\ Span \in Nat \ {0}  BY RowFacts, Times
  <1>2. CASE w # NoWindow /\ ~(now - w.start >= Span)
    <2>1. Entry(k) = w  BY <1>2 DEF Entry, Span
    <2> QED  BY <1>2, <2>1 DEF KeyFits
  <1>3. CASE w = NoWindow \/ now - w.start >= Span
    <2>1. Entry(k) = fresh /\ fresh.count = 0 /\ fresh.start = now  BY <1>3 DEF Entry, Span
    <2>2. Quiet(served[k], now, m)
      <3>1. CASE w = NoWindow  BY <3>1 DEF KeyFits
      <3>2. CASE w # NoWindow
        <4>1. Bounded(served[k], w.start, w.count, m)  BY <3>2 DEF KeyFits
        <4>2. w.start \in Nat /\ w.count \in Nat /\ w.start + Span <= now
          <5>1. w.start \in Nat /\ w.count \in Nat /\ now \in Nat  BY <3>2, RowFacts
          <5> QED  BY <1>1, <1>3, <3>2, <5>1
        <4> HIDE DEF w
        <4>3. PICK s, c : s = w.start /\ c = w.count  OBVIOUS
        <4>4. s \in Nat /\ c \in Nat /\ s + Span <= now /\ Bounded(served[k], s, c, m)  BY <4>1, <4>2, <4>3
        <4>5. now \in Nat /\ \A t \in 0..MaxTime : served[k][t] \in Nat  BY RowFacts
        <4> QED  BY <4>4, <4>5, WindowEnds
      <3> QED  BY <3>1, <3>2
    <2>3. Bounded(served[k], now, 0, m)
      <3>1. now \in Nat  BY RowFacts
      <3> QED  BY <2>2, <3>1, WindowStarts, RowFacts
    <2> QED  BY <2>1, <2>3
  <1> QED  BY <1>2, <1>3

\* A request is let through.
LEMMA AllowFits ==
    ASSUME RateInv, LimitsInv, NEW k \in RateKeys, Entry(k).count < MostOf(k), Allow(k, Entry(k))
    PROVE  LimitsInv'
  <1> DEFINE e == Entry(k)
             w == [count |-> e.count + 1, start |-> e.start]
             m == MostOf(k)
             f == served[k]
             row == [f EXCEPT ![now] = @ + 1]
  <1>1. /\ windows' = [windows EXCEPT ![k] = w] /\ UNCHANGED now
        /\ served' = [served EXCEPT ![k] = row]
    BY DEF Allow
  <1>2. m \in Nat  BY MostIsMost
  <1>3. KeyFits(f, windows[k], now, m)  BY DEF LimitsInv
  <1>4. Bounded(f, e.start, e.count, m)  BY <1>2, <1>3, FoundBounded
  <1>5. Span \in Nat \ {0} /\ now \in 0..MaxTime /\ MaxTime \in Nat  BY RowFacts, Times
  <1>6. e.count \in Nat /\ e.start \in 0..MaxTime /\ e.start <= now /\ now < e.start + Span
    <2>1. /\ e \in [count : Nat, start : 0..MaxTime] /\ e.start <= now
          /\ e.start = now \/ now < e.start + Span
      BY EntryFound DEF Span
    <2> HIDE DEF e
    <2>2. e.count \in Nat /\ e.start \in 0..MaxTime  BY <2>1
    <2> QED  BY <1>5, <2>1, <2>2
  <1>7. f \in [0..MaxTime -> Nat] /\ \A t \in 0..MaxTime : f[t] \in Nat  BY RowFacts
  <1> HIDE DEF f
  <1>8. row[now] = f[now] + 1 /\ \A t \in 0..MaxTime : t # now => row[t] = f[t]  BY <1>5, <1>7
  <1> HIDE DEF row
  <1>9. /\ Bounded(row, e.start, e.count + 1, m)
        /\ \A t \in 0..MaxTime : now < t => row[t] = 0
        /\ \A from \in 0..MaxTime : Total(row, WindowOf(from)) <= 2 * m
    <2>1. /\ \A t \in 0..MaxTime : now < t => f[t] = 0
          /\ \A from \in 0..MaxTime : Total(f, WindowOf(from)) <= 2 * m
      BY <1>3 DEF KeyFits
    <2>2. PICK s, c : s = e.start /\ c = e.count  OBVIOUS
    <2>3. s \in 0..MaxTime /\ c \in Nat /\ s <= now /\ now < s + Span /\ c < m /\ Bounded(f, s, c, m)
      BY <1>4, <1>6, <2>2
    <2> HIDE DEF m, e
    <2>4. PICK n : n = now  OBVIOUS
    <2>5. /\ Bounded(row, s, c + 1, m)
          /\ \A t \in 0..MaxTime : n < t => row[t] = 0
          /\ \A from \in 0..MaxTime : Total(row, WindowOf(from)) <= 2 * m
      <3>1. /\ \A t \in 0..MaxTime : f[t] \in Nat
            /\ n \in 0..MaxTime /\ m \in Nat /\ s \in 0..MaxTime /\ c \in Nat /\ s <= n /\ n < s + Span
            /\ c < m /\ Bounded(f, s, c, m)
            /\ \A t \in 0..MaxTime : n < t => f[t] = 0
            /\ \A from \in 0..MaxTime : Total(f, WindowOf(from)) <= 2 * m
            /\ row[n] = f[n] + 1 /\ \A t \in 0..MaxTime : t # n => row[t] = f[t]
        BY <1>2, <1>5, <1>7, <1>8, <2>1, <2>3, <2>4
      <3> QED  BY <3>1, OneServed
    <2> QED  BY <2>2, <2>4, <2>5
  <1>10. w # NoWindow /\ w.start = e.start /\ w.count = e.count + 1
    <2>1. w.start = e.start /\ w.count = e.count + 1 /\ w.count # 0
      <3> HIDE DEF e
      <3> QED  BY <1>6
    <2> HIDE DEF w
    <2> QED  BY <2>1, Counted
  <1> HIDE DEF w
  <1>11. KeyFits(row, w, now, m)
    BY <1>9, <1>10 DEF KeyFits
  <1>12. ASSUME NEW x \in RateKeys PROVE KeyFits(served'[x], windows'[x], now', MostOf(x))
    <2>1. windows'[x] = IF x = k THEN w ELSE windows[x]  BY <1>1 DEF RateInv, RateTypeOK
    <2>2. served'[x] = IF x = k THEN row ELSE served[x]  BY <1>1 DEF RateInv, RateTypeOK
    <2>3. KeyFits(served[x], windows[x], now, MostOf(x))  BY DEF LimitsInv
    <2> QED  BY <1>1, <1>11, <2>1, <2>2, <2>3
  <1> QED  BY <1>12 DEF LimitsInv

\* A request is refused: it found the window that there was.
LEMMA RefuseFits ==
    ASSUME RateInv, LimitsInv, NEW k \in RateKeys, Entry(k).count >= 1, Refuse(k, Entry(k))
    PROVE  LimitsInv'
  <1>1. windows' = [windows EXCEPT ![k] = Entry(k)] /\ now' = now /\ served' = served
    BY DEF Refuse
  <1>2. Entry(k) = windows[k]
    <2>1. \/ Entry(k).count = 0 /\ Entry(k).start = now
          \/ windows[k] # NoWindow /\ Entry(k) = windows[k]
      BY EntryFound
    <2> QED  BY <2>1
  <1>3. \A x \in RateKeys : windows'[x] = windows[x]
    BY <1>1, <1>2 DEF RateInv, RateTypeOK
  <1> QED  BY <1>1, <1>3 DEF LimitsInv

\* The clock leaves what was served lately further behind.
LEMMA ClockFits ==
    ASSUME RateInv, LimitsInv, Clock
    PROVE  LimitsInv'
  <1>1. windows' = windows /\ served' = served /\ now' = now + 1
    BY DEF Clock
  <1> SUFFICES ASSUME NEW k \in RateKeys PROVE KeyFits(served[k], windows[k], now + 1, MostOf(k))
    BY <1>1 DEF LimitsInv
  <1> DEFINE f == served[k]
             m == MostOf(k)
             A == Since((now + 1) - Span)
             B == Since(now - Span)
  <1>2. KeyFits(f, windows[k], now, m)  BY DEF LimitsInv
  <1>3. m \in Nat /\ now \in Nat /\ MaxTime \in Nat /\ Span \in Nat /\ \A t \in 0..MaxTime : f[t] \in Nat
    BY MostIsMost, RowFacts, Times
  <1>4. \A t \in 0..MaxTime : now + 1 <= t => now < t  BY <1>3
  <1>5. \A t \in 0..MaxTime : now + 1 < t => now < t  BY <1>3
  <1>6. CASE windows[k] # NoWindow
    BY <1>2, <1>5, <1>6 DEF KeyFits
  <1>7. CASE windows[k] = NoWindow
    <2>1. A \in SUBSET B /\ B \in SUBSET (0..MaxTime) /\ A \in SUBSET (0..MaxTime)  BY <1>3 DEF Since
    <2>2. Quiet(f, now, m)  BY <1>2, <1>7 DEF KeyFits
    <2>3. Total(f, B) <= m  BY <2>2 DEF Quiet
    <2>4. Total(f, A) <= m
      <3> HIDE DEF A, B, f, m
      <3>1. Total(f, A) <= Total(f, B) /\ Total(f, A) \in Nat /\ Total(f, B) \in Nat  BY <1>3, <2>1, Times
      <3> QED  BY <1>3, <2>3, <3>1
    <2>5. Quiet(f, now + 1, m)
      <3>1. \A t \in 0..MaxTime : now < t => f[t] = 0  BY <1>2 DEF KeyFits
      <3>2. \A t \in 0..MaxTime : now + 1 <= t => f[t] = 0  BY <1>4, <3>1
      <3> HIDE DEF f, m
      <3> QED  BY <2>4, <3>2 DEF Quiet
    <2> QED  BY <1>2, <1>5, <1>7, <2>5 DEF KeyFits
  <1> QED  BY <1>6, <1>7

\* The windows that are cleaned up are over.
LEMMA CleanupFits ==
    ASSUME RateInv, LimitsInv, Cleanup
    PROVE  LimitsInv'
  <1>1. /\ windows' = [k \in RateKeys |-> IF windows[k] # NoWindow /\ now - windows[k].start > Interval * Second
                                          THEN NoWindow ELSE windows[k]]
        /\ now' = now /\ served' = served
    BY DEF Cleanup
  <1> SUFFICES ASSUME NEW k \in RateKeys PROVE KeyFits(served[k], windows'[k], now, MostOf(k))
    BY <1>1 DEF LimitsInv
  <1> DEFINE f == served[k]
             m == MostOf(k)
             w == windows[k]
  <1>2. KeyFits(f, w, now, m)  BY DEF LimitsInv
  <1>3. m \in Nat /\ now \in Nat /\ MaxTime \in Nat /\ Span \in Nat /\ \A t \in 0..MaxTime : f[t] \in Nat
    BY MostIsMost, RowFacts, Times
  <1>4. CASE ~(w # NoWindow /\ now - w.start > Interval * Second)
    <2>1. windows'[k] = w  BY <1>1, <1>4
    <2> QED  BY <1>2, <2>1
  <1>5. CASE w # NoWindow /\ now - w.start > Interval * Second
    <2>1. windows'[k] = NoWindow  BY <1>1, <1>5
    <2>2. Span <= Interval * Second
      <3>1. Interval \in Nat /\ Window \in Nat /\ Second \in Nat /\ Interval - Window \in Nat
        BY RateLimiterAssumption DEF RateLimiterAssumption
      <3>2. (Interval - Window) * Second \in Nat /\ Interval * Second = (Interval - Window) * Second + Window * Second
        BY <3>1
      <3>3. Window * Second \in Nat /\ Interval * Second \in Nat  BY <3>1
      <3> QED  BY <3>2, <3>3 DEF Span
    <2>3. Bounded(f, w.start, w.count, m)  BY <1>2, <1>5 DEF KeyFits
    <2>4. w.start \in Nat /\ w.count \in Nat  BY <1>5, RowFacts
    <2>5. Interval * Second \in Nat  BY RateLimiterAssumption DEF RateLimiterAssumption
    <2>6. PICK s, c : s = w.start /\ c = w.count  OBVIOUS
    <2>7. now - s > Interval * Second  BY <1>5, <2>6
    <2>8. s \in Nat /\ c \in Nat /\ Bounded(f, s, c, m)  BY <2>3, <2>4, <2>6
    <2> HIDE DEF f, m, w
    <2>9. s + Span <= now
      <3>1. PICK i \in Nat : i = Interval * Second  BY <2>5
      <3> QED  BY <1>3, <2>2, <2>7, <2>8, <3>1
    <2>10. Quiet(f, now, m)  BY <1>3, <2>8, <2>9, WindowEnds
    <2> QED  BY <1>2, <2>1, <2>10 DEF KeyFits, f, m
  <1> QED  BY <1>4, <1>5

\* Every step keeps the bounds.
LEMMA LimitsStep ==
    ASSUME RateInv, LimitsInv, RateNext
    PROVE  LimitsInv'
  <1>1. ASSUME NEW x \in Users \cup (Addresses \ Whitelist), NEW p \in Paths, NEW class \in Classes, Request(x, p, class)
        PROVE  LimitsInv'
    <2> DEFINE k == <<x, p.segment>>
    <2>1. k \in RateKeys /\ k[1] = x /\ k[2] = p.segment  BY DEF RateKeys, Segments
    <2>2. \/ Entry(k).count < Limit(p, class) /\ Allow(k, Entry(k))
          \/ ~(Entry(k).count < Limit(p, class)) /\ Refuse(k, Entry(k))
      BY <1>1 DEF Request
    <2>3. IF k[1] \in Users THEN class # "anonymous" ELSE class = "anonymous"
      BY <1>1, <2>1 DEF Request
    <2> HIDE DEF k
    <2>4. Limit(p, class) <= MostOf(k) /\ MostOf(k) \in Nat
      BY <2>1, <2>3, MostIsMost
    <2>5. Entry(k).count \in Nat /\ Limit(p, class) \in 1 .. 1000
      BY <2>1, EntryFound, SomeLimit
    <2>6. Entry(k).count < Limit(p, class) => Entry(k).count < MostOf(k)
      BY <2>4, <2>5
    <2>7. ~(Entry(k).count < Limit(p, class)) => Entry(k).count >= 1
      BY <2>5
    <2> QED  BY <2>1, <2>2, <2>6, <2>7, AllowFits, RefuseFits
  <1> QED  BY <1>1, CleanupFits, ClockFits DEF RateNext

\* Nothing has been served at the start.
LEMMA LimitsStart ==
    ASSUME RateInit
    PROVE  LimitsInv
  <1> SUFFICES ASSUME NEW k \in RateKeys PROVE KeyFits(served[k], windows[k], now, MostOf(k))
    BY DEF LimitsInv
  <1> DEFINE f == served[k]
             m == MostOf(k)
  <1>1. windows[k] = NoWindow /\ \A t \in 0..MaxTime : f[t] = 0  BY DEF RateInit
  <1>2. m \in Nat  BY MostIsMost
  <1>3. \A t \in 0..MaxTime : f[t] \in Nat  BY <1>1
  <1> HIDE DEF f, m
  <1>4. \A T \in SUBSET (0..MaxTime) : Total(f, T) = 0
    <2>1. \A T \in SUBSET (0..MaxTime) : \A t \in T : f[t] = 0  BY <1>1
    <2> QED  BY <1>3, <2>1, Times
  <1>5. Total(f, Since(now - Span)) = 0
    <2>1. Since(now - Span) \in SUBSET (0..MaxTime)  BY DEF Since
    <2> QED  BY <1>4, <2>1
  <1>6. \A from \in 0..MaxTime : Total(f, WindowOf(from)) = 0
    <2>1. \A from \in 0..MaxTime : WindowOf(from) \in SUBSET (0..MaxTime)  BY DEF WindowOf
    <2> QED  BY <1>4, <2>1
  <1>7. Quiet(f, now, m)  BY <1>1, <1>2, <1>5 DEF Quiet
  <1>8. \A from \in 0..MaxTime : Total(f, WindowOf(from)) <= 2 * m  BY <1>2, <1>6
  <1>9. KeyFits(f, windows[k], now, m)  BY <1>1, <1>7, <1>8 DEF KeyFits
  <1> QED  BY <1>9 DEF f, m

\* In a window that starts at any time at most twice the limit is served; and nobody is sent
\* away longer than the refusal said.
THEOREM LimitsAreKept == RateSpec => LimitsKept
  <1>1. RateInit => LimitsInv  BY LimitsStart
  <1>2. RateInv /\ LimitsInv /\ [RateNext]_rateVars => LimitsInv'
    <2>1. LimitsInv /\ UNCHANGED rateVars => LimitsInv'  BY DEF rateVars, LimitsInv
    <2> QED  BY <2>1, LimitsStep
  <1>3. LimitsInv => AtMostTwoWindows
    <2> SUFFICES ASSUME LimitsInv, NEW k \in RateKeys, NEW from \in Busy(k)
                 PROVE  ServedIn(k, from) <= 2 * MostOf(k)
      BY DEF AtMostTwoWindows
    <2>1. KeyFits(served[k], windows[k], now, MostOf(k)) /\ from \in 0..MaxTime  BY DEF LimitsInv, Busy
    <2> QED  BY <2>1 DEF KeyFits, ServedIn, Total
  <1> QED  BY <1>1, <1>2, <1>3, RateAlways, RetriesAreServed, PTL DEF RateSpec, LimitsKept

-----------------------------------------------------------------------------
(* Advisory. *)

\* What a row says, and its state.
Kinds    == Advice \cup {"sales", "coverage", "burn", "yield"}
Subjects == Products \cup Materials
RowKey   == [kind : Kinds, of : Subjects, days : Nat, sells : BOOLEAN, from : Nat, run : Nat,
             mode : {"auto", "on_demand", "recommendation"}]
RowState == [status : Statuses, born : Nat, fed : Nat, left : Nat, dismissed : BOOLEAN,
             late : BOOLEAN, reopened : BOOLEAN]

\* A row is of a run that there was, and was created at a time that there was.
RowOK(s, c) ==
    /\ s \in RowState /\ s.born \in 1..c
    /\ s.status \in {"acknowledged", "approved", "rejected"} => s.fed # Never
    /\ s.dismissed <=> s.left # Never

RowTypes ==
    /\ rows = [k \in DOMAIN rows |-> rows[k]]
    /\ \A k \in DOMAIN rows : k \in RowKey /\ k.run \in 1..runs /\ RowOK(rows[k], clock)

\* A job that has recommendations in hand, and one that has none.
Made    == [kind : Advice, of : Subjects, from : Nat]
Parts   == {"demand", "waste", "load", "dedupe", "save", "expiry"}
Modes   == {"auto", "on_demand", "recommendation"}
Plain   == [pc : Parts, nightly : BOOLEAN, run : Nat, mode : Modes]
Holding == [pc : Parts, nightly : BOOLEAN, run : Nat, mode : Modes, made : SUBSET Made,
            seen : SUBSET RowKey]

JobOK(q, n) ==
    \/ q = NoJob
    \/ /\ q \in Plain \cup Holding /\ q.run \in 1..n
       /\ q.pc \in {"dedupe", "save"} => q \in Holding
       /\ q.pc = "save" => \A r \in q.made, k \in q.seen : ~Like(k, r)

\* The jobs under way have runs of their own.
JobTypes ==
    /\ job = [j \in Jobs |-> job[j]]
    /\ \A j \in Jobs : JobOK(job[j], runs)
    /\ \A i, j \in Jobs : i # j /\ job[i] # NoJob /\ job[j] # NoJob => job[i].run # job[j].run

\* A run has written nothing before its first analysis, and no yield before its second.
NothingYet ==
    \A j \in Jobs : \A k \in DOMAIN rows :
        /\ job[j].pc = "demand" => k.run # job[j].run
        /\ job[j].pc = "waste" /\ k.run = job[j].run => k.kind # "yield"

\* A review has fetched a row that was open.
ReviewOK(q) ==
    \/ q = NoJob
    \/ q.pc = "fetched" /\ q.was \in Open /\ q.to \in {"acknowledged", "approved", "rejected"}

\* A run says a thing once in a mode.
OncePerRun ==
    \A k, l \in DOMAIN rows :
        /\ k.kind \notin Advice /\ Like(k, l) /\ k.mode = l.mode /\ k.run = l.run
        => k = l

\* The inductive invariant.
RowsFit == OncePerRun /\ SecondAdviceExplained /\ SecondInsightOverlaps
AdviceInv ==
    /\ RowTypes /\ JobTypes /\ NothingYet /\ RowsFit
    /\ review = [a \in Reviewers |-> review[a]] /\ \A a \in Reviewers : ReviewOK(review[a])
    /\ clock \in 1..MaxClock /\ runs \in 0..MaxRuns /\ reviews \in 0..MaxReviews

\* Rows that go or change keep their creation and their histories; one that comes into force
\* again has been reopened.
LEMMA RowsFade ==
    ASSUME RowTypes, RowsFit, clock \in Nat, clock' \in Nat, clock <= clock',
           DOMAIN rows' \subseteq DOMAIN rows,
           \A k \in DOMAIN rows' :
              /\ rows'[k].late = rows[k].late /\ rows'[k].born = rows[k].born
              /\ rows[k].dismissed => rows'[k].dismissed
              /\ rows[k].reopened => rows'[k].reopened
              /\ rows[k].status \in {"rejected", "expired"} =>
                    rows'[k].status \in {"rejected", "expired"} \/ rows'[k].reopened
    PROVE  RowsFit'
  <1>1. \A k \in DOMAIN rows : k.kind \in Kinds /\ rows[k].born \in Nat
    BY DEF RowTypes, RowOK, RowKey, RowState
  <1>2. OncePerRun'  BY DEF RowsFit, OncePerRun, Like
  <1>3. SecondInsightOverlaps'  BY DEF RowsFit, SecondInsightOverlaps, Like
  <1>4. SecondAdviceExplained'
    <2> SUFFICES ASSUME NEW k \in DOMAIN rows', NEW l \in DOMAIN rows', k.kind \in Advice, l.kind \in Advice,
                        InForce(k)', InForce(l)', k # l, Like(k, l)
                 PROVE  \/ k.run = l.run
                        \/ rows'[k].late \/ rows'[l].late
                        \/ rows'[k].reopened \/ rows'[l].reopened
      BY DEF SecondAdviceExplained, Like
    <2>1. ASSUME NEW m \in DOMAIN rows', InForce(m)'
          PROVE  InForce(m) \/ rows'[m].reopened
      <3>1. ~rows'[m].dismissed /\ rows'[m].status \notin {"rejected", "expired"} /\ clock' <= rows'[m].born + Week
        BY <2>1 DEF InForce
      <3>2. clock <= rows[m].born + Week  BY <1>1, <3>1, AdvisoryAssumption DEF AdvisoryAssumption
      <3> QED  BY <3>1, <3>2 DEF InForce
    <2>2. CASE InForce(k) /\ InForce(l)
      <3>1. \/ k.run = l.run \/ rows[k].late \/ rows[l].late \/ rows[k].reopened \/ rows[l].reopened
        BY <2>2 DEF RowsFit, SecondAdviceExplained
      <3> QED  BY <3>1
    <2> QED  BY <2>1, <2>2
  <1> QED  BY <1>2, <1>3, <1>4 DEF RowsFit

\* Rows that are inserted: those that there are stay as they are.
LEMMA InsertedRows ==
    ASSUME NEW keys, NEW late, rows' = Insert(keys, late)
    PROVE  /\ DOMAIN rows' = DOMAIN rows \cup keys /\ rows' = [k \in DOMAIN rows' |-> rows'[k]]
           /\ \A k \in DOMAIN rows : rows'[k] = rows[k]
           /\ \A k \in keys \ DOMAIN rows : rows'[k] = NewRow(k \in late)
  BY DEF Insert

\* A new row.
LEMMA NewRows ==
    ASSUME NEW l \in BOOLEAN, clock \in 1..MaxClock, MaxClock \in Nat
    PROVE  /\ RowOK(NewRow(l), clock)
           /\ NewRow(l).late = l /\ ~NewRow(l).dismissed /\ ~NewRow(l).reopened /\ NewRow(l).born = clock
  BY DEF NewRow, RowOK, RowState, Statuses, Open, Never

\* The types of the rows after keys of a run have been inserted.
LEMMA InsertTypes ==
    ASSUME AdvisoryAssumption, AdviceInv, NEW keys \in SUBSET RowKey, NEW late, rows' = Insert(keys, late),
           \A k \in keys : k.run \in 1..runs, UNCHANGED <<clock, runs>>
    PROVE  RowTypes'
  <1>1. /\ DOMAIN rows' = DOMAIN rows \cup keys /\ rows' = [k \in DOMAIN rows' |-> rows'[k]]
        /\ \A k \in DOMAIN rows : rows'[k] = rows[k]
        /\ \A k \in keys \ DOMAIN rows : rows'[k] = NewRow(k \in late)
    BY InsertedRows
  <1>2. \A k \in keys \ DOMAIN rows : RowOK(rows'[k], clock)
    <2> SUFFICES ASSUME NEW k \in keys \ DOMAIN rows PROVE RowOK(rows'[k], clock)
      OBVIOUS
    <2> DEFINE b == k \in late
    <2>1. b \in BOOLEAN /\ rows'[k] = NewRow(b)  BY <1>1
    <2> HIDE DEF b
    <2> QED  BY <2>1, NewRows DEF AdviceInv, AdvisoryAssumption
  <1> QED  BY <1>1, <1>2 DEF AdviceInv, RowTypes

\* A run saves what it has found: it says a thing once, and marks it if another run of its
\* mode has saved or is saving.
LEMMA InsightsFit ==
    ASSUME AdvisoryAssumption, AdviceInv, NEW j \in Jobs, NEW keys \in SUBSET RowKey,
           rows' = Insert(keys, IF Crosses(j) THEN keys ELSE {}), UNCHANGED clock,
           \A k \in keys : k.kind \notin Advice /\ k.run = job[j].run /\ k.mode = job[j].mode,
           \A k, l \in keys : Like(k, l) => k = l,
           \A k \in keys, l \in DOMAIN rows : Like(k, l) => l.run # job[j].run
    PROVE  RowsFit'
  <1> DEFINE late == IF Crosses(j) THEN keys ELSE {}
  <1>1. /\ DOMAIN rows' = DOMAIN rows \cup keys
        /\ \A k \in DOMAIN rows : rows'[k] = rows[k]
        /\ \A k \in keys \ DOMAIN rows : rows'[k] = NewRow(k \in late)
    <2>1. rows' = Insert(keys, late)  OBVIOUS
    <2> HIDE DEF late
    <2> QED  BY <2>1, InsertedRows
  <1>2. \A k \in keys : k \notin DOMAIN rows
    BY DEF Like
  <1>3. \A k \in keys : (Crosses(j) => rows'[k].late)
    <2> SUFFICES ASSUME NEW k \in keys, Crosses(j) PROVE rows'[k].late
      OBVIOUS
    <2> DEFINE b == k \in late
    <2>1. rows'[k] = NewRow(b) /\ b = TRUE  BY <1>1, <1>2
    <2> HIDE DEF b
    <2> QED  BY <2>1 DEF NewRow
  <1>4. OncePerRun'
    BY <1>1 DEF AdviceInv, RowsFit, OncePerRun, Like
  <1>5. SecondInsightOverlaps'
    <2> SUFFICES ASSUME NEW k \in DOMAIN rows', NEW l \in DOMAIN rows',
                        k.kind \notin Advice, ~rows'[k].dismissed, l.kind \notin Advice, ~rows'[l].dismissed,
                        k # l, Like(k, l), k.mode = l.mode
                 PROVE  rows'[k].late \/ rows'[l].late
      BY DEF SecondInsightOverlaps, Like
    <2>1. CASE k \in DOMAIN rows /\ l \in DOMAIN rows
      BY <1>1, <2>1 DEF AdviceInv, RowsFit, SecondInsightOverlaps
    <2>2. ASSUME NEW x \in keys, NEW y \in DOMAIN rows, Like(x, y), ~rows[y].dismissed, x.mode = y.mode
          PROVE  rows'[x].late
      <3>1. y.run # job[j].run /\ y.mode = job[j].mode  BY <2>2
      <3>2. Crosses(j)  BY <2>2, <3>1 DEF Crosses
      <3> QED  BY <1>3, <3>2
    <2>3. Like(l, k)  BY DEF Like
    <2> QED  BY <1>1, <2>1, <2>2, <2>3
  <1>6. SecondAdviceExplained'
    <2>1. \A k \in DOMAIN rows' : k.kind \in Advice => k \in DOMAIN rows
      BY <1>1
    <2> QED  BY <1>1, <2>1 DEF AdviceInv, RowsFit, SecondAdviceExplained, InForce, Like
  <1> QED  BY <1>4, <1>5, <1>6 DEF RowsFit

\* A run saves its advice, and what has a duplicate by then is marked.
LEMMA AdviceFits ==
    ASSUME AdvisoryAssumption, AdviceInv, NEW n, NEW keys \in SUBSET RowKey, NEW seen,
           rows' = Insert(keys, {k \in keys : DuplicatesOf(k) \ seen # {}}), UNCHANGED clock,
           \A k \in keys : k.kind \in Advice /\ k.run = n,
           \A k \in keys, l \in seen : ~Like(l, k)
    PROVE  RowsFit'
  <1> DEFINE late == {k \in keys : DuplicatesOf(k) \ seen # {}}
  <1>1. /\ DOMAIN rows' = DOMAIN rows \cup keys
        /\ \A k \in DOMAIN rows : rows'[k] = rows[k]
        /\ \A k \in keys \ DOMAIN rows : rows'[k] = NewRow(k \in late)
    BY InsertedRows
  <1>2. ASSUME NEW k \in keys, k \notin DOMAIN rows, NEW l \in DOMAIN rows, Like(k, l), InForce(l)
        PROVE  rows'[k].late
    <2>1. DuplicatesOf(k) \ seen # {}
      <3>1. Like(l, k)  BY <1>2 DEF Like
      <3>2. l \in DuplicatesOf(k) /\ l \notin seen  BY <1>2, <3>1 DEF DuplicatesOf, CandidatesFor, InForce, Like
      <3> QED  BY <3>2
    <2> DEFINE b == k \in late
    <2>2. rows'[k] = NewRow(b) /\ b = TRUE  BY <1>1, <1>2, <2>1
    <2> HIDE DEF b
    <2> QED  BY <2>2 DEF NewRow
  <1>3. OncePerRun'
    BY <1>1 DEF AdviceInv, RowsFit, OncePerRun, Like
  <1>4. SecondInsightOverlaps'
    <2>1. \A k \in DOMAIN rows' : k.kind \notin Advice => k \in DOMAIN rows  BY <1>1
    <2> QED  BY <1>1, <2>1 DEF AdviceInv, RowsFit, SecondInsightOverlaps
  <1>5. SecondAdviceExplained'
    <2> SUFFICES ASSUME NEW k \in DOMAIN rows', NEW l \in DOMAIN rows', k.kind \in Advice, l.kind \in Advice,
                        InForce(k)', InForce(l)', k # l, Like(k, l)
                 PROVE  \/ k.run = l.run
                        \/ rows'[k].late \/ rows'[l].late
                        \/ rows'[k].reopened \/ rows'[l].reopened
      BY DEF SecondAdviceExplained, Like
    <2>1. \A m \in DOMAIN rows : InForce(m)' => InForce(m)  BY <1>1 DEF InForce
    <2>2. Like(l, k)  BY DEF Like
    <2>3. CASE k \in DOMAIN rows /\ l \in DOMAIN rows
      BY <1>1, <2>1, <2>3 DEF AdviceInv, RowsFit, SecondAdviceExplained
    <2>4. CASE k \notin DOMAIN rows /\ l \in DOMAIN rows
      BY <1>1, <1>2, <2>1, <2>4
    <2>5. CASE k \in DOMAIN rows /\ l \notin DOMAIN rows
      BY <1>1, <1>2, <2>1, <2>2, <2>5
    <2>6. CASE k \notin DOMAIN rows /\ l \notin DOMAIN rows
      BY <1>1, <2>6
    <2> QED  BY <2>3, <2>4, <2>5, <2>6
  <1> QED  BY <1>3, <1>4, <1>5 DEF RowsFit

\* A job moves on: it is over, it keeps its run, or it has a new one.
LEMMA JobMoves ==
    ASSUME AdviceInv, NEW j \in Jobs, NEW q, RunGoes(j, q), JobOK(q, runs'), runs' \in Nat, runs <= runs',
           q = NoJob \/ (job[j] # NoJob /\ q.run = job[j].run) \/ q.run > runs
    PROVE  JobTypes' /\ job'[j] = q /\ \A i \in Jobs \ {j} : job'[i] = job[i]
  <1>1. /\ job' = [i \in Jobs |-> IF i = j THEN q ELSE job[i]]
        /\ \A i \in Jobs : JobOK(job[i], runs) /\ (job[i] # NoJob => job[i].run \in 1..runs)
    BY DEF AdviceInv, JobTypes, RunGoes, JobOK
  <1>2. runs \in Nat  BY AdvisoryAssumption DEF AdviceInv, AdvisoryAssumption
  <1>3. ASSUME NEW i \in Jobs PROVE JobOK(job[i], runs')
    BY <1>1, <1>2 DEF JobOK
  <1>4. \A i \in Jobs : JobOK(job'[i], runs')
    BY <1>1, <1>3
  <1>5. \A i, l \in Jobs : i # l /\ job'[i] # NoJob /\ job'[l] # NoJob => job'[i].run # job'[l].run
    <2> SUFFICES ASSUME NEW i \in Jobs \ {j}, job[i] # NoJob, q # NoJob PROVE job[i].run # q.run
      BY <1>1 DEF AdviceInv, JobTypes
    <2> QED  BY <1>1, <1>2 DEF AdviceInv, JobTypes
  <1> QED  BY <1>1, <1>4, <1>5 DEF JobTypes

\* A job in its next part.
LEMMA Parted ==
    ASSUME NEW u \in Plain \cup Holding, NEW pc \in Parts
    PROVE  /\ [u EXCEPT !.pc = pc] \in Plain \cup Holding
           /\ [u EXCEPT !.pc = pc].pc = pc /\ [u EXCEPT !.pc = pc].run = u.run
  BY DEF Plain, Holding

\* A job that rests keeps its run if it is a nightly one.
LEMMA JobRests ==
    ASSUME AdviceInv, NEW j \in Jobs, job[j] # NoJob, NEW pc \in {"load", "expiry"}, RunRests(j, pc), runs' = runs
    PROVE  JobTypes' /\ job'[j].pc \notin {"demand", "waste"} /\ \A i \in Jobs \ {j} : job'[i] = job[i]
  <1> DEFINE u == job[j]
             q == [u EXCEPT !.pc = pc]
  <1>1. u \in Plain \cup Holding /\ u.run \in 1..runs /\ runs \in Nat
    BY AdvisoryAssumption DEF AdviceInv, JobTypes, JobOK, AdvisoryAssumption
  <1>2. RunGoes(j, q) \/ RunGoes(j, NoJob)
    BY DEF RunRests, Step
  <1> HIDE DEF u
  <1>3. q \in Plain \cup Holding /\ q.pc = pc /\ q.run = u.run
    <2>1. pc \in Parts  BY DEF Parts
    <2> QED  BY <1>1, <2>1, Parted
  <1> HIDE DEF q
  <1>4. JobOK(q, runs') /\ JobOK(NoJob, runs')
    BY <1>1, <1>3 DEF JobOK
  <1>5. runs' \in Nat /\ runs <= runs'  BY <1>1
  <1>6. NoJob.pc = "idle"  BY DEF NoJob
  <1>7. CASE RunGoes(j, q)
    <2>1. JobTypes' /\ job'[j] = q /\ \A i \in Jobs \ {j} : job'[i] = job[i]
      <3>1. job[j] # NoJob /\ q.run = job[j].run  BY <1>3 DEF u
      <3> QED  BY <1>4, <1>5, <1>7, <3>1, JobMoves
    <2> QED  BY <1>3, <2>1
  <1>8. CASE RunGoes(j, NoJob)
    <2>1. JobTypes' /\ job'[j] = NoJob /\ \A i \in Jobs \ {j} : job'[i] = job[i]
      BY <1>4, <1>5, <1>8, JobMoves
    <2> QED  BY <1>6, <2>1
  <1> QED  BY <1>2, <1>7, <1>8

\* What a job writes is of its run; a job that has not got far has still written nothing.
LEMMA NothingStill ==
    ASSUME AdviceInv, NEW j \in Jobs, NEW keys, DOMAIN rows' \subseteq DOMAIN rows \cup keys,
           keys # {} => job[j] # NoJob, \A k \in keys : k.run = job[j].run,
           \A i \in Jobs \ {j} : job'[i] = job[i],
           job'[j].pc \notin {"demand", "waste"}
    PROVE  NothingYet'
  <1> SUFFICES ASSUME NEW i \in Jobs, NEW k \in DOMAIN rows'
               PROVE  /\ job'[i].pc = "demand" => k.run # job'[i].run
                      /\ job'[i].pc = "waste" /\ k.run = job'[i].run => k.kind # "yield"
    BY DEF NothingYet
  <1>1. CASE i = j  BY <1>1
  <1>2. CASE i # j /\ k \in DOMAIN rows  BY <1>2 DEF AdviceInv, NothingYet
  <1>3. CASE i # j /\ k \in keys
    <2>1. NoJob.pc = "idle"  BY DEF NoJob
    <2>2. job'[i] = job[i] /\ k.run = job[j].run /\ job[j] # NoJob  BY <1>3
    <2>3. job[i].pc \in {"demand", "waste"} => job[i].run # job[j].run
      BY <1>3, <2>1, <2>2 DEF AdviceInv, JobTypes
    <2> QED  BY <2>2, <2>3
  <1> QED  BY <1>1, <1>2, <1>3

\* The rows stay, and so does what is said of them, when the clock does.
LEMMA RowsStill ==
    ASSUME AdviceInv, UNCHANGED <<rows, clock>>, runs' \in Nat, runs <= runs'
    PROVE  RowTypes' /\ RowsFit' /\ DecidedStays
  <1>1. RowTypes'
    <2>1. \A k \in DOMAIN rows : k.run \in 1..runs'
      BY AdvisoryAssumption DEF AdviceInv, RowTypes, AdvisoryAssumption
    <2> QED  BY <2>1 DEF AdviceInv, RowTypes
  <1>2. RowsFit'
    BY DEF AdviceInv, RowsFit, OncePerRun, SecondAdviceExplained, SecondInsightOverlaps, InForce, Like
  <1> QED  BY <1>1, <1>2 DEF DecidedStays

\* A run starts: what is not dismissed of its mode goes.
LEMMA AnalyzeStep ==
    ASSUME AdvisoryAssumption, AdviceInv, NEW j \in Jobs, NEW mode \in {"auto", "on_demand"}, Analyze(j, mode)
    PROVE  AdviceInv' /\ DecidedStays
  <1> DEFINE gone == {k \in DOMAIN rows : k.mode = mode /\ ~rows[k].dismissed}
             q == [pc |-> "demand", nightly |-> mode = "auto", run |-> runs + 1, mode |-> mode]
  <1>1. /\ runs < MaxRuns /\ runs' = runs + 1 /\ RunGoes(j, q) /\ UNCHANGED <<review, clock, reviews>>
        /\ rows' = Without(gone)
    BY DEF Analyze
  <1>2. runs \in Nat /\ clock \in Nat /\ runs' \in 0..MaxRuns
    BY <1>1 DEF AdviceInv, AdvisoryAssumption
  <1> HIDE DEF gone
  <1>3. /\ DOMAIN rows' = DOMAIN rows \ gone /\ \A k \in DOMAIN rows' : rows'[k] = rows[k]
        /\ rows' = [k \in DOMAIN rows' |-> rows'[k]]
    BY <1>1 DEF Without
  <1>4. q \in Plain /\ q.run = runs + 1 /\ q.pc = "demand" /\ q # NoJob
    <2>1. q \in Plain /\ q.run = runs + 1 /\ q.pc = "demand"
      BY <1>2 DEF Plain, Parts, Modes
    <2> QED  BY <2>1 DEF NoJob
  <1> HIDE DEF q
  <1>5. JobTypes' /\ job'[j] = q /\ \A i \in Jobs \ {j} : job'[i] = job[i]
    <2>1. JobOK(q, runs') /\ runs' \in Nat /\ runs <= runs' /\ q.run > runs
      BY <1>1, <1>2, <1>4 DEF JobOK
    <2> QED  BY <1>1, <2>1, JobMoves
  <1>6. RowTypes'
    BY <1>1, <1>2, <1>3 DEF AdviceInv, RowTypes
  <1>7. RowsFit'
    <2>1. RowTypes /\ RowsFit  BY DEF AdviceInv
    <2>2. clock' \in Nat /\ clock <= clock'  BY <1>1, <1>2
    <2> QED  BY <1>2, <1>3, <2>1, <2>2, RowsFade
  <1>8. NothingYet'
    <2>1. \A k \in DOMAIN rows' : k.run # runs + 1
      BY <1>2, <1>3 DEF AdviceInv, RowTypes
    <2>2. \A i \in Jobs \ {j}, k \in DOMAIN rows' :
             /\ job'[i].pc = "demand" => k.run # job'[i].run
             /\ job'[i].pc = "waste" /\ k.run = job'[i].run => k.kind # "yield"
      BY <1>3, <1>5 DEF AdviceInv, NothingYet
    <2> QED  BY <1>4, <1>5, <2>1, <2>2 DEF NothingYet
  <1>9. DecidedStays  BY <1>3 DEF DecidedStays
  <1> QED  BY <1>1, <1>2, <1>5, <1>6, <1>7, <1>8, <1>9 DEF AdviceInv

\* What the analyzers find has a kind, a subject and types; of one kind there is one for each subject.
LEMMA FindingsOfDemand ==
    ASSUME AdvisoryAssumption, NEW shop \in Shops
    PROVE  LET found == SalesVelocity(shop) \cup InventoryCoverage(shop) \cup BurnRate(shop)
           IN  /\ \A f \in found : /\ f.kind \in {"sales", "coverage", "burn"} /\ f.of \in Subjects
                                   /\ f.days \in Nat /\ f.sells \in BOOLEAN
               /\ \A f, g \in found : f.kind = g.kind /\ f.of = g.of => f = g
  <1> DEFINE S == SalesVelocity(shop)
             C == InventoryCoverage(shop)
             B == BurnRate(shop)
  <1>1. \A f \in S : f.of \in Products /\ f = Insight("sales", f.of, 0, shop[f.of].sales = "rising")
    BY DEF SalesVelocity, Insight
  <1>2. \A f \in C : f.of \in Products /\ f = Insight("coverage", f.of, shop[f.of].days, shop[f.of].sales # "none")
    BY DEF InventoryCoverage, Insight
  <1>3. \A f \in B : f.of \in Materials /\ f = Insight("burn", f.of, shop[f.of], FALSE)
    BY DEF BurnRate, Insight
  <1>4. /\ \A p \in Products : shop[p].days \in Nat
        /\ \A x \in Materials : shop[x] \in Nat
    BY DEF AdvisoryAssumption
  <1> HIDE DEF S, C, B
  <1>5. \A f \in S : f.kind = "sales" /\ f.of \in Products /\ f.days = 0
                     /\ f.sells = (shop[f.of].sales = "rising")
    BY <1>1 DEF Insight
  <1>6. \A f \in C : f.kind = "coverage" /\ f.of \in Products /\ f.days = shop[f.of].days
                     /\ f.sells = (shop[f.of].sales # "none")
    BY <1>2 DEF Insight
  <1>7. \A f \in B : f.kind = "burn" /\ f.of \in Materials /\ f.days = shop[f.of] /\ f.sells = FALSE
    BY <1>3 DEF Insight
  <1>8. \A f \in S \cup C \cup B : /\ f.kind \in {"sales", "coverage", "burn"} /\ f.of \in Subjects
                                   /\ f.days \in Nat /\ f.sells \in BOOLEAN
    <2>1. \A f \in S : f.kind \in {"sales", "coverage", "burn"} /\ f.of \in Subjects /\ f.days \in Nat /\ f.sells \in BOOLEAN
      <3>1. \A f \in S : f.kind = "sales" /\ f.of \in Subjects /\ f.days \in Nat  BY <1>5 DEF Subjects
      <3>2. \A f \in S : f.sells \in BOOLEAN  BY <1>5
      <3> QED  BY <3>1, <3>2
    <2>2. \A f \in C : f.kind \in {"sales", "coverage", "burn"} /\ f.of \in Subjects /\ f.days \in Nat /\ f.sells \in BOOLEAN
      <3>1. \A f \in C : f.kind = "coverage" /\ f.of \in Subjects /\ f.days \in Nat  BY <1>4, <1>6 DEF Subjects
      <3>2. \A f \in C : f.sells \in BOOLEAN  BY <1>6
      <3> QED  BY <3>1, <3>2
    <2>3. \A f \in B : f.kind \in {"sales", "coverage", "burn"} /\ f.of \in Subjects /\ f.days \in Nat /\ f.sells \in BOOLEAN
      BY <1>4, <1>7 DEF Subjects
    <2> QED  BY <2>1, <2>2, <2>3
  <1>9. ASSUME NEW f \in S \cup C \cup B, NEW g \in S \cup C \cup B, f.kind = g.kind, f.of = g.of
        PROVE  f = g
    <2>1. CASE f \in S
      <3>1. g \in S  BY <1>5, <1>6, <1>7, <1>9, <2>1
      <3> QED  BY <1>1, <1>9, <2>1, <3>1
    <2>2. CASE f \in C
      <3>1. g \in C  BY <1>5, <1>6, <1>7, <1>9, <2>2
      <3> QED  BY <1>2, <1>9, <2>2, <3>1
    <2>3. CASE f \in B
      <3>1. g \in B  BY <1>5, <1>6, <1>7, <1>9, <2>3
      <3> QED  BY <1>3, <1>9, <2>3, <3>1
    <2> QED  BY <2>1, <2>2, <2>3
  <1> QED  BY <1>8, <1>9 DEF S, C, B

\* The same of the second analysis.
LEMMA FindingsOfWaste ==
    ASSUME NEW shop
    PROVE  LET found == ProductionYields(shop) \cup WasteBaselines(shop)
           IN  /\ \A f \in found : /\ f.kind = "yield" /\ f.of \in Subjects
                                   /\ f.days \in Nat /\ f.sells \in BOOLEAN
               /\ \A f, g \in found : f.kind = g.kind /\ f.of = g.of => f = g
  <1> DEFINE found == ProductionYields(shop) \cup WasteBaselines(shop)
  <1>1. \A f \in found : f.of \in Products /\ f = Insight("yield", f.of, 0, TRUE)
    BY DEF ProductionYields, WasteBaselines, Insight
  <1> HIDE DEF found
  <1>2. \A f \in found : f.kind = "yield" /\ f.of \in Products /\ f.days = 0 /\ f.sells = TRUE
    BY <1>1 DEF Insight
  <1>3. /\ \A f \in found : f.kind = "yield" /\ f.of \in Subjects /\ f.days \in Nat /\ f.sells \in BOOLEAN
        /\ \A f, g \in found : f.kind = g.kind /\ f.of = g.of => f = g
    <2>1. \A f \in found : f.kind = "yield" /\ f.of \in Subjects /\ f.days \in Nat  BY <1>2 DEF Subjects
    <2>2. \A f \in found : f.sells \in BOOLEAN  BY <1>2
    <2>3. \A f, g \in found : f.kind = g.kind /\ f.of = g.of => f = g  BY <1>1
    <2> QED  BY <2>1, <2>2, <2>3
  <1> QED  BY <1>3 DEF found

\* The rows for what a job has found.
LEMMA SavedKeys ==
    ASSUME NEW found, NEW j \in Jobs, job[j].run \in Nat, job[j].mode \in Modes,
           \A f \in found : /\ f.kind \in Kinds \ Advice /\ f.of \in Subjects
                            /\ f.days \in Nat /\ f.sells \in BOOLEAN,
           \A f, g \in found : f.kind = g.kind /\ f.of = g.of => f = g
    PROVE  /\ Saved(j, found) \subseteq RowKey
           /\ \A k \in Saved(j, found) : /\ k.kind \notin Advice /\ k.run = job[j].run /\ k.mode = job[j].mode
                                         /\ \E f \in found : k.kind = f.kind
           /\ \A k, l \in Saved(j, found) : Like(k, l) => k = l
  <1> DEFINE Key(f) == [kind |-> f.kind, of |-> f.of, days |-> f.days, sells |-> f.sells, from |-> 0,
                        run |-> job[j].run, mode |-> job[j].mode]
  <1>1. \A f \in found : Key(f) \in RowKey
    BY DEF RowKey, Modes
  <1>2. \A f \in found : /\ Key(f).kind = f.kind /\ Key(f).of = f.of
                         /\ Key(f).run = job[j].run /\ Key(f).mode = job[j].mode
    OBVIOUS
  <1>3. Saved(j, found) = {Key(f) : f \in found}
    BY DEF Saved
  <1> HIDE DEF Key
  <1> QED  BY <1>1, <1>2, <1>3 DEF Like

\* A job saves its insights and moves on.
LEMMA SavingFits ==
    ASSUME AdvisoryAssumption, AdviceInv, NEW j \in Jobs, NEW found, SaveInsights(j, found),
           job[j] # NoJob, UNCHANGED <<review, clock, runs, reviews>>,
           \A f \in found : /\ f.kind \in Kinds \ Advice /\ f.of \in Subjects
                            /\ f.days \in Nat /\ f.sells \in BOOLEAN,
           \A f, g \in found : f.kind = g.kind /\ f.of = g.of => f = g,
           \A f \in found, l \in DOMAIN rows : l.run = job[j].run => l.kind # f.kind
    PROVE  /\ RowTypes' /\ RowsFit' /\ DecidedStays
           /\ \A k \in DOMAIN rows' \ DOMAIN rows : k.run = job[j].run /\ \E f \in found : k.kind = f.kind
  <1> DEFINE keys == Saved(j, found)
             late == IF Crosses(j) THEN keys ELSE {}
  <1>1. job[j].run \in 1..runs /\ job[j].run \in Nat /\ job[j].mode \in Modes
    BY DEF AdviceInv, JobTypes, JobOK, Plain, Holding, AdvisoryAssumption
  <1>2. /\ keys \subseteq RowKey
        /\ \A k \in keys : /\ k.kind \notin Advice /\ k.run = job[j].run /\ k.mode = job[j].mode
                           /\ \E f \in found : k.kind = f.kind
        /\ \A k, l \in keys : Like(k, l) => k = l
    BY <1>1, SavedKeys
  <1>3. rows' = Insert(keys, IF Crosses(j) THEN keys ELSE {}) /\ rows' = Insert(keys, late)
    BY DEF SaveInsights
  <1> HIDE DEF keys, late
  <1>4. RowTypes'
    BY <1>1, <1>2, <1>3, InsertTypes
  <1>5. RowsFit'
    <2>1. \A k \in keys, l \in DOMAIN rows : Like(k, l) => l.run # job[j].run
      BY <1>2 DEF Like
    <2>2. \A k \in keys : k.kind \notin Advice /\ k.run = job[j].run /\ k.mode = job[j].mode
      BY <1>2
    <2> QED  BY <1>2, <1>3, <2>1, <2>2, InsightsFit
  <1>6. DOMAIN rows' = DOMAIN rows \cup keys /\ \A k \in DOMAIN rows : rows'[k] = rows[k]
    BY <1>3, InsertedRows
  <1> QED  BY <1>2, <1>4, <1>5, <1>6 DEF DecidedStays

\* The first analysis.
LEMMA DemandStep ==
    ASSUME AdvisoryAssumption, AdviceInv, NEW j \in Jobs, NEW shop \in Shops, DemandForecast(j, shop)
    PROVE  AdviceInv' /\ DecidedStays
  <1> DEFINE found == SalesVelocity(shop) \cup InventoryCoverage(shop) \cup BurnRate(shop)
             u == job[j]
             q == [u EXCEPT !.pc = "waste"]
  <1>1. /\ job[j].pc = "demand" /\ RunGoes(j, q) /\ UNCHANGED <<review, clock, runs, reviews>>
        /\ SaveInsights(j, found)
    BY DEF DemandForecast, At, Step
  <1>2. job[j] # NoJob /\ u \in Plain \cup Holding /\ u.run \in 1..runs /\ runs \in Nat
    BY <1>1 DEF AdviceInv, JobTypes, JobOK, NoJob, AdvisoryAssumption
  <1>3. /\ \A f \in found : /\ f.kind \in {"sales", "coverage", "burn"} /\ f.of \in Subjects
                            /\ f.days \in Nat /\ f.sells \in BOOLEAN
        /\ \A f, g \in found : f.kind = g.kind /\ f.of = g.of => f = g
    BY FindingsOfDemand
  <1>u. u.run = job[j].run  OBVIOUS
  <1> HIDE DEF found, u
  <1>4. /\ RowTypes' /\ RowsFit' /\ DecidedStays
        /\ \A k \in DOMAIN rows' \ DOMAIN rows : k.run = job[j].run /\ \E f \in found : k.kind = f.kind
    <2>1. \A f \in found : /\ f.kind \in Kinds \ Advice /\ f.of \in Subjects
                           /\ f.days \in Nat /\ f.sells \in BOOLEAN
      BY <1>3 DEF Kinds, Advice
    <2>2. \A f \in found, l \in DOMAIN rows : l.run = job[j].run => l.kind # f.kind
      BY <1>1 DEF AdviceInv, NothingYet
    <2> QED  BY <1>1, <1>2, <1>3, <2>1, <2>2, SavingFits
  <1>5. q \in Plain \cup Holding /\ q.pc = "waste" /\ q.run = u.run
    <2>1. "waste" \in Parts  BY DEF Parts
    <2> QED  BY <1>2, <2>1, Parted
  <1> HIDE DEF q
  <1>6. JobTypes' /\ job'[j] = q /\ \A i \in Jobs \ {j} : job'[i] = job[i]
    <2>1. JobOK(q, runs') /\ runs' \in Nat /\ runs <= runs' /\ q.run = job[j].run
      BY <1>1, <1>2, <1>5, <1>u DEF JobOK
    <2> QED  BY <1>1, <1>2, <2>1, JobMoves
  <1>7. NothingYet'
    <2> SUFFICES ASSUME NEW i \in Jobs, NEW k \in DOMAIN rows'
                 PROVE  /\ job'[i].pc = "demand" => k.run # job'[i].run
                        /\ job'[i].pc = "waste" /\ k.run = job'[i].run => k.kind # "yield"
      BY DEF NothingYet
    <2>1. CASE i = j
      <3>1. k \in DOMAIN rows => k.run # job[j].run  BY <1>1 DEF AdviceInv, NothingYet
      <3>2. k \notin DOMAIN rows => k.kind # "yield"  BY <1>3, <1>4
      <3> QED  BY <1>5, <1>6, <1>u, <2>1, <3>1, <3>2
    <2>2. CASE i # j /\ k \in DOMAIN rows  BY <1>6, <2>2 DEF AdviceInv, NothingYet
    <2>3. CASE i # j /\ k \notin DOMAIN rows
      <3>1. NoJob.pc = "idle"  BY DEF NoJob
      <3>2. job[i].pc \in {"demand", "waste"} => job[i].run # job[j].run
        BY <1>2, <2>3, <3>1 DEF AdviceInv, JobTypes
      <3> QED  BY <1>4, <1>6, <2>3, <3>2
    <2> QED  BY <2>1, <2>2, <2>3
  <1> QED  BY <1>1, <1>4, <1>6, <1>7 DEF AdviceInv

\* The second.
LEMMA WasteStep ==
    ASSUME AdvisoryAssumption, AdviceInv, NEW j \in Jobs, NEW shop \in Shops, WasteAnalysis(j, shop)
    PROVE  AdviceInv' /\ DecidedStays
  <1> DEFINE found == ProductionYields(shop) \cup WasteBaselines(shop)
  <1>1. /\ job[j].pc = "waste" /\ RunRests(j, "load") /\ UNCHANGED <<review, clock, runs, reviews>>
        /\ SaveInsights(j, found)
    BY DEF WasteAnalysis, At
  <1>2. job[j] # NoJob  BY <1>1 DEF NoJob
  <1>3. /\ \A f \in found : f.kind = "yield" /\ f.of \in Subjects /\ f.days \in Nat /\ f.sells \in BOOLEAN
        /\ \A f, g \in found : f.kind = g.kind /\ f.of = g.of => f = g
    BY FindingsOfWaste
  <1> HIDE DEF found
  <1>4. /\ RowTypes' /\ RowsFit' /\ DecidedStays
        /\ \A k \in DOMAIN rows' \ DOMAIN rows : k.run = job[j].run /\ \E f \in found : k.kind = f.kind
    <2>1. \A f \in found : /\ f.kind \in Kinds \ Advice /\ f.of \in Subjects
                           /\ f.days \in Nat /\ f.sells \in BOOLEAN
      BY <1>3 DEF Kinds, Advice
    <2>2. \A f \in found, l \in DOMAIN rows : l.run = job[j].run => l.kind # f.kind
      BY <1>1, <1>3 DEF AdviceInv, NothingYet
    <2> QED  BY <1>1, <1>2, <1>3, <2>1, <2>2, SavingFits
  <1>5. JobTypes' /\ job'[j].pc \notin {"demand", "waste"} /\ \A i \in Jobs \ {j} : job'[i] = job[i]
    <2>1. "load" \in {"load", "expiry"} /\ runs' = runs  BY <1>1
    <2> QED  BY <1>1, <1>2, <2>1, JobRests
  <1>6. NothingYet'
    <2> DEFINE keys == DOMAIN rows' \ DOMAIN rows
    <2>1. DOMAIN rows' \subseteq DOMAIN rows \cup keys /\ \A k \in keys : k.run = job[j].run
      BY <1>4
    <2> HIDE DEF keys
    <2> QED  BY <1>2, <1>5, <2>1, NothingStill
  <1> QED  BY <1>1, <1>4, <1>5, <1>6 DEF AdviceInv

\* The steps of a job that write no row.
LEMMA JobOnly ==
    ASSUME AdviceInv, NEW j \in Jobs, UNCHANGED <<rows, review, clock, reviews>>, runs' \in 0..MaxRuns, runs <= runs',
           JobTypes', \A i \in Jobs \ {j} : job'[i] = job[i], job'[j].pc \notin {"demand", "waste"}
    PROVE  AdviceInv' /\ DecidedStays
  <1>1. runs' \in Nat  BY AdvisoryAssumption DEF AdvisoryAssumption
  <1>2. RowTypes' /\ RowsFit' /\ DecidedStays
    <2>1. UNCHANGED <<rows, clock>>  OBVIOUS
    <2> QED  BY <1>1, <2>1, RowsStill
  <1>3. NothingYet'
    <2> DEFINE keys == {}
    <2>1. DOMAIN rows' \subseteq DOMAIN rows \cup keys /\ (keys # {} => job[j] # NoJob)
          /\ \A k \in keys : k.run = job[j].run
      OBVIOUS
    <2> HIDE DEF keys
    <2> QED  BY <2>1, NothingStill
  <1> QED  BY <1>2, <1>3 DEF AdviceInv

\* The recommendations are asked for.
LEMMA RecommendStep ==
    ASSUME AdvisoryAssumption, AdviceInv, NEW j \in Jobs, Recommend(j)
    PROVE  AdviceInv' /\ DecidedStays
  <1> DEFINE q == [pc |-> "load", nightly |-> FALSE, run |-> runs + 1, mode |-> "recommendation"]
  <1>1. /\ runs < MaxRuns /\ runs' = runs + 1 /\ RunGoes(j, q) /\ UNCHANGED <<rows, review, clock, reviews>>
    BY DEF Recommend
  <1>2. runs \in Nat /\ runs' \in 0..MaxRuns /\ runs' \in Nat /\ runs <= runs'
    BY <1>1 DEF AdviceInv, AdvisoryAssumption
  <1>3. q \in Plain /\ q.run = runs + 1 /\ q.pc = "load"
    BY <1>2 DEF Plain, Parts, Modes
  <1> HIDE DEF q
  <1>4. JobOK(q, runs') /\ q.run > runs
    BY <1>1, <1>2, <1>3 DEF JobOK
  <1>5. JobTypes' /\ job'[j] = q /\ \A i \in Jobs \ {j} : job'[i] = job[i]
    BY <1>1, <1>2, <1>4, JobMoves
  <1> QED  BY <1>1, <1>2, <1>3, <1>5, JobOnly

\* What the recommender makes.
LEMMA MadeOf ==
    ASSUME AdvisoryAssumption, AdviceInv
    PROVE  Production(Recent) \cup Reorder(Recent) \cup Procurement(Recent) \subseteq Made
  <1> DEFINE P == Production(Recent)
             O == Reorder(Recent)
             M == Procurement(Recent)
  <1>1. \A i \in Recent : i \in RowKey  BY DEF Recent, AdviceInv, RowTypes
  <1>2. \A i \in Recent : i.of \in Subjects /\ i.run \in Nat  BY <1>1 DEF RowKey
  <1> DEFINE K == Recent
  <1>3. \A i \in K : i.of \in Subjects /\ i.run \in Nat  BY <1>2
  <1>4. \A x \in Subjects, n \in Nat, kind \in Advice : Recommendation(kind, x, n) \in Made
    BY DEF Recommendation, Made
  <1>5. "production" \in Advice /\ "reorder" \in Advice /\ "procurement" \in Advice  BY DEF Advice
  <1>6. P \subseteq Made
    <2>1. \A r \in P : \E p \in Products : r = Recommendation("production", p, 0)  BY DEF Production
    <2> HIDE DEF P
    <2> QED  BY <1>4, <1>5, <2>1 DEF Subjects
  <1>7. O \subseteq Made
    <2>1. \A r \in O : \E i \in K : r = Recommendation("reorder", i.of, i.run)  BY DEF Reorder
    <2> HIDE DEF O, K
    <2> QED  BY <1>3, <1>4, <1>5, <2>1
  <1>8. M \subseteq Made
    <2>1. \A r \in M : \E i \in K : r = Recommendation("procurement", i.of, i.run)  BY DEF Procurement
    <2> HIDE DEF M, K
    <2> QED  BY <1>3, <1>4, <1>5, <2>1
  <1> HIDE DEF P, O, M
  <1>9. P \cup O \cup M \subseteq Made  BY <1>6, <1>7, <1>8
  <1> QED  BY <1>9 DEF P, O, M

\* A job takes recommendations in hand.
LEMMA HoldingMoves ==
    ASSUME AdvisoryAssumption, AdviceInv, NEW j \in Jobs, job[j] # NoJob, NEW pc \in {"dedupe", "save"},
           NEW made \in SUBSET Made, NEW seen \in SUBSET RowKey,
           pc = "save" => \A r \in made, k \in seen : ~Like(k, r),
           RunGoes(j, [pc |-> pc, nightly |-> job[j].nightly, run |-> job[j].run, mode |-> job[j].mode, made |-> made,
                      seen |-> seen]),
           UNCHANGED <<rows, review, clock, runs, reviews>>
    PROVE  AdviceInv' /\ DecidedStays
  <1> DEFINE q == [pc |-> pc, nightly |-> job[j].nightly, run |-> job[j].run, mode |-> job[j].mode, made |-> made,
                   seen |-> seen]
  <1>1. /\ job[j].nightly \in BOOLEAN /\ job[j].run \in 1..runs /\ job[j].mode \in Modes /\ runs \in Nat
        /\ runs \in 0..MaxRuns
    BY DEF AdviceInv, JobTypes, JobOK, Plain, Holding, AdvisoryAssumption
  <1>2. q \in Holding /\ q.run = job[j].run /\ q.pc = pc /\ q.made = made /\ q.seen = seen
    BY <1>1 DEF Holding, Parts
  <1>3. RunGoes(j, q)  OBVIOUS
  <1> HIDE DEF q
  <1>4. JobOK(q, runs') /\ runs' \in Nat /\ runs <= runs' /\ runs' \in 0..MaxRuns
    BY <1>1, <1>2 DEF JobOK
  <1>5. JobTypes' /\ job'[j] = q /\ \A i \in Jobs \ {j} : job'[i] = job[i]
    BY <1>2, <1>3, <1>4, JobMoves
  <1> QED  BY <1>2, <1>4, <1>5, JobOnly

\* A job rests and writes nothing.
LEMMA RestsOnly ==
    ASSUME AdvisoryAssumption, AdviceInv, NEW j \in Jobs, job[j] # NoJob, NEW pc \in {"load", "expiry"}, RunRests(j, pc),
           UNCHANGED <<rows, review, clock, runs, reviews>>
    PROVE  AdviceInv' /\ DecidedStays
  <1>1. runs' = runs /\ runs' \in 0..MaxRuns /\ runs <= runs'
    BY DEF AdviceInv, AdvisoryAssumption
  <1>2. JobTypes' /\ job'[j].pc \notin {"demand", "waste"} /\ \A i \in Jobs \ {j} : job'[i] = job[i]
    BY <1>1, JobRests
  <1> QED  BY <1>1, <1>2, JobOnly

\* The job is over and has written nothing.
LEMMA EndsOnly ==
    ASSUME AdvisoryAssumption, AdviceInv, NEW j \in Jobs, RunGoes(j, NoJob), UNCHANGED <<rows, review, clock, runs, reviews>>
    PROVE  AdviceInv' /\ DecidedStays
  <1>1. runs' \in Nat /\ runs' \in 0..MaxRuns /\ runs <= runs' /\ JobOK(NoJob, runs') /\ NoJob.pc = "idle"
    BY DEF AdviceInv, AdvisoryAssumption, JobOK, NoJob
  <1>2. JobTypes' /\ job'[j] = NoJob /\ \A i \in Jobs \ {j} : job'[i] = job[i]
    BY <1>1, JobMoves
  <1> QED  BY <1>1, <1>2, JobOnly

\* The recommender looks at the insights of the week.
LEMMA LoadStep ==
    ASSUME AdvisoryAssumption, AdviceInv, NEW j \in Jobs, Load(j)
    PROVE  AdviceInv' /\ DecidedStays
  <1> DEFINE made == Production(Recent) \cup Reorder(Recent) \cup Procurement(Recent)
             seen == {}
  <1>1. job[j].pc = "load" /\ UNCHANGED <<rows, review, clock, runs, reviews>>
    BY DEF Load, At
  <1>2. \/ RunRests(j, "expiry")
        \/ RunGoes(j, [pc |-> "dedupe", nightly |-> job[j].nightly, run |-> job[j].run, mode |-> job[j].mode, made |-> made,
                         seen |-> seen])
    BY DEF Load
  <1>3. made \in SUBSET Made /\ seen \in SUBSET RowKey  BY MadeOf
  <1>4. job[j] # NoJob /\ "dedupe" \in {"dedupe", "save"} /\ "expiry" \in {"load", "expiry"}  BY <1>1 DEF NoJob
  <1> HIDE DEF made, seen
  <1> QED  BY <1>1, <1>2, <1>3, <1>4, HoldingMoves, RestsOnly

\* And at the recommendations that say the same.
LEMMA DeduplicateStep ==
    ASSUME AdvisoryAssumption, AdviceInv, NEW j \in Jobs, Deduplicate(j)
    PROVE  AdviceInv' /\ DecidedStays
  <1> DEFINE seen == UNION {SeenFor(r) : r \in job[j].made}
  <1>1. job[j].pc = "dedupe" /\ UNCHANGED <<rows, review, clock, runs, reviews>>
    BY DEF Deduplicate, At
  <1>2. PICK unique \in SUBSET job[j].made :
           /\ \A r \in job[j].made : SeenFor(r) # {} => r \notin unique
           /\ \/ RunRests(j, "expiry")
              \/ RunGoes(j, [pc |-> "save", nightly |-> job[j].nightly, run |-> job[j].run, mode |-> job[j].mode,
                            made |-> unique, seen |-> seen])
    BY DEF Deduplicate
  <1>3. job[j] # NoJob /\ "save" \in {"dedupe", "save"} /\ "expiry" \in {"load", "expiry"}  BY <1>1 DEF NoJob
  <1>4. unique \in SUBSET Made
    <2>1. job[j] \in Holding  BY <1>1, <1>3 DEF AdviceInv, JobTypes, JobOK
    <2>2. job[j].made \in SUBSET Made  BY <2>1 DEF Holding
    <2> QED  BY <1>2, <2>2
  <1>5. \A r \in job[j].made : \A k \in SeenFor(r) : k \in DOMAIN rows /\ Like(k, r)
    BY DEF SeenFor, DuplicatesOf, CandidatesFor
  <1>6. seen \in SUBSET RowKey
    <2>1. \A k \in DOMAIN rows : k \in RowKey  BY DEF AdviceInv, RowTypes
    <2> QED  BY <1>5, <2>1
  \* What one look-up was sure to meet another of the same type would have met too.
  <1>7. \A r \in unique, k \in seen : ~Like(k, r)
    <2> SUFFICES ASSUME NEW r \in unique, NEW s \in job[j].made, NEW k \in SeenFor(s), Like(k, r)
                 PROVE  FALSE
      OBVIOUS
    <2>1. r \in job[j].made /\ r.kind = s.kind /\ r.of = s.of  BY <1>2, <1>5 DEF Like
    <2>2. CandidatesFor(r) = CandidatesFor(s)  BY <2>1 DEF CandidatesFor
    <2>3. DuplicatesOf(r) = DuplicatesOf(s)  BY <2>1, <2>2 DEF DuplicatesOf, Like
    <2>4. SeenFor(r) = SeenFor(s)  BY <2>2, <2>3 DEF SeenFor
    <2> QED  BY <1>2, <2>1, <2>4
  <1> HIDE DEF seen
  <1> QED  BY <1>1, <1>2, <1>3, <1>4, <1>6, <1>7, HoldingMoves, RestsOnly

\* A part of a job fails.
LEMMA PartFailsStep ==
    ASSUME AdvisoryAssumption, AdviceInv, NEW j \in Jobs, PartFails(j)
    PROVE  AdviceInv' /\ DecidedStays
  <1>1. UNCHANGED <<rows, review, clock, runs, reviews>>  BY DEF PartFails
  <1>2. CASE job[j].pc \in {"demand", "waste"} /\ RunRests(j, "load")
    <2>1. job[j] # NoJob /\ "load" \in {"load", "expiry"}  BY <1>2 DEF NoJob
    <2> QED  BY <1>1, <1>2, <2>1, RestsOnly
  <1>3. CASE job[j].pc \in {"load", "dedupe", "save"} /\ RunRests(j, "expiry")
    <2>1. job[j] # NoJob /\ "expiry" \in {"load", "expiry"}  BY <1>3 DEF NoJob
    <2> QED  BY <1>1, <1>3, <2>1, RestsOnly
  <1>4. CASE RunGoes(j, NoJob)
    BY <1>1, <1>4, EndsOnly
  <1> QED  BY <1>2, <1>3, <1>4 DEF PartFails

\* The advice in hand is saved.
LEMMA SaveAdviceStep ==
    ASSUME AdvisoryAssumption, AdviceInv, NEW j \in Jobs, SaveAdvice(j)
    PROVE  AdviceInv' /\ DecidedStays
  <1> DEFINE Key(r) == [kind |-> r.kind, of |-> r.of, days |-> 0, sells |-> FALSE, from |-> r.from,
                        run |-> job[j].run, mode |-> "recommendation"]
             keys == {Key(r) : r \in job[j].made}
             late == {k \in keys : DuplicatesOf(k) \ job[j].seen # {}}
  <1>1. /\ job[j].pc = "save" /\ RunRests(j, "expiry") /\ UNCHANGED <<review, clock, runs, reviews>>
        /\ rows' = Insert(keys, {k \in keys : DuplicatesOf(k) \ job[j].seen # {}}) /\ rows' = Insert(keys, late)
    BY DEF SaveAdvice, At
  <1>2. job[j] # NoJob  BY <1>1 DEF NoJob
  <1>3. job[j].made \in SUBSET Made /\ job[j].run \in 1..runs /\ runs \in Nat /\ job[j].run \in Nat
    <2>1. job[j] \in Holding /\ job[j].run \in 1..runs  BY <1>1, <1>2 DEF AdviceInv, JobTypes, JobOK
    <2>2. runs \in Nat  BY DEF AdviceInv, AdvisoryAssumption
    <2> QED  BY <2>1, <2>2 DEF Holding
  <1>4. \A r \in Made : Key(r) \in RowKey /\ Key(r).kind \in Advice /\ Key(r).run = job[j].run
    BY <1>3 DEF Made, RowKey, Kinds
  <1> HIDE DEF Key
  <1>5. /\ keys \in SUBSET RowKey
        /\ \A k \in keys : k.kind \in Advice /\ k.run = job[j].run
        /\ \A k \in keys : k.run \in 1..runs
    BY <1>3, <1>4
  <1>11. \A k \in keys, l \in job[j].seen : ~Like(l, k)
    <2>1. \A r \in job[j].made, l \in job[j].seen : ~Like(l, r)
      BY <1>1, <1>2 DEF AdviceInv, JobTypes, JobOK
    <2>2. \A r \in job[j].made : Key(r).kind = r.kind /\ Key(r).of = r.of  BY DEF Key
    <2> QED  BY <2>1, <2>2 DEF Like
  <1> HIDE DEF keys, late
  <1>6. RowTypes'
    BY <1>1, <1>5, InsertTypes
  <1>7. RowsFit'
    <2>1. UNCHANGED clock  BY <1>1
    <2> QED  BY <1>1, <1>5, <1>11, <2>1, AdviceFits
  <1>8. DOMAIN rows' = DOMAIN rows \cup keys /\ \A k \in DOMAIN rows : rows'[k] = rows[k]
    BY <1>1, InsertedRows
  <1>9. JobTypes' /\ job'[j].pc \notin {"demand", "waste"} /\ \A i \in Jobs \ {j} : job'[i] = job[i]
    <2>1. "expiry" \in {"load", "expiry"} /\ runs' = runs  BY <1>1
    <2> QED  BY <1>1, <1>2, <2>1, JobRests
  <1>10. NothingYet'
    BY <1>2, <1>5, <1>8, <1>9, NothingStill
  <1> QED  BY <1>1, <1>6, <1>7, <1>8, <1>9, <1>10 DEF AdviceInv, DecidedStays

\* The rows that are left after an expiry or a clean-up, or a change of one of them.
LEMMA ExpiryFits ==
    ASSUME AdvisoryAssumption, AdviceInv, rows' = Expired, UNCHANGED <<clock, runs>>
    PROVE  RowTypes' /\ RowsFit' /\ DecidedStays /\ DOMAIN rows' = DOMAIN rows
  <1>1. DOMAIN rows' = DOMAIN rows /\ rows' = [k \in DOMAIN rows' |-> rows'[k]]
    BY DEF Expired
  <1>2. ASSUME NEW k \in DOMAIN rows
        PROVE  /\ RowOK(rows'[k], clock)
               /\ rows'[k].late = rows[k].late /\ rows'[k].born = rows[k].born
               /\ rows'[k].dismissed = rows[k].dismissed /\ rows'[k].reopened = rows[k].reopened
               /\ \/ rows'[k].status = rows[k].status
                  \/ rows[k].status \notin {"expired", "rejected"} /\ rows'[k].status = "expired"
    <2> DEFINE u == rows[k]
    <2>1. RowOK(u, clock)  BY DEF AdviceInv, RowTypes
    <2>2. rows'[k] = u \/ (u.status \notin {"expired", "rejected"} /\ rows'[k] = [u EXCEPT !.status = "expired"])
      BY DEF Expired, Expires
    <2> HIDE DEF u
    <2>3. LET v == [u EXCEPT !.status = "expired"]
          IN  /\ v \in RowState /\ v.status = "expired" /\ v.born = u.born /\ v.late = u.late /\ v.left = u.left
              /\ v.dismissed = u.dismissed /\ v.reopened = u.reopened
      BY <2>1 DEF RowOK, RowState, Statuses
    <2>4. CASE rows'[k] = u
      BY <2>1, <2>4 DEF u
    <2>5. CASE rows'[k] # u
      BY <2>1, <2>2, <2>3, <2>5 DEF RowOK, u
    <2> QED  BY <2>4, <2>5
  <1>3. RowTypes'  BY <1>1, <1>2 DEF AdviceInv, RowTypes
  <1>4. RowsFit'
    <2>1. RowTypes /\ RowsFit /\ clock \in Nat /\ clock' \in Nat /\ clock <= clock'
      BY DEF AdviceInv, AdvisoryAssumption
    <2>2. \A k \in DOMAIN rows' :
              /\ rows'[k].late = rows[k].late /\ rows'[k].born = rows[k].born
              /\ rows[k].dismissed => rows'[k].dismissed
              /\ rows[k].reopened => rows'[k].reopened
              /\ rows[k].status \in {"rejected", "expired"} =>
                    rows'[k].status \in {"rejected", "expired"} \/ rows'[k].reopened
      BY <1>1, <1>2
    <2> QED  BY <1>1, <2>1, <2>2, RowsFade
  <1>5. DecidedStays
    <2> SUFFICES ASSUME NEW k \in DOMAIN rows, rows[k].status \notin Open, rows'[k].status # rows[k].status
                 PROVE  rows[k].status = "approved" /\ rows'[k].status = "expired"
      BY <1>1 DEF DecidedStays
    <2>1. rows[k].status \in Statuses  BY DEF AdviceInv, RowTypes, RowOK, RowState
    <2> QED  BY <1>2, <2>1 DEF Statuses, Open
  <1> QED  BY <1>1, <1>3, <1>4, <1>5

\* When no row comes and no job moves, a job that has not got far has still written nothing.
LEMMA NothingMoves ==
    ASSUME AdviceInv, UNCHANGED job, DOMAIN rows' \subseteq DOMAIN rows
    PROVE  NothingYet'
  BY DEF AdviceInv, NothingYet

\* The night ends with an expiry.
LEMMA ExpiryOfNightStep ==
    ASSUME AdvisoryAssumption, AdviceInv, NEW j \in Jobs, ExpiryOfNight(j)
    PROVE  AdviceInv' /\ DecidedStays
  <1>1. /\ RunGoes(j, NoJob) /\ rows' = Expired /\ UNCHANGED <<review, clock, runs, reviews>>
    BY DEF ExpiryOfNight
  <1>2. RowTypes' /\ RowsFit' /\ DecidedStays /\ DOMAIN rows' = DOMAIN rows
    BY <1>1, ExpiryFits
  <1>3. runs' \in Nat /\ runs <= runs' /\ JobOK(NoJob, runs') /\ NoJob.pc = "idle"
    BY <1>1 DEF AdviceInv, AdvisoryAssumption, JobOK, NoJob
  <1>4. JobTypes' /\ job'[j] = NoJob /\ \A i \in Jobs \ {j} : job'[i] = job[i]
    BY <1>1, <1>3, JobMoves
  <1>5. NothingYet'
    BY <1>2, <1>3, <1>4 DEF AdviceInv, NothingYet
  <1> QED  BY <1>1, <1>2, <1>4, <1>5 DEF AdviceInv

\* The expiry of every hour.
LEMMA ExpiryCheckStep ==
    ASSUME AdvisoryAssumption, AdviceInv, ExpiryCheck
    PROVE  AdviceInv' /\ DecidedStays
  <1>1. rows' = Expired /\ UNCHANGED <<job, review, clock, runs, reviews>>
    BY DEF ExpiryCheck
  <1>2. RowTypes' /\ RowsFit' /\ DecidedStays /\ DOMAIN rows' = DOMAIN rows
    BY <1>1, ExpiryFits
  <1>3. NothingYet'  BY <1>1, <1>2, NothingMoves
  <1> QED  BY <1>1, <1>2, <1>3 DEF AdviceInv, JobTypes

\* The clean-up of every week.
LEMMA CleanupStep ==
    ASSUME AdvisoryAssumption, AdviceInv, WeeklyCleanup
    PROVE  AdviceInv' /\ DecidedStays
  <1>1. rows' = Without(Outdated) /\ UNCHANGED <<job, review, clock, runs, reviews>>
    BY DEF WeeklyCleanup
  <1>2. /\ DOMAIN rows' = DOMAIN rows \ Outdated /\ \A k \in DOMAIN rows' : rows'[k] = rows[k]
        /\ rows' = [k \in DOMAIN rows' |-> rows'[k]]
    BY <1>1 DEF Without
  <1>3. RowTypes'  BY <1>1, <1>2 DEF AdviceInv, RowTypes
  <1>4. RowsFit'
    <2>1. RowTypes /\ RowsFit /\ clock \in Nat /\ clock' \in Nat /\ clock <= clock'
      BY <1>1 DEF AdviceInv, AdvisoryAssumption
    <2> QED  BY <1>2, <2>1, RowsFade
  <1>5. NothingYet'  BY <1>1, <1>2, NothingMoves
  <1>6. DecidedStays  BY <1>2 DEF DecidedStays
  <1> QED  BY <1>1, <1>3, <1>4, <1>5, <1>6 DEF AdviceInv, JobTypes

\* An administrator fetches a row to review it.
LEMMA FetchStep ==
    ASSUME AdvisoryAssumption, AdviceInv, NEW a \in Reviewers, NEW k,
           NEW to \in {"acknowledged", "approved", "rejected"}, Fetch(a, k, to)
    PROVE  AdviceInv' /\ DecidedStays
  <1> DEFINE q == [pc |-> "fetched", row |-> k, was |-> rows[k].status, to |-> to]
  <1>1. /\ reviews < MaxReviews /\ reviews' = reviews + 1 /\ May(to, rows[k].status)
        /\ review' = [review EXCEPT ![a] = q] /\ UNCHANGED <<rows, job, clock, runs>>
    BY DEF Fetch
  <1>2. ReviewOK(q)  BY <1>1 DEF ReviewOK, May, Open
  <1> HIDE DEF q
  <1>3. review' = [b \in Reviewers |-> review'[b]] /\ \A b \in Reviewers : ReviewOK(review'[b])
    BY <1>1, <1>2 DEF AdviceInv
  <1>4. RowTypes' /\ RowsFit' /\ DecidedStays
    <2>1. runs' \in Nat /\ runs <= runs' /\ UNCHANGED <<rows, clock>>
      BY <1>1 DEF AdviceInv, AdvisoryAssumption
    <2> QED  BY <2>1, RowsStill
  <1>5. NothingYet'
    <2>1. UNCHANGED job /\ DOMAIN rows' \subseteq DOMAIN rows  BY <1>1
    <2> QED  BY <2>1, NothingMoves
  <1>6. reviews' \in 0..MaxReviews  BY <1>1 DEF AdviceInv, AdvisoryAssumption
  <1> QED  BY <1>1, <1>3, <1>4, <1>5, <1>6 DEF AdviceInv, JobTypes

\* A row that a review leaves: a decision on one that was decided since brings it back.
LEMMA JudgedRow ==
    ASSUME NEW q, clock \in Nat \ {0}, RowOK(rows[q.row], clock),
           q.to \in {"acknowledged", "approved", "rejected"}
    PROVE  /\ RowOK(Judged(q), clock) /\ Judged(q).status = q.to
           /\ Judged(q).born = rows[q.row].born /\ Judged(q).late = rows[q.row].late
           /\ Judged(q).dismissed = rows[q.row].dismissed
           /\ Judged(q).reopened <=> rows[q.row].reopened \/ rows[q.row].status # q.was
  <1> DEFINE u == rows[q.row]
             b == u.reopened \/ u.status # q.was
             to == q.to
             v == [u EXCEPT !.status = to, !.fed = clock, !.reopened = b]
  <1>1. u \in RowState /\ u.born \in 1..clock /\ (u.dismissed <=> u.left # Never)  BY DEF RowOK
  <1>2. to \in Statuses /\ clock \in Nat /\ clock # Never /\ to = q.to  BY DEF Statuses, Open, Never
  <1>3. b \in BOOLEAN /\ (b <=> u.reopened \/ u.status # q.was)  OBVIOUS
  <1>4. Judged(q) = v
    BY <1>1 DEF Judged, RowState
  <1> HIDE DEF b, to
  <1>u. u = rows[q.row]  OBVIOUS
  <1> HIDE DEF u
  <1>6. /\ v \in RowState /\ v.status = to /\ v.fed = clock /\ v.reopened = b
        /\ v.born = u.born /\ v.left = u.left /\ v.dismissed = u.dismissed /\ v.late = u.late
    BY <1>1, <1>2, <1>3 DEF RowState
  <1> HIDE DEF v
  <1>7. RowOK(v, clock)  BY <1>1, <1>2, <1>6 DEF RowOK
  <1> QED  BY <1>2, <1>3, <1>4, <1>6, <1>7, <1>u

\* The review is written to the row, if it is still there.
LEMMA FeedbackStep ==
    ASSUME AdvisoryAssumption, AdviceInv, NEW a \in Reviewers, Feedback(a)
    PROVE  AdviceInv' /\ DecidedStays
  <1> DEFINE q == review[a]
             u == rows[q.row]
             v == Judged(q)
  <1>1. /\ q.pc = "fetched" /\ review' = [review EXCEPT ![a] = NoJob] /\ UNCHANGED <<job, clock, runs, reviews>>
        /\ \/ q.row \in DOMAIN rows /\ rows' = [rows EXCEPT ![q.row] = v]
           \/ UNCHANGED rows
    BY DEF Feedback
  <1>2. review' = [b \in Reviewers |-> review'[b]] /\ \A b \in Reviewers : ReviewOK(review'[b])
    BY <1>1 DEF AdviceInv, ReviewOK
  <1>3. runs \in Nat /\ clock \in Nat \ {0}
    BY DEF AdviceInv, AdvisoryAssumption
  <1>4. CASE UNCHANGED rows
    <2>1. RowTypes' /\ RowsFit' /\ DecidedStays
      <3>1. runs' \in Nat /\ runs <= runs' /\ UNCHANGED <<rows, clock>>  BY <1>1, <1>3, <1>4
      <3> QED  BY <3>1, RowsStill
    <2>2. NothingYet'
      <3>1. UNCHANGED job /\ DOMAIN rows' \subseteq DOMAIN rows  BY <1>1, <1>4
      <3> QED  BY <3>1, NothingMoves
    <2> QED  BY <1>1, <1>2, <2>1, <2>2 DEF AdviceInv, JobTypes
  <1>5. CASE q.row \in DOMAIN rows /\ rows' = [rows EXCEPT ![q.row] = v]
    <2>1. q.was \in Open /\ q.to \in {"acknowledged", "approved", "rejected"}
      BY <1>1 DEF AdviceInv, ReviewOK, NoJob
    <2>2. RowOK(u, clock)  BY <1>5 DEF AdviceInv, RowTypes
    <2>3. /\ RowOK(v, clock) /\ v.born = u.born /\ v.late = u.late /\ v.dismissed = u.dismissed
          /\ v.status = q.to /\ (v.reopened <=> u.reopened \/ u.status # q.was)
      BY <1>3, <2>1, <2>2, JudgedRow
    <2> DEFINE k0 == q.row
               to == q.to
               was == q.was
    <2>4. rows' = [rows EXCEPT ![k0] = v] /\ k0 \in DOMAIN rows /\ u = rows[k0]  BY <1>5
    <2>5. /\ to \in {"acknowledged", "approved", "rejected"} /\ was \in Open
      BY <2>1
    <2>6. /\ RowOK(v, clock) /\ v.born = u.born /\ v.late = u.late /\ v.dismissed = u.dismissed
          /\ v.status = to /\ (v.reopened <=> u.reopened \/ u.status # was)
      BY <2>3
    <2> HIDE DEF q, u, v, k0, to, was
    <2>7. /\ DOMAIN rows' = DOMAIN rows /\ rows'[k0] = v /\ \A k \in DOMAIN rows \ {k0} : rows'[k] = rows[k]
          /\ rows' = [k \in DOMAIN rows' |-> rows'[k]]
      BY <2>4
    <2>8. RowTypes'
      BY <1>1, <2>6, <2>7 DEF AdviceInv, RowTypes
    <2>9. u.status \in {"rejected", "expired"} => v.reopened
      BY <2>5, <2>6 DEF Open
    <2>10. RowsFit'
      <3>1. RowTypes /\ RowsFit /\ clock \in Nat /\ clock' \in Nat /\ clock <= clock' /\ DOMAIN rows' \subseteq DOMAIN rows
        BY <1>1, <1>3, <2>7 DEF AdviceInv
      <3>2. \A k \in DOMAIN rows' :
                /\ rows'[k].late = rows[k].late /\ rows'[k].born = rows[k].born
                /\ rows[k].dismissed => rows'[k].dismissed
                /\ rows[k].reopened => rows'[k].reopened
                /\ rows[k].status \in {"rejected", "expired"} =>
                      rows'[k].status \in {"rejected", "expired"} \/ rows'[k].reopened
        <4> SUFFICES ASSUME NEW k \in DOMAIN rows'
                     PROVE  /\ rows'[k].late = rows[k].late /\ rows'[k].born = rows[k].born
                            /\ rows[k].dismissed => rows'[k].dismissed
                            /\ rows[k].reopened => rows'[k].reopened
                            /\ rows[k].status \in {"rejected", "expired"} =>
                                  rows'[k].status \in {"rejected", "expired"} \/ rows'[k].reopened
          OBVIOUS
        <4>1. CASE k = k0  BY <2>4, <2>6, <2>7, <2>9, <4>1
        <4>2. CASE k # k0  BY <2>7, <4>2
        <4> QED  BY <4>1, <4>2
      <3> QED  BY <3>1, <3>2, RowsFade
    <2>11. DecidedStays
      <3> SUFFICES ASSUME NEW k \in DOMAIN rows, rows[k].status \notin Open, rows'[k].status # rows[k].status
                   PROVE  rows'[k].reopened
        BY DEF DecidedStays
      <3>1. k = k0  BY <2>7
      <3> QED  BY <2>4, <2>5, <2>6, <2>7, <3>1
    <2>12. NothingYet'
      <3>1. UNCHANGED job /\ DOMAIN rows' \subseteq DOMAIN rows  BY <1>1, <2>7
      <3> QED  BY <3>1, NothingMoves
    <2> QED  BY <1>1, <1>2, <2>8, <2>10, <2>11, <2>12 DEF AdviceInv, JobTypes
  <1> QED  BY <1>1, <1>4, <1>5

\* A row is dismissed.
LEMMA DismissStep ==
    ASSUME AdvisoryAssumption, AdviceInv, NEW k0 \in DOMAIN rows, Dismiss(k0)
    PROVE  AdviceInv' /\ DecidedStays
  <1> DEFINE u == rows[k0]
             v == [u EXCEPT !.dismissed = TRUE, !.left = clock]
  <1>1. /\ reviews < MaxReviews /\ reviews' = reviews + 1 /\ rows' = [rows EXCEPT ![k0] = v]
        /\ UNCHANGED <<job, review, clock, runs>>
    BY DEF Dismiss
  <1>2. RowOK(u, clock) /\ clock \in Nat \ {0}  BY DEF AdviceInv, RowTypes, AdvisoryAssumption
  <1>3. u = rows[k0]  OBVIOUS
  <1> HIDE DEF u
  <1>4. /\ v \in RowState /\ v.status = u.status /\ v.fed = u.fed /\ v.reopened = u.reopened
        /\ v.born = u.born /\ v.left = clock /\ v.dismissed = TRUE /\ v.late = u.late
    BY <1>2 DEF RowState, RowOK
  <1> HIDE DEF v
  <1>5. RowOK(v, clock)  BY <1>2, <1>4 DEF RowOK, Never
  <1>6. /\ DOMAIN rows' = DOMAIN rows /\ rows'[k0] = v /\ \A k \in DOMAIN rows \ {k0} : rows'[k] = rows[k]
        /\ rows' = [k \in DOMAIN rows' |-> rows'[k]]
    BY <1>1
  <1>7. RowTypes'  BY <1>1, <1>5, <1>6 DEF AdviceInv, RowTypes
  <1>8. \A k \in DOMAIN rows' :
            /\ rows'[k].late = rows[k].late /\ rows'[k].born = rows[k].born
            /\ rows[k].dismissed => rows'[k].dismissed
            /\ rows'[k].reopened = rows[k].reopened /\ rows'[k].status = rows[k].status
    BY <1>3, <1>4, <1>6
  <1>9. RowsFit'
    <2>1. RowTypes /\ RowsFit /\ clock \in Nat /\ clock' \in Nat /\ clock <= clock' /\ DOMAIN rows' \subseteq DOMAIN rows
      BY <1>1, <1>2, <1>6 DEF AdviceInv
    <2> QED  BY <1>8, <2>1, RowsFade
  <1>10. NothingYet'
    <2>1. UNCHANGED job /\ DOMAIN rows' \subseteq DOMAIN rows  BY <1>1, <1>6
    <2> QED  BY <2>1, NothingMoves
  <1>11. DecidedStays  BY <1>8 DEF DecidedStays
  <1>12. reviews' \in 0..MaxReviews  BY <1>1 DEF AdviceInv, AdvisoryAssumption
  <1> QED  BY <1>1, <1>7, <1>9, <1>10, <1>11, <1>12 DEF AdviceInv, JobTypes

\* Time passes.
LEMMA TickStep ==
    ASSUME AdvisoryAssumption, AdviceInv, Tick
    PROVE  AdviceInv' /\ DecidedStays
  <1>1. clock < MaxClock /\ clock' = clock + 1 /\ UNCHANGED <<rows, job, review, runs, reviews>>  BY DEF Tick
  <1>2. clock \in Nat /\ clock' \in 1..MaxClock /\ clock <= clock' /\ clock' \in Nat
    BY <1>1 DEF AdviceInv, AdvisoryAssumption
  <1>3. RowTypes'
    <2>1. \A k \in DOMAIN rows : RowOK(rows[k], clock')
      BY <1>1, <1>2 DEF AdviceInv, RowTypes, RowOK
    <2> QED  BY <1>1, <2>1 DEF AdviceInv, RowTypes
  <1>4. RowsFit'
    <2>1. RowTypes /\ RowsFit /\ DOMAIN rows' \subseteq DOMAIN rows  BY <1>1 DEF AdviceInv
    <2>2. rows' = rows  BY <1>1
    <2> QED  BY <1>2, <2>1, <2>2, RowsFade
  <1>5. NothingYet'
    <2>1. UNCHANGED job /\ DOMAIN rows' \subseteq DOMAIN rows  BY <1>1
    <2> QED  BY <2>1, NothingMoves
  <1>6. DecidedStays  BY <1>1 DEF DecidedStays
  <1> QED  BY <1>1, <1>2, <1>3, <1>4, <1>5, <1>6 DEF AdviceInv, JobTypes

\* The process restarts: jobs and reviews are gone.
LEMMA AdvisoryRestartStep ==
    ASSUME AdvisoryAssumption, AdviceInv, AdvisoryRestart
    PROVE  AdviceInv' /\ DecidedStays
  <1>1. /\ job' = [j \in Jobs |-> NoJob] /\ review' = [a \in Reviewers |-> NoJob]
        /\ UNCHANGED <<rows, clock, runs, reviews>>
    BY DEF AdvisoryRestart
  <1>2. RowTypes' /\ RowsFit' /\ DecidedStays
    <2>1. runs' \in Nat /\ runs <= runs' /\ UNCHANGED <<rows, clock>>
      BY <1>1 DEF AdviceInv, AdvisoryAssumption
    <2> QED  BY <2>1, RowsStill
  <1>3. JobTypes' /\ NothingYet'
    <2>1. NoJob.pc = "idle"  BY DEF NoJob
    <2> QED  BY <1>1, <2>1 DEF JobTypes, JobOK, NothingYet
  <1> QED  BY <1>1, <1>2, <1>3 DEF AdviceInv, ReviewOK

\* The advisory starts without rows and jobs.
LEMMA AdviceStarts ==
    ASSUME AdvisoryAssumption, AdvisoryInit
    PROVE  AdviceInv
  <1>1. DOMAIN rows = {} /\ rows = [k \in DOMAIN rows |-> rows[k]]
    BY DEF AdvisoryInit
  <1>2. RowTypes /\ RowsFit
    BY <1>1 DEF RowTypes, RowsFit, OncePerRun, SecondAdviceExplained, SecondInsightOverlaps
  <1>3. JobTypes /\ NothingYet
    BY <1>1 DEF AdvisoryInit, JobTypes, JobOK, NothingYet
  <1> QED  BY <1>2, <1>3 DEF AdviceInv, AdvisoryInit, ReviewOK, AdvisoryAssumption

\* Every step keeps the invariant and the decisions.
LEMMA AdviceStep ==
    ASSUME AdvisoryAssumption, AdviceInv, AdvisoryNext
    PROVE  AdviceInv' /\ DecidedStays
  <1>1. ASSUME NEW j \in Jobs, NEW mode \in {"auto", "on_demand"}, Analyze(j, mode)
        PROVE  AdviceInv' /\ DecidedStays
    BY <1>1, AnalyzeStep
  <1>2. ASSUME NEW j \in Jobs, NEW shop \in Shops, DemandForecast(j, shop) \/ WasteAnalysis(j, shop)
        PROVE  AdviceInv' /\ DecidedStays
    BY <1>2, DemandStep, WasteStep
  <1>3. ASSUME NEW j \in Jobs, Recommend(j) \/ Load(j) \/ Deduplicate(j)
        PROVE  AdviceInv' /\ DecidedStays
    BY <1>3, RecommendStep, LoadStep, DeduplicateStep
  <1>4. ASSUME NEW j \in Jobs, SaveAdvice(j) \/ ExpiryOfNight(j) \/ PartFails(j)
        PROVE  AdviceInv' /\ DecidedStays
    BY <1>4, SaveAdviceStep, ExpiryOfNightStep, PartFailsStep
  <1>5. ASSUME ExpiryCheck \/ WeeklyCleanup \/ Tick \/ AdvisoryRestart
        PROVE  AdviceInv' /\ DecidedStays
    BY <1>5, ExpiryCheckStep, CleanupStep, TickStep, AdvisoryRestartStep
  <1>6. ASSUME NEW a \in Reviewers, NEW k \in DOMAIN rows, NEW to \in {"acknowledged", "approved", "rejected"},
               Fetch(a, k, to)
        PROVE  AdviceInv' /\ DecidedStays
    BY <1>6, FetchStep
  <1>7. ASSUME NEW k \in DOMAIN rows, Dismiss(k)  PROVE  AdviceInv' /\ DecidedStays
    BY <1>7, DismissStep
  <1>8. ASSUME NEW a \in Reviewers, Feedback(a)  PROVE  AdviceInv' /\ DecidedStays
    BY <1>8, FeedbackStep
  <1> QED  BY <1>1, <1>2, <1>3, <1>4, <1>5, <1>6, <1>7, <1>8 DEF AdvisoryNext

\* A stutter does, too.
LEMMA AdviceStutters ==
    ASSUME AdviceInv, UNCHANGED adviceVars
    PROVE  AdviceInv' /\ DecidedStays
  <1>1. RowTypes' /\ RowsFit' /\ DecidedStays
    <2>1. runs' \in Nat /\ runs <= runs' /\ UNCHANGED <<rows, clock>>
      BY AdvisoryAssumption DEF AdviceInv, AdvisoryAssumption, adviceVars
    <2> QED  BY <2>1, RowsStill
  <1> QED  BY <1>1 DEF adviceVars, AdviceInv, JobTypes, NothingYet

\* The invariant holds in every state.
LEMMA AdviceAlways == AdvisorySpec => []AdviceInv
  <1>1. AdvisoryInit => AdviceInv  BY AdviceStarts, AdvisoryAssumption
  <1>2. AdviceInv /\ [AdvisoryNext]_adviceVars => AdviceInv'
    BY AdviceStep, AdviceStutters, AdvisoryAssumption
  <1> QED  BY <1>1, <1>2, PTL DEF AdvisorySpec

\* It says what the runs check.
LEMMA AdviceFacts ==
    ASSUME AdviceInv
    PROVE  AdvisoryTypeOK /\ SecondAdviceExplained /\ SecondInsightOverlaps
  <1>1. ASSUME NEW k \in DOMAIN rows
        PROVE  /\ k.kind \in Advice \cup {"sales", "coverage", "burn", "yield"} /\ k.run \in 1..MaxRuns
               /\ rows[k].status \in Statuses /\ rows[k].born \in 1..clock
               /\ rows[k].status \in {"acknowledged", "approved", "rejected"} => rows[k].fed # Never
               /\ rows[k].dismissed <=> rows[k].left # Never
    <2>1. k \in RowKey /\ k.run \in 1..runs /\ RowOK(rows[k], clock) /\ runs \in 0..MaxRuns
      BY DEF AdviceInv, RowTypes
    <2>2. k.kind \in Kinds  BY <2>1 DEF RowKey
    <2>3. k.run \in 1..MaxRuns  BY <2>1, AdvisoryAssumption DEF AdvisoryAssumption
    <2>4. rows[k].status \in Statuses  BY <2>1 DEF RowOK, RowState
    <2> QED  BY <2>1, <2>2, <2>3, <2>4 DEF RowOK, Kinds
  <1>2. ASSUME NEW j \in Jobs
        PROVE  job[j].pc \in {"idle", "demand", "waste", "load", "dedupe", "save", "expiry"}
    BY DEF AdviceInv, JobTypes, JobOK, NoJob, Plain, Holding, Parts
  <1> QED  BY <1>1, <1>2 DEF AdviceInv, RowsFit, AdvisoryTypeOK

\* Two recommendations in force, or two insights, say the same only by an overlap of runs or
\* a review that was late, and a decision is changed by such a review only.
THEOREM AdviceStaysExplained == AdvisorySpec => AdviceExplained
  <1>1. AdviceInv => SecondAdviceExplained /\ SecondInsightOverlaps  BY AdviceFacts
  <1>2. AdviceInv /\ [AdvisoryNext]_adviceVars => [DecidedStays]_adviceVars
    BY AdviceStep, AdvisoryAssumption
  <1> QED  BY <1>1, <1>2, AdviceAlways, PTL DEF AdvisorySpec, AdviceExplained, DecisionStands

-----------------------------------------------------------------------------
(* The five together: a behaviour steps the one in focus. *)

\* A behaviour of the five is one of each.
LEMMA Projections ==
    AdministrationSpec => /\ AccountsSpec /\ RolesSpec /\ FormsSpec /\ RateSpec /\ AdvisorySpec
  <1>1. AdministrationInit => /\ AccountsInit /\ RolesInit /\ FormsInit /\ RateInit /\ AdvisoryInit
    BY DEF AdministrationInit
  <1>2. [AdministrationNext]_AdministrationVars => [AccountsNext]_accountVars
    BY DEF AdministrationNext, AdministrationVars
  <1>3. [AdministrationNext]_AdministrationVars => [RolesNext]_roleVars
    BY DEF AdministrationNext, AdministrationVars
  <1>4. [AdministrationNext]_AdministrationVars => [FormsNext]_formVars
    BY DEF AdministrationNext, AdministrationVars
  <1>5. [AdministrationNext]_AdministrationVars => [RateNext]_rateVars
    BY DEF AdministrationNext, AdministrationVars
  <1>6. [AdministrationNext]_AdministrationVars => [AdvisoryNext]_adviceVars
    BY DEF AdministrationNext, AdministrationVars
  <1> QED
    BY <1>1, <1>2, <1>3, <1>4, <1>5, <1>6, PTL
    DEF AdministrationSpec, AccountsSpec, RolesSpec, FormsSpec, RateSpec, AdvisorySpec

\* The component in focus keeps its types.
THEOREM AdministrationTypeCorrect == AdministrationSpec => []AdministrationTypeOK
  <1> DEFINE Focused == focus \in {"accounts", "roles", "forms", "rates", "advice"}
  <1>1. AdministrationSpec => []Focused
    <2>1. AdministrationInit => Focused  BY DEF AdministrationInit
    <2>2. Focused /\ [AdministrationNext]_AdministrationVars => Focused'
      BY DEF AdministrationNext, AdministrationVars
    <2> QED  BY <2>1, <2>2, PTL DEF AdministrationSpec
  <1>2. AdministrationSpec => /\ []AccountsInv /\ []RolesInv /\ []FormsInv /\ []RateInv /\ []AdviceInv
    BY Projections, AccountsAssumption, RoleDeskAssumption, FormsAssumption, AccountsAlways, RolesAlways,
       FormsAlways, RateAlways, AdviceAlways, PTL
  <1>3. AccountsInv => AccountsTypeOK  BY AccountsFacts
  <1>4. RolesInv => RolesTypeOK  BY RoleDeskAssumption, RolesFacts
  <1>5. FormsInv => FormsTypeOK  BY FormsAssumption, FormsFacts
  <1>6. RateInv => RateTypeOK  BY DEF RateInv
  <1>7. AdviceInv => AdvisoryTypeOK  BY AdviceFacts
  <1>8. Focused /\ AccountsTypeOK /\ RolesTypeOK /\ FormsTypeOK /\ RateTypeOK /\ AdvisoryTypeOK => AdministrationTypeOK
    BY DEF AdministrationTypeOK
  <1> QED  BY <1>1, <1>2, <1>3, <1>4, <1>5, <1>6, <1>7, <1>8, PTL

\* What the components promise holds in the behaviours of the five.
THEOREM AdministrationKeepsPromises ==
    AdministrationSpec => /\ AccountsExplained /\ ReplacedAsAsked /\ []FormsKept
                          /\ LimitsKept /\ AdviceExplained
  BY Projections, AccountsStayExplained, ReplacementsAreExact, FormsStayFit, LimitsAreKept,
     AdviceStaysExplained, PTL
=============================================================================
