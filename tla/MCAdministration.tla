--------------------------- MODULE MCAdministration ---------------------------
(***************************************************************************)
(* The accounts, the roles and their permissions, the forms, the rate      *)
(* limiter and the advisory.  They are modelled without shared state, so a *)
(* behaviour steps one of them, which focus names.                         *)
(***************************************************************************)
EXTENDS Accounts, RoleDesk, Forms, RateLimiter, Advisory, TLC

CONSTANTS ann, ben, cem, vital, extra, office, kilishi, kebab, beef, one, other

VARIABLE focus

McUser(b, r) == [admin |-> b, active |-> TRUE, banned |-> FALSE, deleted |-> FALSE, role |-> r]
McAccounts == {(ann :> McUser(TRUE, r)) @@ (ben :> McUser(FALSE, "team_admin")) : r \in {"system_admin", "member"}}
McForms == {[role |-> "member"], [admin |-> FALSE], [active |-> FALSE, admin |-> TRUE]}

\* Both paths of the channels count under one key, with different limits.
McPaths == {[segment |-> "channels", words |-> {}], [segment |-> "channels", words |-> {"upload"}]}

\* Stock is low: the sales are steady, no batch has been made, the material lasts 20 days.
McShops == {(kilishi :> [sales |-> "steady", days |-> 5, batches |-> FALSE])
             @@ (kebab :> [sales |-> "rising", days |-> 20, batches |-> FALSE]) @@ (beef :> 20)}

AdministrationVars == <<accountVars, roleVars, formVars, rateVars, adviceVars, focus>>

AdministrationInit ==
    /\ AccountsInit /\ RolesInit /\ FormsInit /\ RateInit /\ AdvisoryInit
    /\ focus \in {"accounts", "roles", "forms", "rates", "advice"}

AdministrationNext ==
    \/ /\ focus = "accounts" /\ AccountsNext
       /\ UNCHANGED <<roleVars, formVars, rateVars, adviceVars, focus>>
    \/ /\ focus = "roles" /\ RolesNext
       /\ UNCHANGED <<accountVars, formVars, rateVars, adviceVars, focus>>
    \/ /\ focus = "forms" /\ FormsNext
       /\ UNCHANGED <<accountVars, roleVars, rateVars, adviceVars, focus>>
    \/ /\ focus = "rates" /\ RateNext
       /\ UNCHANGED <<accountVars, roleVars, formVars, adviceVars, focus>>
    \/ /\ focus = "advice" /\ AdvisoryNext
       /\ UNCHANGED <<accountVars, roleVars, formVars, rateVars, focus>>

AdministrationSpec == AdministrationInit /\ [][AdministrationNext]_AdministrationVars

\* What tells two states apart: the components out of focus are as they were at the start.
AdministrationView ==
    <<focus, CASE focus = "accounts" -> accountVars [] focus = "roles" -> roleVars
               [] focus = "forms"    -> formVars    [] focus = "rates" -> rateVars
               [] focus = "advice"   -> adviceVars>>

\* The type invariant of the component in focus.
AdministrationTypeOK ==
    CASE focus = "accounts" -> AccountsTypeOK [] focus = "roles" -> RolesTypeOK
      [] focus = "forms"    -> FormsTypeOK    [] focus = "rates" -> RateTypeOK
      [] focus = "advice"   -> AdvisoryTypeOK
=============================================================================
