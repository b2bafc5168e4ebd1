------------------------------ MODULE MCServices ------------------------------
(***************************************************************************)
(* Notifications, low-stock alerts, attachments and registration.  They    *)
(* are modelled without shared state, so a behaviour steps one of them,    *)
(* which focus names.                                                      *)
(***************************************************************************)
EXTENDS Notices, LowStockAlerts, Attachments, Onboarding, TLC

CONSTANTS ann, ben, cem, l1, l2, l3, rice1, rice10, m1, m2

VARIABLE focus

McLineOf  == (l1 :> ann) @@ (l2 :> ann) @@ (l3 :> ben)
McMatches == (rice1 :> {rice1, rice10}) @@ (rice10 :> {rice10})
McStart   == (rice1 :> 2) @@ (rice10 :> 1)
McMax     == (rice1 :> 2) @@ (rice10 :> 1)

\* Which of the requests after a movement of stock is which makes no difference.
MoverSymmetry == Permutations(Movers)

ServiceVars == <<noticeVars, alertVars, fileVars, onboardVars, focus>>

\* A component out of focus needs one initial state only.
ServicesInit ==
    /\ NoticesInit /\ AlertsInit /\ AttachmentsInit /\ OnboardInit
    /\ focus \in {"notices", "alerts", "files", "onboarding"}
    /\ focus # "onboarding" => env = "production" /\ roles

ServicesNext ==
    \/ /\ focus = "notices" /\ NoticesNext
       /\ UNCHANGED <<alertVars, fileVars, onboardVars, focus>>
    \/ /\ focus = "alerts" /\ AlertsNext
       /\ UNCHANGED <<noticeVars, fileVars, onboardVars, focus>>
    \/ /\ focus = "files" /\ AttachmentsNext
       /\ UNCHANGED <<noticeVars, alertVars, onboardVars, focus>>
    \/ /\ focus = "onboarding" /\ OnboardNext
       /\ UNCHANGED <<noticeVars, alertVars, fileVars, focus>>

ServicesSpec == ServicesInit /\ [][ServicesNext]_ServiceVars

\* What tells two states apart: the components out of focus are as they were at the start.
ServicesView == <<focus, CASE focus = "notices" -> noticeVars [] focus = "alerts"     -> alertVars
                           [] focus = "files"   -> fileVars   [] focus = "onboarding" -> onboardVars>>

\* The type invariant of the component in focus.
ServicesTypeOK ==
    CASE focus = "notices" -> NoticesTypeOK     [] focus = "alerts"     -> AlertsTypeOK
      [] focus = "files"   -> AttachmentsTypeOK [] focus = "onboarding" -> OnboardTypeOK
=============================================================================
