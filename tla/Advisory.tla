------------------------------- MODULE Advisory ------------------------------
(***************************************************************************)
(* The AI advisory: insights and recommendations are rows of one table.    *)
(* ai/engine.py and ai/analyzers.py write insights, ai/recommender.py      *)
(* turns insights into recommendations, ai/scheduler.py lets rows expire   *)
(* and deletes old ones, and administrators review rows (api/ai.py).       *)
(*                                                                         *)
(* A job is a chain of transactions: what it read may be gone when it      *)
(* writes.  Nothing keeps two jobs apart: the nightly job, its manual      *)
(* trigger and the two "run" endpoints call the same functions.            *)
(***************************************************************************)
EXTENDS Naturals, FiniteSets

CONSTANTS
    Products, Materials,
    Shops,              \* sales, stock and batches that the analyzers can find
    Jobs,               \* jobs that can run at the same time
    Reviewers,          \* administrators with a request in flight
    Week, Month,        \* 7 and 30 days, in ticks of the clock
    MaxCandidates,      \* the rows that a look-up for duplicates reads: 50
    Reviewed,           \* bound: the kinds of rows that administrators act on
    MaxRuns, MaxReviews, MaxClock   \* bounds

ASSUME AdvisoryAssumption ==
    /\ Week \in Nat \ {0} /\ Month \in Nat /\ Week <= Month
    /\ MaxCandidates \in Nat \ {0} /\ MaxRuns \in Nat /\ MaxReviews \in Nat /\ MaxClock \in Nat \ {0}
    /\ \A s \in Shops : /\ \A p \in Products : s[p] \in [sales : {"none", "steady", "changed", "rising"},
                                                         days : Nat, batches : BOOLEAN]
                        /\ \A x \in Materials : s[x] \in Nat

VARIABLES
    rows,       \* the table ai_recommendations: what a row says |-> its state
    job,        \* job[j]: a job and how far it has got
    review,     \* review[a]: the row an administrator has fetched, and its status then
    clock, runs, reviews

adviceVars == <<rows, job, review, clock, runs, reviews>>

Open     == {"pending", "acknowledged"}
Statuses == Open \cup {"approved", "rejected", "expired"}
Advice   == {"production", "reorder", "procurement"}
NoJob    == [pc |-> "idle"]
Never    == 0

\* A new row; born, fed and left are times: of creation, feedback and dismissal.
NewRow(late) == [status |-> "pending", born |-> clock, fed |-> Never, left |-> Never,
                 dismissed |-> FALSE, late |-> late, reopened |-> FALSE]
Insert(keys, late) ==
    [k \in DOMAIN rows \cup keys |-> IF k \in DOMAIN rows THEN rows[k] ELSE NewRow(k \in late)]
Without(keys)         == [k \in DOMAIN rows \ keys |-> rows[k]]
InForce(k)            == ~rows[k].dismissed /\ rows[k].status \notin {"rejected", "expired"}
                         /\ clock <= rows[k].born + Week

AdvisoryTypeOK ==
    /\ \A k \in DOMAIN rows :
          /\ k.kind \in Advice \cup {"sales", "coverage", "burn", "yield"} /\ k.run \in 1..MaxRuns
          /\ rows[k].status \in Statuses /\ rows[k].born \in 1..clock
          /\ rows[k].status \in {"acknowledged", "approved", "rejected"} => rows[k].fed # Never
          /\ rows[k].dismissed <=> rows[k].left # Never
    /\ \A j \in Jobs : job[j].pc \in {"idle", "demand", "waste", "load", "dedupe", "save", "expiry"}
    /\ clock \in 1..MaxClock /\ runs \in 0..MaxRuns /\ reviews \in 0..MaxReviews

AdvisoryInit ==
    /\ rows = [k \in {} |-> NewRow(FALSE)]
    /\ job = [j \in Jobs |-> NoJob]
    /\ review = [a \in Reviewers |-> NoJob]
    /\ clock = 1 /\ runs = 0 /\ reviews = 0

-----------------------------------------------------------------------------
(* What the analyzers find.  A finding is reported as an insight of a type, *)
(* with the days of stock that are left and whether anything, or more, was  *)
(* sold.                                                                    *)

Insight(kind, x, days, sells) == [kind |-> kind, of |-> x, days |-> days, sells |-> sells]

\* A rise of 15% or more is told from the other changes of 10% or more, which lead to nothing.
SalesVelocity(shop)     == {Insight("sales", p, 0, shop[p].sales = "rising") :
                        p \in {q \in Products : shop[q].sales \in {"changed", "rising"}}}
\* Normal coverage, from 7 to 30 days, is not reported.
InventoryCoverage(shop) == {Insight("coverage", p, shop[p].days, shop[p].sales # "none") :
                        p \in {q \in Products : shop[q].days < 7 \/ shop[q].days > 30}}
BurnRate(shop)          == {Insight("burn", x, shop[x], FALSE) : x \in {y \in Materials : shop[y] < 14}}
ProductionYields(shop)  == {Insight("yield", p, 0, TRUE) : p \in {q \in Products : shop[q].batches}}
\* With two batches of a product analyze_waste_baselines compares an aware with a naive
\* time and fails, with fewer it skips the product: there is no waste insight.
WasteBaselines(shop)    == {}

(* What the recommender makes of insights.  One production recommendation   *)
(* per product, one of the others for every insight.                        *)

Recommendation(kind, x, i) == [kind |-> kind, of |-> x, from |-> i]

Production(I) ==
    {Recommendation("production", p, 0) :
        p \in {q \in Products : \E i \in I : /\ i.of = q
                                             /\ \/ i.kind = "sales" /\ i.sells
                                                \* coverage_days is tested for truth: not with no stock at all
                                                \/ i.kind = "coverage" /\ i.days \in 1..13}}
Reorder(I) ==
    {Recommendation("reorder", i.of, i.run) :
        i \in {k \in I : k.kind = "coverage" /\ k.days < 14 /\ k.sells}}
Procurement(I) ==
    {Recommendation("procurement", i.of, i.run) : i \in {k \in I : k.kind = "burn" /\ k.days < 10}}

-----------------------------------------------------------------------------
(* The jobs.                                                                *)

At(j, pc)    == job[j].pc = pc
RunGoes(j, q)   == job' = [job EXCEPT ![j] = q]
Step(j, pc)  == RunGoes(j, [job[j] EXCEPT !.pc = pc])
\* A nightly job goes on with the next part, the other jobs are over.
RunRests(j, pc)  == IF job[j].nightly THEN Step(j, pc) ELSE RunGoes(j, NoJob)

\* run_nightly_analysis, POST /ai/run: the insights of the mode that are not dismissed go.
Analyze(j, mode) ==
    /\ At(j, "idle") /\ runs < MaxRuns /\ runs' = runs + 1
    /\ RunGoes(j, [pc |-> "demand", nightly |-> mode = "auto", run |-> runs + 1, mode |-> mode])
    /\ rows' = Without({k \in DOMAIN rows : k.mode = mode /\ ~rows[k].dismissed})
    /\ UNCHANGED <<review, clock, reviews>>

Alongside(j) == {i \in Jobs \ {j} : job[i].pc \in {"demand", "waste"} /\ job[i].mode = job[j].mode}
Saved(j, found) ==
    {[kind |-> f.kind, of |-> f.of, days |-> f.days, sells |-> f.sells, from |-> 0, run |-> job[j].run,
      mode |-> job[j].mode] : f \in found}
\* History, for the properties: another run of the mode is under way, or has saved since this one cleared.
Crosses(j) == \/ Alongside(j) # {}
              \/ \E k \in DOMAIN rows : k.mode = job[j].mode /\ k.run # job[j].run /\ ~rows[k].dismissed
SaveInsights(j, found) == LET keys == Saved(j, found)
                          IN  rows' = Insert(keys, IF Crosses(j) THEN keys ELSE {})

DemandForecast(j, shop) ==
    /\ At(j, "demand") /\ Step(j, "waste")
    /\ SaveInsights(j, SalesVelocity(shop) \cup InventoryCoverage(shop) \cup BurnRate(shop))
    /\ UNCHANGED <<review, clock, runs, reviews>>

WasteAnalysis(j, shop) ==
    /\ At(j, "waste") /\ RunRests(j, "load")
    /\ SaveInsights(j, ProductionYields(shop) \cup WasteBaselines(shop))
    /\ UNCHANGED <<review, clock, runs, reviews>>

\* POST /ai/recommendations/run.
Recommend(j) ==
    /\ At(j, "idle") /\ runs < MaxRuns /\ runs' = runs + 1
    /\ RunGoes(j, [pc |-> "load", nightly |-> FALSE, run |-> runs + 1, mode |-> "recommendation"])
    /\ UNCHANGED <<rows, review, clock, reviews>>

\* The insights of the last week, rejected ones too.
Recent == {k \in DOMAIN rows : /\ k.kind \notin Advice /\ ~rows[k].dismissed
                               /\ clock <= rows[k].born + Week}

Load(j) ==
    /\ At(j, "load")
    /\ LET made == Production(Recent) \cup Reorder(Recent) \cup Procurement(Recent)
       IN  IF made = {} THEN RunRests(j, "expiry")
           ELSE RunGoes(j, [pc |-> "dedupe", nightly |-> job[j].nightly, run |-> job[j].run,
                         mode |-> job[j].mode, made |-> made, seen |-> {}])
    /\ UNCHANGED <<rows, review, clock, runs, reviews>>

Like(k, r) == k.kind = r.kind /\ k.of = r.of
\* Mutant: what an administrator has seen is no duplicate.
PendingFor(r) == {k \in DOMAIN rows : k.kind = r.kind /\ ~rows[k].dismissed /\ rows[k].status = "pending"
                                       /\ clock <= rows[k].born + Week}

\* What find_duplicate_recommendation selects, and what of it says the same.
CandidatesFor(r) == {k \in DOMAIN rows : k.kind = r.kind /\ ~rows[k].dismissed
                                         /\ rows[k].status \notin {"rejected", "expired"}
                                         /\ clock <= rows[k].born + Week}
DuplicatesOf(r)  == {k \in CandidatesFor(r) : Like(k, r)}
\* It reads some MaxCandidates of them, in no order: it is sure to meet a duplicate only if
\* the others are fewer.
SeenFor(r) == IF Cardinality(CandidatesFor(r) \ DuplicatesOf(r)) < MaxCandidates THEN DuplicatesOf(r) ELSE {}

Deduplicate(j) ==
    /\ At(j, "dedupe")
    /\ \E unique \in SUBSET job[j].made :
          /\ \A r \in job[j].made : /\ DuplicatesOf(r) = {} => r \in unique
                                    /\ SeenFor(r) # {} => r \notin unique
          /\ IF unique = {} THEN RunRests(j, "expiry")
             ELSE RunGoes(j, [pc |-> "save", nightly |-> job[j].nightly, run |-> job[j].run,
                           mode |-> job[j].mode, made |-> unique,
                           seen |-> UNION {SeenFor(r) : r \in job[j].made}])
    /\ UNCHANGED <<rows, review, clock, runs, reviews>>

\* A row is late if it repeats one that the look-up was not sure to meet.
SaveAdvice(j) ==
    /\ At(j, "save") /\ RunRests(j, "expiry")
    /\ LET keys == {[kind |-> r.kind, of |-> r.of, days |-> 0, sells |-> FALSE, from |-> r.from,
                     run |-> job[j].run, mode |-> "recommendation"] : r \in job[j].made}
       IN  rows' = Insert(keys, {k \in keys : DuplicatesOf(k) \ job[j].seen # {}})
    /\ UNCHANGED <<review, clock, runs, reviews>>

Expires == {k \in DOMAIN rows : /\ rows[k].status \notin {"expired", "rejected"}
                                /\ rows[k].born + Week < clock}
Expired == [k \in DOMAIN rows |->
               IF k \in Expires THEN [rows[k] EXCEPT !.status = "expired"] ELSE rows[k]]

ExpiryOfNight(j) ==
    /\ At(j, "expiry") /\ RunGoes(j, NoJob) /\ rows' = Expired
    /\ UNCHANGED <<review, clock, runs, reviews>>

\* run_expiry_check, every hour or by hand.
ExpiryCheck ==
    /\ Expires # {} /\ rows' = Expired
    /\ UNCHANGED <<job, review, clock, runs, reviews>>

\* run_weekly_cleanup: three deletes in a transaction.
Outdated == {k \in DOMAIN rows : \/ rows[k].dismissed /\ rows[k].left + Week < clock
                                 \/ rows[k].status = "expired" /\ rows[k].born + Week + Month < clock
                                 \/ rows[k].status = "rejected" /\ rows[k].fed + Month < clock}
WeeklyCleanup ==
    /\ Outdated # {} /\ rows' = Without(Outdated)
    /\ UNCHANGED <<job, review, clock, runs, reviews>>

\* run_all_analysis and the engine catch their exceptions: a nightly job goes on.
PartFails(j) ==
    /\ \/ job[j].pc \in {"demand", "waste"} /\ RunRests(j, "load")
       \/ job[j].pc \in {"load", "dedupe", "save"} /\ RunRests(j, "expiry")
       \/ At(j, "expiry") /\ RunGoes(j, NoJob)
    /\ UNCHANGED <<rows, review, clock, runs, reviews>>

-----------------------------------------------------------------------------
(* The administrators.                                                      *)

\* Acknowledge only what is pending, approve and reject what is open.
May(to, status) == IF to = "acknowledged" THEN status = "pending" ELSE status \in Open

Fetch(a, k, to) ==
    /\ review[a].pc = "idle" /\ reviews < MaxReviews /\ reviews' = reviews + 1
    /\ May(to, rows[k].status)
    /\ review' = [review EXCEPT ![a] = [pc |-> "fetched", row |-> k, was |-> rows[k].status, to |-> to]]
    /\ UNCHANGED <<rows, job, clock, runs>>

\* The row as the review q leaves it.
Judged(q) == [rows[q.row] EXCEPT !.status = q.to, !.fed = clock, !.reopened = @ \/ rows[q.row].status # q.was]

\* The UPDATE by id; of a row that has been deleted it fails.
Feedback(a) ==
    LET q == review[a]
    IN  /\ q.pc = "fetched"
        /\ review' = [review EXCEPT ![a] = NoJob]
        /\ IF q.row \in DOMAIN rows
           THEN rows' = [rows EXCEPT ![q.row] = Judged(q)]
           ELSE UNCHANGED rows
        /\ UNCHANGED <<job, clock, runs, reviews>>

Dismiss(k) ==
    /\ reviews < MaxReviews /\ reviews' = reviews + 1
    /\ rows' = [rows EXCEPT ![k] = [rows[k] EXCEPT !.dismissed = TRUE, !.left = clock]]
    /\ UNCHANGED <<job, review, clock, runs>>

Tick ==
    /\ clock < MaxClock /\ clock' = clock + 1
    /\ UNCHANGED <<rows, job, review, runs, reviews>>

AdvisoryRestart ==
    /\ job' = [j \in Jobs |-> NoJob] /\ review' = [a \in Reviewers |-> NoJob]
    /\ <<job, review>>' # <<job, review>>
    /\ UNCHANGED <<rows, clock, runs, reviews>>

AdvisoryNext ==
    \/ \E j \in Jobs : \/ \E mode \in {"auto", "on_demand"} : Analyze(j, mode)
                       \/ \E shop \in Shops : DemandForecast(j, shop) \/ WasteAnalysis(j, shop)
                       \/ Recommend(j) \/ Load(j)
                       \/ Deduplicate(j) \/ SaveAdvice(j) \/ ExpiryOfNight(j) \/ PartFails(j)
    \/ ExpiryCheck \/ WeeklyCleanup \/ Tick \/ AdvisoryRestart
    \/ \E k \in {r \in DOMAIN rows : r.kind \in Reviewed}, a \in Reviewers :
          \/ \E to \in {"acknowledged", "approved", "rejected"} : Fetch(a, k, to)
          \/ Dismiss(k)
    \/ \E a \in Reviewers : Feedback(a)

AdvisorySpec == AdvisoryInit /\ [][AdvisoryNext]_adviceVars

-----------------------------------------------------------------------------
(* Properties.                                                              *)

\* Two recommendations in force say the same of the same product or material only if one
\* run made both, if one was saved by a run that had looked for duplicates before the other
\* was there or among more rows of the type than it reads, or if a review that had read an
\* older status brought one back.
SecondAdviceExplained ==
    \A k, l \in {r \in DOMAIN rows : r.kind \in Advice /\ InForce(r)} :
        (k # l /\ Like(k, l)) => \/ k.run = l.run
                                 \/ rows[k].late \/ rows[l].late
                                 \/ rows[k].reopened \/ rows[l].reopened

\* Two insights of a mode say the same only if runs of that mode overlapped.
SecondInsightOverlaps ==
    \A k, l \in {r \in DOMAIN rows : r.kind \notin Advice /\ ~rows[r].dismissed} :
        (k # l /\ Like(k, l) /\ k.mode = l.mode) => rows[k].late \/ rows[l].late

\* A decision stands, but for expiry of what was approved, unless the review that changes
\* it had fetched the row before the decision.
DecidedStays ==
    \A k \in DOMAIN rows \cap DOMAIN rows' :
        (rows[k].status \notin Open /\ rows'[k].status # rows[k].status) =>
           \/ rows[k].status = "approved" /\ rows'[k].status = "expired"
           \/ rows'[k].reopened

DecisionStands == [][DecidedStays]_adviceVars

\* Advice is repeated, and decisions on it are changed, in these ways only.
AdviceExplained == [](SecondAdviceExplained /\ SecondInsightOverlaps) /\ DecisionStands

-----------------------------------------------------------------------------
(* What a comment of the code says, and the code does not do.               *)

\* recommender.py:497: "Returns only new, non-duplicate recommendations."
AdviceOnce ==
    \A k, l \in {r \in DOMAIN rows : r.kind \in Advice /\ InForce(r)} :
        (Like(k, l) /\ k.run = l.run) => k = l
=============================================================================
