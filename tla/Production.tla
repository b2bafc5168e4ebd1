----------------------------- MODULE Production ------------------------------
(***************************************************************************)
(* Raw materials and their processing into finished products:              *)
(* backend/app/api/raw_materials.py, services/processing.py, the endpoints *)
(* of api/processing.py and the raw material form (form_submission.py).    *)
(*                                                                         *)
(* Two ways of writing meet on the row of a material.  A batch deducts by  *)
(* guarded UPDATEs that compute on the row, keeping each row's lock until  *)
(* it commits.  An adjustment or a reversal reads the stock, computes, and *)
(* writes its result at the commit, whatever the stock is by then.         *)
(***************************************************************************)
EXTENDS Integers, Sequences, FiniteSets, Functions

CONSTANTS
    Materials,
    Goods,          \* the finished products
    Requests,       \* bound: the requests in flight at a time
    InitialRaw,     \* the materials with stock at the start
    InitialRecipes, \* the recipes at the start
    RecipeForms,    \* bound: the recipes people enter
    Edited,         \* bound: the recipes people create or change
    Amounts,        \* bound: the amounts people enter
    MaxRawEntries,  \* bound: MaxRawEntries[m] limits the length of the log of m
    MaxBatches      \* bound: the number of batches

RecipeForm == [quantity : Nat \ {0}, waste : 0 .. 100, active : BOOLEAN]
Recipes    == [good : Goods, material : Materials]

ASSUME ProductionAssumption ==
    /\ InitialRaw \in [Materials -> Nat]
    /\ RecipeForms \subseteq RecipeForm
    /\ \E R \in SUBSET Recipes : /\ InitialRecipes \in [R -> RecipeForms]
                                 /\ \A r \in R : InitialRaw[r.material] > 0
    /\ Amounts \subseteq Nat \ {0}
    /\ Edited \subseteq Recipes
    /\ MaxRawEntries \in [Materials -> Nat] /\ MaxBatches \in Nat

VARIABLES
    material,       \* material[m]: "new" (no row yet), "live" or "gone"
    rawStock,       \* rawStock[m]: raw_materials.current_stock
    rawLog,         \* rawLog[m]: the raw_material_transactions of m
    recipe,         \* the processing_recipes, by product and material
    batches,        \* the processing_batches
    made,           \* made[g]: the processing_in entries of product g
    rawTx           \* rawTx[c]: the request c in flight

prodVars == <<material, rawStock, rawLog, recipe, batches, made, rawTx>>

\* batch and reversalOf are ids: 0 is NULL.
RawEntry == [change : Int, batch : Nat, reversalOf : Nat, reversed : BOOLEAN]

Entry(change, batch, reversalOf) ==
    [change |-> change, batch |-> batch, reversalOf |-> reversalOf, reversed |-> FALSE]

\* needs is the snapshot raw_materials_used.
IsBatch(b) ==
    /\ b.good \in Goods /\ b.quantity \in Nat \ {0}
    /\ DOMAIN b.needs \subseteq Materials /\ Range(b.needs) \subseteq Nat

Free == [pc |-> "idle"]

InFlight(c)  == rawTx[c].pc # "idle"
Close(c)     == rawTx' = [rawTx EXCEPT ![c] = Free]
RowLocked(m, c) == \E d \in Requests \ {c} : rawTx[d].pc = "batch" /\ m \in rawTx[d].taken
RawRoom(m)   == Len(rawLog[m]) + Cardinality({c \in Requests : InFlight(c)}) < MaxRawEntries[m]

ProdTypeOK ==
    /\ material \in [Materials -> {"new", "live", "gone"}]
    /\ rawStock \in [Materials -> Int]
    /\ rawLog \in [Materials -> Seq(RawEntry)]
    /\ DOMAIN recipe \subseteq Recipes /\ Range(recipe) \subseteq RecipeForm
    /\ \A b \in DOMAIN batches : IsBatch(batches[b])
    /\ made \in [Goods -> Seq([change : Nat, batch : 1 .. Len(batches)])]
    /\ \A c \in Requests : rawTx[c].pc \in {"idle", "batch", "write", "create"}
    \* The foreign keys, and what the ORM's cascades leave of a deleted material.
    /\ \A r \in DOMAIN recipe : material[r.material] = "live"
    /\ \A m \in Materials : material[m] # "live" => rawLog[m] = <<>>

ProdInit ==
    /\ material = [m \in Materials |-> IF InitialRaw[m] > 0 THEN "live" ELSE "new"]
    /\ rawStock = InitialRaw
    /\ rawLog = [m \in Materials |->
                    IF InitialRaw[m] > 0 THEN <<Entry(InitialRaw[m], 0, 0)>> ELSE <<>>]
    /\ recipe = InitialRecipes
    /\ batches = <<>>
    /\ made = [g \in Goods |-> <<>>]
    /\ rawTx = [c \in Requests |-> Free]

-----------------------------------------------------------------------------
(* Materials and recipes.                                                   *)

\* POST /raw-materials/ commits the row, and then the entry of its initial stock, if
\* that is positive; nothing stops a negative one.
CreateMaterial(c, m, s) ==
    /\ ~InFlight(c) /\ material[m] = "new" /\ RawRoom(m)
    /\ material' = [material EXCEPT ![m] = "live"]
    /\ rawStock' = [rawStock EXCEPT ![m] = s]
    /\ rawTx' = IF s > 0 THEN [rawTx EXCEPT ![c] = [pc |-> "create", material |-> m, change |-> s]]
                ELSE rawTx
    /\ UNCHANGED <<rawLog, recipe, batches, made>>

LogCreation(c) ==
    /\ rawTx[c].pc = "create"
    /\ LET m == rawTx[c].material
       IN  rawLog' = IF material[m] = "live"
                     THEN [rawLog EXCEPT ![m] = Append(@, Entry(rawTx[c].change, 0, 0))]
                     ELSE rawLog
    /\ Close(c)
    /\ UNCHANGED <<material, rawStock, recipe, batches, made>>

\* Mutant: the recipes' foreign key is not there.
DeletableInUse(m) == \A i \in DOMAIN rawLog[m] : rawLog[m][i].reversalOf = 0

\* The foreign keys of a recipe and of a reversal, which nothing cascades to or
\* orders, make a deletion fail.
Deletable(m) ==
    /\ \A r \in DOMAIN recipe : r.material # m
    /\ \A i \in DOMAIN rawLog[m] : rawLog[m][i].reversalOf = 0

\* DELETE deletes the log too.
DeleteMaterial(m) ==
    /\ material[m] = "live" /\ Deletable(m)
    /\ material' = [material EXCEPT ![m] = "gone"]
    /\ rawLog' = [rawLog EXCEPT ![m] = <<>>]
    /\ rawStock' = [rawStock EXCEPT ![m] = 0]
    /\ UNCHANGED <<recipe, batches, made, rawTx>>

\* One recipe per product and material (uq_recipe_product_material); it starts active.
CreateRecipe(r, f) ==
    /\ r \notin DOMAIN recipe /\ material[r.material] = "live" /\ f.active
    /\ recipe' = [q \in DOMAIN recipe \cup {r} |-> IF q = r THEN f ELSE recipe[q]]
    /\ UNCHANGED <<material, rawStock, rawLog, batches, made, rawTx>>

UpdateRecipe(r, f) ==
    /\ r \in DOMAIN recipe
    /\ recipe' = [recipe EXCEPT ![r] = f]
    /\ UNCHANGED <<material, rawStock, rawLog, batches, made, rawTx>>

-----------------------------------------------------------------------------
(* Batches.                                                                 *)

ActiveRecipes(g) == {r \in DOMAIN recipe : r.good = g /\ recipe[r].active}

\* int(base * (1 + waste/100)): rounded down.
Required(f, n) == (f.quantity * n * (100 + f.waste)) \div 100

\* calculate_raw_material_requirements: by material.
Requirements(g, n) ==
    LET needed == {r.material : r \in ActiveRecipes(g)}
    IN  [m \in needed |-> Required(recipe[[good |-> g, material |-> m]], n)]

AllSufficient(needs) == \A m \in DOMAIN needs : rawStock[m] >= needs[m]

\* process_batch: the validation and the reads.
BatchBegin(c, g, n) ==
    /\ ~InFlight(c)
    /\ Len(batches) + Cardinality({d \in Requests : InFlight(d)}) < MaxBatches
    /\ \A m \in DOMAIN Requirements(g, n) : RawRoom(m)
    /\ ActiveRecipes(g) # {}
    /\ AllSufficient(Requirements(g, n))
    /\ rawTx' = [rawTx EXCEPT ![c] = [pc |-> "batch", good |-> g, quantity |-> n,
                                      needs |-> Requirements(g, n), taken |-> {}]]
    /\ UNCHANGED <<material, rawStock, rawLog, recipe, batches, made>>

\* Mutant: the check made before stands for the condition of the UPDATE.
StillThereUnchecked(m, need) == TRUE

\* The condition of the UPDATE, on the row as it is once its lock has been granted.
StillThere(m, need) == rawStock[m] >= need

\* One UPDATE, in the order the recipes came in, which no ORDER BY fixes.  The row is
\* locked from here on; what it loses shows at the commit.  A material that has run
\* short rolls the whole batch back.
Deduct(c, m) ==
    /\ rawTx[c].pc = "batch"
    /\ m \in DOMAIN rawTx[c].needs \ rawTx[c].taken
    /\ ~RowLocked(m, c)
    /\ IF StillThere(m, rawTx[c].needs[m])
       THEN rawTx' = [rawTx EXCEPT ![c] = [rawTx[c] EXCEPT !.taken = @ \cup {m}]]
       ELSE Close(c)
    /\ UNCHANGED <<material, rawStock, rawLog, recipe, batches, made>>

\* Mutant: the entry of the batch's output goes in by a commit of its own, which is lost.
OutputUnlogged(g, n) == made

\* The processing_in entry, in the transaction of the batch.
Output(g, n) == [made EXCEPT ![g] = Append(@, [change |-> n, batch |-> Len(batches) + 1])]

BatchCommit(c) ==
    /\ rawTx[c].pc = "batch" /\ rawTx[c].taken = DOMAIN rawTx[c].needs
    /\ LET t == rawTx[c]
       IN  /\ batches' = Append(batches, [good |-> t.good, quantity |-> t.quantity,
                                          needs |-> t.needs])
           /\ rawStock' = [m \in Materials |->
                             IF m \in t.taken THEN rawStock[m] - t.needs[m] ELSE rawStock[m]]
           /\ rawLog' = [m \in Materials |->
                           IF m \in t.taken
                           THEN Append(rawLog[m], Entry(-t.needs[m], Len(batches) + 1, 0))
                           ELSE rawLog[m]]
           /\ made' = Output(t.good, t.quantity)
    /\ Close(c)
    /\ UNCHANGED <<material, recipe>>

\* Mutant: nothing looks for cycles of waiting transactions.
WaitsUnseen(d, c) == FALSE

\* d waits for a row that c has locked.
WaitsFor(d, c) ==
    /\ rawTx[d].pc = "batch" /\ rawTx[c].pc = "batch" /\ c # d
    /\ (DOMAIN rawTx[d].needs \ rawTx[d].taken) \cap rawTx[c].taken # {}

\* PostgreSQL aborts one of two transactions that wait for each other, and
\* process_batch rolls back.
DeadlockVictim(c) ==
    /\ \E d \in Requests : WaitsFor(c, d) /\ WaitsFor(d, c)
    /\ Close(c)
    /\ UNCHANGED <<material, rawStock, rawLog, recipe, batches, made>>

-----------------------------------------------------------------------------
(* Adjustments and reversals.                                               *)

\* What the request will write, from what it reads now.
WillWrite(c, m, change, reversalOf) ==
    rawTx' = [rawTx EXCEPT ![c] = [pc |-> "write", material |-> m, read |-> rawStock[m],
                                   change |-> change, reversalOf |-> reversalOf]]

\* adjust_stock: the check is made on the stock it has read.
AdjustRaw(c, m, d) ==
    /\ ~InFlight(c) /\ RawRoom(m) /\ material[m] = "live"
    /\ rawStock[m] + d >= 0
    /\ WillWrite(c, m, d, 0)
    /\ UNCHANGED <<material, rawStock, rawLog, recipe, batches, made>>

\* handle_raw_materials_submission checks nothing.
SubmitRawForm(c, m, d) ==
    /\ ~InFlight(c) /\ RawRoom(m) /\ material[m] = "live"
    /\ WillWrite(c, m, d, 0)
    /\ UNCHANGED <<material, rawStock, rawLog, recipe, batches, made>>

\* A reversal can be reversed too.
Reversible(m, i) == ~rawLog[m][i].reversed

\* reverse_transaction: nothing checks that the stock is still there.
ReverseRaw(c, m, i) ==
    /\ ~InFlight(c) /\ RawRoom(m) /\ i \in DOMAIN rawLog[m]
    /\ Reversible(m, i)
    /\ WillWrite(c, m, -rawLog[m][i].change, i)
    /\ UNCHANGED <<material, rawStock, rawLog, recipe, batches, made>>

\* Mutant: a reversal subtracts what it has already negated.
WrittenSubtracting(t) == IF t.reversalOf > 0 THEN t.read - t.change ELSE t.read + t.change

\* The value the handler has computed.
Written(t) == t.read + t.change

\* A log with the entry i marked as reversed (there is none for 0).
Marked(log, i) ==
    [j \in DOMAIN log |-> IF j = i THEN [log[j] EXCEPT !.reversed = TRUE] ELSE log[j]]

\* The commit waits for the row's lock and writes.  A material that is gone by then
\* makes it fail.
WriteCommit(c) ==
    /\ rawTx[c].pc = "write"
    /\ LET t == rawTx[c]
           m == t.material
       IN  /\ ~RowLocked(m, c)
           /\ IF material[m] = "live"
              THEN /\ rawStock' = [rawStock EXCEPT ![m] = Written(t)]
                   /\ rawLog' = [rawLog EXCEPT ![m] =
                                     Append(Marked(rawLog[m], t.reversalOf), Entry(t.change, 0, t.reversalOf))]
              ELSE UNCHANGED <<rawStock, rawLog>>
    /\ Close(c)
    /\ UNCHANGED <<material, recipe, batches, made>>

\* The server stops: what has not been committed is rolled back.
ProdCrash ==
    /\ \E c \in Requests : InFlight(c)
    /\ rawTx' = [c \in Requests |-> Free]
    /\ UNCHANGED <<material, rawStock, rawLog, recipe, batches, made>>

-----------------------------------------------------------------------------
ProdServer(c) ==
    \/ LogCreation(c) \/ WriteCommit(c) \/ BatchCommit(c) \/ DeadlockVictim(c)
    \/ \E m \in Materials : Deduct(c, m)

ProdUser(c) ==
    \/ \E m \in Materials, s \in Amounts : CreateMaterial(c, m, s) \/ CreateMaterial(c, m, -s)
    \/ \E g \in Goods, n \in Amounts : BatchBegin(c, g, n)
    \/ \E m \in Materials, d \in Amounts :
           \/ AdjustRaw(c, m, d) \/ AdjustRaw(c, m, -d)
           \/ SubmitRawForm(c, m, d) \/ SubmitRawForm(c, m, -d)
    \/ \E m \in Materials : \E i \in DOMAIN rawLog[m] : ReverseRaw(c, m, i)

ProdNext ==
    \/ \E c \in Requests : ProdServer(c) \/ ProdUser(c)
    \/ \E m \in Materials : DeleteMaterial(m)
    \/ \E r \in Edited, f \in RecipeForms : CreateRecipe(r, f) \/ UpdateRecipe(r, f)
    \/ ProdCrash

\* A request that waits for a row is served: PostgreSQL queues the waiters.
ProdFairness == \A c \in Requests : SF_prodVars(ProdServer(c))

ProdSpec == ProdInit /\ [][ProdNext]_prodVars /\ ProdFairness

-----------------------------------------------------------------------------
(* Reports.                                                                 *)

\* get_raw_material_usage_stats, from the processing_out entries.
UsedBy(m, b) == SumFunction([i \in {j \in DOMAIN rawLog[m] : rawLog[m][j].batch = b} |->
                               -rawLog[m][i].change])

\* get_finished_goods_yield_stats, from the batches.
Produced(g) == SumFunction([b \in {d \in DOMAIN batches : batches[d].good = g} |->
                              batches[b].quantity])

Logged(s) == SumFunction([i \in DOMAIN s |-> s[i].change])

-----------------------------------------------------------------------------
(* Properties.                                                              *)

\* A batch is in all its tables or in none ("ATOMIC TRANSACTION", "On ANY failure:
\* rollback everything", services/processing.py:242): the usage report, made from the
\* log, agrees with the snapshots in the batches, and the output report with the log
\* of the product, however requests interleave, deadlock, fail or crash.
BatchWhole ==
    /\ \A m \in Materials :
           /\ \A b \in DOMAIN batches :
                  UsedBy(m, b) = IF m \in DOMAIN batches[b].needs THEN batches[b].needs[m] ELSE 0
           /\ \A i \in DOMAIN rawLog[m] : rawLog[m][i].batch <= Len(batches)
    /\ \A g \in Goods : Produced(g) = Logged(made[g])

Drift(m) == rawStock[m] - Logged(rawLog[m])

\* Stock and log of a material come apart only where the code lets them: by a write
\* computed from a stock that has changed since (a lost update), or at a creation,
\* whose row is committed without its entry.  No batch is a cause.
OnlyStaleWritesDrift ==
    \A m \in Materials : Drift(m)' # Drift(m) =>
        \/ \E c \in Requests : /\ rawTx[c].pc = "write" /\ rawTx[c].material = m
                               /\ rawTx[c].read # rawStock[m] /\ rawTx'[c] = Free
        \/ material[m] = "new"
        \/ \E c \in Requests : rawTx[c].pc = "create" /\ rawTx[c].material = m
        \/ material'[m] = "gone"

DriftByStaleWrites == [][OnlyStaleWritesDrift]_prodVars

\* Stock is taken below zero only by the two requests that check nothing, a reversal
\* and the form: a batch or a checked adjustment never overdraws a material, whatever
\* the others have taken since its check.
OnlyUncheckedOverdraw ==
    \A m \in Materials : rawStock'[m] < 0 /\ rawStock'[m] < rawStock[m] /\ material[m] = "live" =>
        /\ batches' = batches
        /\ \E c \in Requests : /\ rawTx[c].pc = "write" /\ rawTx[c].material = m
                               /\ rawTx[c].read + rawTx[c].change < 0

CheckedTakesLeaveStock == [][OnlyUncheckedOverdraw]_prodVars

\* A batch ends, done or rolled back: batches that take the same materials in different
\* orders do not wait for each other for ever.
BatchEnds == \A c \in Requests : (rawTx[c].pc = "batch") ~> (rawTx[c].pc # "batch")
=============================================================================
