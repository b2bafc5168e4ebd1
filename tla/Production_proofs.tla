--------------------------- MODULE Production_proofs --------------------------
(***************************************************************************)
(* The proofs about Production: its types, that a checked request leaves   *)
(* stock behind, that a batch is in every log it belongs to, once and with *)
(* its amounts, and that logs and stocks add up but for writes of a stale  *)
(* value.                                                                  *)
(***************************************************************************)
EXTENDS Production, Sums_proofs, SequenceTheorems, TLAPS

\* What a batch needs: amounts of some materials.
Needs == UNION {[S -> Nat] : S \in SUBSET Materials}
Batch == [good : Goods, quantity : Nat \ {0}, needs : Needs]

\* The requests in flight.
BatchTx  == [pc : {"batch"}, good : Goods, quantity : Nat \ {0}, needs : Needs, taken : SUBSET Materials]
WriteTx  == [pc : {"write"}, material : Materials, read : Int, change : Int, reversalOf : Nat]
CreateTx == [pc : {"create"}, material : Materials, change : Int]
Tx       == {Free} \cup BatchTx \cup WriteTx \cup CreateTx

\* An entry of a product is of a batch that there is.
GoodEntry(n) == [change : Nat, batch : 1 .. n]

\* The types, with those of requests and batches.
ProdTypes ==
    /\ material \in [Materials -> {"new", "live", "gone"}]
    /\ rawStock \in [Materials -> Int]
    /\ rawLog \in [Materials -> Seq(RawEntry)]
    /\ DOMAIN recipe \subseteq Recipes /\ recipe \in [DOMAIN recipe -> RecipeForm]
    /\ batches \in Seq(Batch)
    /\ made \in [Goods -> Seq(GoodEntry(Len(batches)))]
    /\ rawTx \in [Requests -> Tx]
    /\ \A r \in DOMAIN recipe : material[r.material] = "live"
    /\ \A m \in Materials : material[m] # "live" => rawLog[m] = <<>>

\* A batch needs materials of recipes only, and what it has taken is there: the row is
\* locked, by one batch at a time.
Held ==
    /\ \A c \in Requests : rawTx[c].pc = "batch" =>
          /\ rawTx[c].taken \subseteq DOMAIN rawTx[c].needs
          /\ \A m \in DOMAIN rawTx[c].needs : \E r \in DOMAIN recipe : r.material = m
          /\ \A m \in rawTx[c].taken : rawStock[m] >= rawTx[c].needs[m]
    /\ \A c, d \in Requests : c # d /\ rawTx[c].pc = "batch" /\ rawTx[d].pc = "batch" =>
          rawTx[c].taken \cap rawTx[d].taken = {}

ProdInv == ProdTypes /\ Held

\* Amounts of some materials.
LEMMA SomeNeeds ==
    /\ \A n \in Needs : DOMAIN n \subseteq Materials /\ \A m \in DOMAIN n : n[m] \in Nat
    /\ \A S \in SUBSET Materials : \A n \in [S -> Nat] : n \in Needs
  BY DEF Needs

\* The kinds of requests are told apart by where they are.
LEMMA Kinds ==
    ASSUME NEW t \in Tx
    PROVE  /\ t.pc \in {"idle", "batch", "write", "create"}
           /\ t.pc = "batch" => t \in BatchTx
           /\ t.pc = "write" => t \in WriteTx
           /\ t.pc = "create" => t \in CreateTx
  BY DEF Tx, Free, BatchTx, WriteTx, CreateTx

\* A request that is over, or writes, or creates, holds nothing; the others hold what they did.
LEMMA OthersHold ==
    ASSUME ProdInv, NEW c \in Requests, NEW t \in Tx, rawTx' = [rawTx EXCEPT ![c] = t],
           t.pc = "batch" => /\ t.taken = {}
                             /\ \A m \in DOMAIN t.needs : \E r \in DOMAIN recipe : r.material = m,
           DOMAIN recipe \subseteq DOMAIN recipe',
           \A d \in Requests \ {c} : rawTx[d].pc = "batch" => \A m \in rawTx[d].taken : rawStock'[m] = rawStock[m]
    PROVE  rawTx' \in [Requests -> Tx] /\ Held'
  <1>1. /\ rawTx' \in [Requests -> Tx] /\ rawTx'[c] = t /\ \A d \in Requests \ {c} : rawTx'[d] = rawTx[d]
    BY DEF ProdInv, ProdTypes
  <1>2. ASSUME NEW d \in Requests, rawTx'[d].pc = "batch"
        PROVE  /\ rawTx'[d].taken \subseteq DOMAIN rawTx'[d].needs
               /\ \A m \in DOMAIN rawTx'[d].needs : \E r \in DOMAIN recipe' : r.material = m
               /\ \A m \in rawTx'[d].taken : rawStock'[m] >= rawTx'[d].needs[m]
    <2>1. CASE d = c  BY <1>1, <1>2, <2>1
    <2>2. CASE d # c  BY <1>1, <1>2, <2>2 DEF ProdInv, Held
    <2> QED  BY <2>1, <2>2
  <1>3. ASSUME NEW d \in Requests, NEW e \in Requests, d # e, rawTx'[d].pc = "batch", rawTx'[e].pc = "batch"
        PROVE  rawTx'[d].taken \cap rawTx'[e].taken = {}
    BY <1>1, <1>3 DEF ProdInv, Held
  <1> QED  BY <1>1, <1>2, <1>3 DEF Held

\* A material is created.
LEMMA CreateMaterialStep ==
    ASSUME ProductionAssumption, ProdInv, NEW c \in Requests, NEW m \in Materials, NEW s \in Int, CreateMaterial(c, m, s)
    PROVE  ProdInv'
  <1> DEFINE t == [pc |-> "create", material |-> m, change |-> s]
             u == IF s > 0 THEN t ELSE rawTx[c]
  <1>1. /\ ~InFlight(c) /\ material[m] = "new"
        /\ material' = [material EXCEPT ![m] = "live"] /\ rawStock' = [rawStock EXCEPT ![m] = s]
        /\ UNCHANGED <<rawLog, recipe, batches, made>>
    BY DEF CreateMaterial
  <1>2. rawTx' = [rawTx EXCEPT ![c] = u]
    BY DEF CreateMaterial, ProdInv, ProdTypes
  <1>3. u \in Tx /\ u.pc # "batch"
    <2>1. t \in CreateTx /\ t.pc = "create"  BY DEF CreateTx
    <2>2. rawTx[c] \in Tx /\ rawTx[c].pc # "batch"  BY <1>1 DEF ProdInv, ProdTypes, InFlight
    <2> HIDE DEF t
    <2> QED  BY <2>1, <2>2 DEF Tx
  <1> HIDE DEF u
  <1>4. \A d \in Requests \ {c} : rawTx[d].pc = "batch" => \A x \in rawTx[d].taken : rawStock'[x] = rawStock[x]
    <2> SUFFICES ASSUME NEW d \in Requests, rawTx[d].pc = "batch", NEW x \in rawTx[d].taken PROVE x # m
      BY <1>1 DEF ProdInv, ProdTypes
    <2>1. \E r \in DOMAIN recipe : r.material = x  BY DEF ProdInv, Held
    <2> QED  BY <1>1, <2>1 DEF ProdInv, ProdTypes
  <1>5. rawTx' \in [Requests -> Tx] /\ Held'
    <2>1. DOMAIN recipe \subseteq DOMAIN recipe'  BY <1>1
    <2> QED  BY <1>2, <1>3, <1>4, <2>1, OthersHold
  <1>6. ProdTypes'
    BY <1>1, <1>5 DEF ProdInv, ProdTypes, Recipes
  <1> QED  BY <1>5, <1>6 DEF ProdInv

\* The entry of its initial stock follows.
LEMMA LogCreationStep ==
    ASSUME ProductionAssumption, ProdInv, NEW c \in Requests, LogCreation(c)
    PROVE  ProdInv'
  <1> DEFINE t == rawTx[c]
             m == t.material
             e == Entry(t.change, 0, 0)
  <1>1. /\ rawTx[c].pc = "create" /\ rawTx' = [rawTx EXCEPT ![c] = Free]
        /\ UNCHANGED <<material, rawStock, recipe, batches, made>>
        /\ \/ material[m] = "live" /\ rawLog' = [rawLog EXCEPT ![m] = Append(rawLog[m], e)]
           \/ rawLog' = rawLog
    BY DEF LogCreation, Close
  <1>2. m \in Materials /\ e \in RawEntry
    <2>1. t \in CreateTx  BY <1>1, Kinds DEF ProdInv, ProdTypes
    <2> QED  BY <2>1 DEF CreateTx, Entry, RawEntry
  <1> HIDE DEF m, e
  <1>3. rawLog' \in [Materials -> Seq(RawEntry)] /\ \A x \in Materials : material[x] # "live" => rawLog'[x] = <<>>
    <2>1. rawLog \in [Materials -> Seq(RawEntry)] /\ \A x \in Materials : material[x] # "live" => rawLog[x] = <<>>
      BY DEF ProdInv, ProdTypes
    <2>2. Append(rawLog[m], e) \in Seq(RawEntry)  BY <1>2, <2>1
    <2> QED  BY <1>1, <1>2, <2>1, <2>2
  <1>4. rawTx' \in [Requests -> Tx] /\ Held'
    <2>1. Free \in Tx /\ Free.pc # "batch"  BY DEF Tx, Free
    <2> QED  BY <1>1, <2>1, OthersHold
  <1> QED  BY <1>1, <1>3, <1>4 DEF ProdInv, ProdTypes

\* A material is deleted: nothing that is under way needs it.
LEMMA DeleteMaterialStep ==
    ASSUME ProductionAssumption, ProdInv, NEW m \in Materials, DeleteMaterial(m)
    PROVE  ProdInv'
  <1>1. /\ \A r \in DOMAIN recipe : r.material # m
        /\ material' = [material EXCEPT ![m] = "gone"] /\ rawLog' = [rawLog EXCEPT ![m] = <<>>]
        /\ rawStock' = [rawStock EXCEPT ![m] = 0] /\ UNCHANGED <<recipe, batches, made, rawTx>>
    BY DEF DeleteMaterial, Deletable
  <1>2. ASSUME NEW c \in Requests, rawTx[c].pc = "batch", NEW x \in rawTx[c].taken
        PROVE  x \in Materials /\ rawStock'[x] = rawStock[x]
    <2>1. PICK r \in DOMAIN recipe : r.material = x  BY <1>2 DEF ProdInv, Held
    <2>2. x \in Materials  BY <2>1 DEF ProdInv, ProdTypes, Recipes
    <2> QED  BY <1>1, <2>1, <2>2 DEF ProdInv, ProdTypes
  <1>3. Held'
    BY <1>1, <1>2 DEF ProdInv, Held
  <1>4. ProdTypes'
    <2>1. rawLog' \in [Materials -> Seq(RawEntry)]
      BY <1>1 DEF ProdInv, ProdTypes
    <2>2. \A r \in DOMAIN recipe : r.material \in Materials  BY DEF ProdInv, ProdTypes, Recipes
    <2> QED  BY <1>1, <2>1, <2>2 DEF ProdInv, ProdTypes
  <1> QED  BY <1>3, <1>4 DEF ProdInv

\* A recipe is created or changed.
LEMMA RecipeStep ==
    ASSUME ProductionAssumption, ProdInv, NEW r \in Edited, NEW f \in RecipeForms, CreateRecipe(r, f) \/ UpdateRecipe(r, f)
    PROVE  ProdInv'
  <1>1. r \in Recipes /\ f \in RecipeForm  BY DEF ProductionAssumption
  <1>2. /\ UNCHANGED <<material, rawStock, rawLog, batches, made, rawTx>>
        /\ DOMAIN recipe' = DOMAIN recipe \cup {r} /\ material[r.material] = "live"
        /\ recipe' \in [DOMAIN recipe' -> RecipeForm]
    <2>1. CASE CreateRecipe(r, f)
      BY <1>1, <2>1 DEF CreateRecipe, ProdInv, ProdTypes
    <2>2. CASE UpdateRecipe(r, f)
      BY <1>1, <2>2 DEF UpdateRecipe, ProdInv, ProdTypes
    <2> QED  BY <2>1, <2>2
  <1>3. Held'
    BY <1>2 DEF ProdInv, Held
  <1>4. ProdTypes'
    BY <1>1, <1>2 DEF ProdInv, ProdTypes
  <1> QED  BY <1>3, <1>4 DEF ProdInv

\* What a batch of a product requires.
LEMMA RequirementsFit ==
    ASSUME ProductionAssumption, ProdInv, NEW g \in Goods, NEW n \in Nat \ {0}
    PROVE  /\ Requirements(g, n) \in Needs
           /\ \A m \in DOMAIN Requirements(g, n) : \E r \in DOMAIN recipe : r.material = m
  <1> DEFINE needed == {r.material : r \in ActiveRecipes(g)}
             A(m) == Required(recipe[[good |-> g, material |-> m]], n)
  <1>1. needed \subseteq Materials /\ \A m \in needed : \E r \in DOMAIN recipe : r.material = m
    BY DEF ActiveRecipes, ProdInv, ProdTypes, Recipes
  <1>2. ASSUME NEW m \in needed PROVE A(m) \in Nat
    <2> DEFINE q == [good |-> g, material |-> m]
               f == recipe[q]
    <2>1. q \in DOMAIN recipe
      <3>1. PICK r \in DOMAIN recipe : r.good = g /\ r.material = m  BY <1>2 DEF ActiveRecipes
      <3>2. r \in Recipes  BY DEF ProdInv, ProdTypes
      <3>3. r = q  BY <3>1, <3>2 DEF Recipes
      <3> QED  BY <3>3
    <2>2. f \in RecipeForm  BY <2>1 DEF ProdInv, ProdTypes
    <2> HIDE DEF f
    <2>3. f.quantity \in Nat /\ f.waste \in Nat  BY <2>2 DEF RecipeForm
    <2>4. f.quantity * n \in Nat /\ 100 + f.waste \in Nat  BY <2>3
    <2>5. f.quantity * n * (100 + f.waste) \in Nat  BY <2>4
    <2>6. Required(f, n) \in Nat  BY <2>5 DEF Required
    <2> QED  BY <2>6 DEF f
  <1>3. Requirements(g, n) = [m \in needed |-> A(m)]
    BY DEF Requirements
  <1> HIDE DEF A, needed
  <1>4. Requirements(g, n) \in [needed -> Nat]  BY <1>2, <1>3
  <1> QED  BY <1>1, <1>3, <1>4, SomeNeeds

\* A batch begins and has taken nothing.
LEMMA BatchBeginStep ==
    ASSUME ProductionAssumption, ProdInv, NEW c \in Requests, NEW g \in Goods, NEW n \in Amounts, BatchBegin(c, g, n)
    PROVE  ProdInv'
  <1> DEFINE t == [pc |-> "batch", good |-> g, quantity |-> n, needs |-> Requirements(g, n), taken |-> {}]
  <1>1. rawTx' = [rawTx EXCEPT ![c] = t] /\ UNCHANGED <<material, rawStock, rawLog, recipe, batches, made>>
    BY DEF BatchBegin
  <1>2. n \in Nat \ {0}  BY DEF ProductionAssumption
  <1>3. /\ Requirements(g, n) \in Needs
        /\ \A m \in DOMAIN Requirements(g, n) : \E r \in DOMAIN recipe : r.material = m
    BY <1>2, RequirementsFit
  <1>4. /\ t \in BatchTx /\ t.taken = {}
        /\ \A m \in DOMAIN t.needs : \E r \in DOMAIN recipe : r.material = m
    BY <1>2, <1>3 DEF BatchTx
  <1> HIDE DEF t
  <1>5. rawTx' \in [Requests -> Tx] /\ Held'
    <2>1. t \in Tx  BY <1>4 DEF Tx
    <2> QED  BY <1>1, <1>4, <2>1, OthersHold
  <1> QED  BY <1>1, <1>5 DEF ProdInv, ProdTypes

\* A batch takes a material that is still there, and not locked.
LEMMA DeductStep ==
    ASSUME ProductionAssumption, ProdInv, NEW c \in Requests, NEW m \in Materials, Deduct(c, m)
    PROVE  ProdInv'
  <1> DEFINE t == rawTx[c]
             v == [t EXCEPT !.taken = @ \cup {m}]
  <1>1. /\ rawTx[c].pc = "batch" /\ m \in DOMAIN t.needs \ t.taken /\ ~RowLocked(m, c)
        /\ UNCHANGED <<material, rawStock, rawLog, recipe, batches, made>>
        /\ \/ rawStock[m] >= t.needs[m] /\ rawTx' = [rawTx EXCEPT ![c] = v]
           \/ rawTx' = [rawTx EXCEPT ![c] = Free]
    BY DEF Deduct, Close, StillThere
  <1>2. t \in BatchTx /\ t = rawTx[c]  BY <1>1, Kinds DEF ProdInv, ProdTypes
  <1> HIDE DEF t
  <1>3. v \in BatchTx /\ v.taken = t.taken \cup {m} /\ v.needs = t.needs /\ v.pc = "batch"
    BY <1>2 DEF BatchTx
  <1> HIDE DEF v
  <1>4. CASE rawTx' = [rawTx EXCEPT ![c] = Free]
    <2>1. rawTx' \in [Requests -> Tx] /\ Held'
      <3>1. Free \in Tx /\ Free.pc # "batch"  BY DEF Tx, Free
      <3> QED  BY <1>1, <1>4, <3>1, OthersHold
    <2> QED  BY <1>1, <2>1 DEF ProdInv, ProdTypes
  <1>5. CASE rawStock[m] >= t.needs[m] /\ rawTx' = [rawTx EXCEPT ![c] = v]
    <2>1. /\ rawTx' \in [Requests -> Tx] /\ rawTx'[c] = v /\ \A d \in Requests \ {c} : rawTx'[d] = rawTx[d]
      BY <1>3, <1>5 DEF ProdInv, ProdTypes, Tx
    <2>2. \A d \in Requests \ {c} : rawTx[d].pc = "batch" => m \notin rawTx[d].taken
      BY <1>1 DEF RowLocked
    <2>3. ASSUME NEW d \in Requests, rawTx'[d].pc = "batch"
          PROVE  /\ rawTx'[d].taken \subseteq DOMAIN rawTx'[d].needs
                 /\ \A x \in DOMAIN rawTx'[d].needs : \E r \in DOMAIN recipe' : r.material = x
                 /\ \A x \in rawTx'[d].taken : rawStock'[x] >= rawTx'[d].needs[x]
      <3>1. CASE d = c
        <4>1. /\ t.taken \subseteq DOMAIN t.needs
              /\ \A x \in DOMAIN t.needs : \E r \in DOMAIN recipe : r.material = x
              /\ \A x \in t.taken : rawStock[x] >= t.needs[x]
          BY <1>1, <1>2 DEF ProdInv, Held
        <4> QED  BY <1>1, <1>3, <1>5, <2>1, <3>1, <4>1
      <3>2. CASE d # c  BY <1>1, <2>1, <2>3, <3>2 DEF ProdInv, Held
      <3> QED  BY <3>1, <3>2
    <2>4. ASSUME NEW d \in Requests, NEW e \in Requests, d # e, rawTx'[d].pc = "batch", rawTx'[e].pc = "batch"
          PROVE  rawTx'[d].taken \cap rawTx'[e].taken = {}
      <3>1. \A x \in Requests \ {c} : rawTx[x].pc = "batch" => t.taken \cap rawTx[x].taken = {}
        BY <1>1, <1>2 DEF ProdInv, Held
      <3>2. CASE d # c /\ e # c  BY <2>1, <2>4, <3>2 DEF ProdInv, Held
      <3>3. CASE d = c  BY <1>3, <2>1, <2>2, <2>4, <3>1, <3>3
      <3>4. CASE e = c  BY <1>3, <2>1, <2>2, <2>4, <3>1, <3>4
      <3> QED  BY <3>2, <3>3, <3>4
    <2>5. Held'  BY <2>3, <2>4 DEF Held
    <2> QED  BY <1>1, <2>1, <2>5 DEF ProdInv, ProdTypes
  <1> QED  BY <1>1, <1>4, <1>5

\* A request is given up: a batch that runs short or waits in a circle, or a commit that fails.
LEMMA GivenUp ==
    ASSUME ProdInv, NEW c \in Requests, Close(c), UNCHANGED <<material, rawStock, rawLog, recipe, batches, made>>
    PROVE  ProdInv'
  <1>1. rawTx' \in [Requests -> Tx] /\ Held'
    <2>1. Free \in Tx /\ Free.pc # "batch"  BY DEF Tx, Free
    <2> QED  BY <2>1, OthersHold DEF Close
  <1> QED  BY <1>1 DEF ProdInv, ProdTypes

\* Requests that will write what they compute from the stock.
LEMMA WillWriteStep ==
    ASSUME ProdInv, NEW c \in Requests, NEW m \in Materials, NEW d \in Int, NEW i \in Nat, WillWrite(c, m, d, i),
           UNCHANGED <<material, rawStock, rawLog, recipe, batches, made>>
    PROVE  ProdInv'
  <1> DEFINE t == [pc |-> "write", material |-> m, read |-> rawStock[m], change |-> d, reversalOf |-> i]
  <1>1. rawTx' = [rawTx EXCEPT ![c] = t]  BY DEF WillWrite
  <1>2. t \in WriteTx /\ t.pc # "batch"  BY DEF WriteTx, ProdInv, ProdTypes
  <1> HIDE DEF t
  <1>3. rawTx' \in [Requests -> Tx] /\ Held'
    <2>1. t \in Tx  BY <1>2 DEF Tx
    <2> QED  BY <1>1, <1>2, <2>1, OthersHold
  <1> QED  BY <1>3 DEF ProdInv, ProdTypes

\* A log in which an entry is marked has the types, the length and the changes that it had.
LEMMA MarkedLog ==
    ASSUME NEW log \in Seq(RawEntry), NEW i \in Nat
    PROVE  /\ Marked(log, i) \in Seq(RawEntry) /\ Len(Marked(log, i)) = Len(log)
           /\ \A j \in DOMAIN log : /\ Marked(log, i)[j].change = log[j].change
                                    /\ Marked(log, i)[j].batch = log[j].batch
  <1> DEFINE E(j) == IF j = i THEN [log[j] EXCEPT !.reversed = TRUE] ELSE log[j]
             M == Marked(log, i)
  <1>1. DOMAIN log = 1 .. Len(log) /\ Len(log) \in Nat  OBVIOUS
  <1>2. ASSUME NEW j \in DOMAIN log
        PROVE  E(j) \in RawEntry /\ E(j).change = log[j].change /\ E(j).batch = log[j].batch
    <2> DEFINE u == log[j]
    <2>1. u \in RawEntry /\ u = log[j]  BY <1>1, <1>2
    <2> HIDE DEF u
    <2>2. [u EXCEPT !.reversed = TRUE] \in RawEntry /\ [u EXCEPT !.reversed = TRUE].change = u.change
          /\ [u EXCEPT !.reversed = TRUE].batch = u.batch
      BY <2>1 DEF RawEntry
    <2>3. CASE j = i
      <3>1. E(j) = [u EXCEPT !.reversed = TRUE]  BY <2>1, <2>3
      <3> QED  BY <2>1, <2>2, <3>1
    <2>4. CASE j # i
      <3>1. E(j) = u  BY <2>1, <2>4
      <3> QED  BY <2>1, <3>1
    <2> QED  BY <2>3, <2>4
  <1>3. M = [j \in DOMAIN log |-> E(j)]  BY DEF Marked
  <1> HIDE DEF E
  <1>4. M = [j \in 1 .. Len(log) |-> E(j)]  BY <1>1, <1>3
  <1>5. M \in [1 .. Len(log) -> RawEntry]  BY <1>1, <1>2, <1>4
  <1>6. M \in Seq(RawEntry) /\ Len(M) = Len(log)  BY <1>1, <1>5
  <1> QED  BY <1>2, <1>3, <1>6

\* An adjustment or a reversal is written, to a row that no batch has locked.
LEMMA WriteCommitStep ==
    ASSUME ProductionAssumption, ProdInv, NEW c \in Requests, WriteCommit(c)
    PROVE  ProdInv'
  <1> DEFINE t == rawTx[c]
             m == t.material
             i == t.reversalOf
             w == Written(t)
             e == Entry(t.change, 0, i)
  <1>1. /\ rawTx[c].pc = "write" /\ ~RowLocked(m, c) /\ rawTx' = [rawTx EXCEPT ![c] = Free]
        /\ UNCHANGED <<material, recipe, batches, made>>
        /\ \/ /\ material[m] = "live" /\ rawStock' = [rawStock EXCEPT ![m] = w]
              /\ rawLog' = [rawLog EXCEPT ![m] = Append(Marked(rawLog[m], i), e)]
           \/ UNCHANGED <<rawStock, rawLog>>
    BY DEF WriteCommit, Close
  <1>2. m \in Materials /\ i \in Nat /\ w \in Int /\ e \in RawEntry
    <2>1. t \in WriteTx  BY <1>1, Kinds DEF ProdInv, ProdTypes
    <2> QED  BY <2>1 DEF WriteTx, Written, Entry, RawEntry
  <1> HIDE DEF t, m, i, w, e
  <1>3. /\ rawLog' \in [Materials -> Seq(RawEntry)] /\ rawStock' \in [Materials -> Int]
        /\ \A x \in Materials : material[x] # "live" => rawLog'[x] = <<>>
    <2>1. /\ rawLog \in [Materials -> Seq(RawEntry)] /\ rawStock \in [Materials -> Int]
          /\ \A x \in Materials : material[x] # "live" => rawLog[x] = <<>>
      BY DEF ProdInv, ProdTypes
    <2>2. Append(Marked(rawLog[m], i), e) \in Seq(RawEntry)
      <3>1. Marked(rawLog[m], i) \in Seq(RawEntry)  BY <1>2, <2>1, MarkedLog
      <3> QED  BY <1>2, <3>1
    <2> QED  BY <1>1, <1>2, <2>1, <2>2
  <1>4. \A d \in Requests \ {c} : rawTx[d].pc = "batch" => \A x \in rawTx[d].taken : rawStock'[x] = rawStock[x]
    <2> SUFFICES ASSUME NEW d \in Requests \ {c}, rawTx[d].pc = "batch", NEW x \in rawTx[d].taken
                 PROVE  rawStock'[x] = rawStock[x]
      OBVIOUS
    <2>1. x # m  BY <1>1 DEF RowLocked
    <2>2. x \in Materials
      <3>1. rawTx[d] \in BatchTx  BY Kinds DEF ProdInv, ProdTypes
      <3> QED  BY <3>1 DEF BatchTx
    <2> QED  BY <1>1, <1>2, <2>1, <2>2 DEF ProdInv, ProdTypes
  <1>5. rawTx' \in [Requests -> Tx] /\ Held'
    <2>1. Free \in Tx /\ Free.pc # "batch" /\ DOMAIN recipe \subseteq DOMAIN recipe'  BY <1>1 DEF Tx, Free
    <2> QED  BY <1>1, <1>4, <2>1, OthersHold
  <1> QED  BY <1>1, <1>3, <1>5 DEF ProdInv, ProdTypes

\* What a batch that commits writes.
LEMMA Committed ==
    ASSUME ProductionAssumption, ProdInv, NEW c \in Requests, BatchCommit(c)
    PROVE  LET t == rawTx[c]
               n == Len(batches) + 1
           IN  /\ t \in BatchTx /\ t.taken = DOMAIN t.needs /\ t.needs \in Needs
               /\ rawTx' = [rawTx EXCEPT ![c] = Free] /\ UNCHANGED <<material, recipe>>
               /\ batches' = Append(batches, [good |-> t.good, quantity |-> t.quantity, needs |-> t.needs])
               /\ \A m \in DOMAIN t.needs : m \in Materials /\ t.needs[m] \in Nat /\ material[m] = "live"
                                            /\ rawStock[m] >= t.needs[m]
               /\ rawStock' = [m \in Materials |->
                                 IF m \in DOMAIN t.needs THEN rawStock[m] - t.needs[m] ELSE rawStock[m]]
               /\ rawLog' = [m \in Materials |->
                               IF m \in DOMAIN t.needs THEN Append(rawLog[m], Entry(-t.needs[m], n, 0))
                               ELSE rawLog[m]]
               /\ made' = [made EXCEPT ![t.good] = Append(made[t.good], [change |-> t.quantity, batch |-> n])]
  <1> DEFINE t == rawTx[c]
  <1>1. t.pc = "batch" /\ t.taken = DOMAIN t.needs /\ t = rawTx[c]  BY DEF BatchCommit
  <1>2. t \in BatchTx  BY <1>1, Kinds DEF ProdInv, ProdTypes
  <1>3. t.needs \in Needs  BY <1>2 DEF BatchTx
  <1>4. \A m \in DOMAIN t.needs : m \in Materials /\ t.needs[m] \in Nat
    BY <1>3, SomeNeeds
  <1>5. \A m \in DOMAIN t.needs : material[m] = "live" /\ rawStock[m] >= t.needs[m]
    <2>1. /\ \A m \in DOMAIN t.needs : \E r \in DOMAIN recipe : r.material = m
          /\ \A m \in t.taken : rawStock[m] >= t.needs[m]
      BY <1>1 DEF ProdInv, Held
    <2>2. \A r \in DOMAIN recipe : material[r.material] = "live"  BY DEF ProdInv, ProdTypes
    <2> HIDE DEF t
    <2> QED  BY <1>1, <2>1, <2>2
  <1>6. /\ rawTx' = [rawTx EXCEPT ![c] = Free] /\ UNCHANGED <<material, recipe>>
        /\ batches' = Append(batches, [good |-> t.good, quantity |-> t.quantity, needs |-> t.needs])
        /\ made' = [made EXCEPT ![t.good] = Append(made[t.good], [change |-> t.quantity, batch |-> Len(batches) + 1])]
    BY DEF BatchCommit, Close, Output
  <1>7. /\ rawStock' = [m \in Materials |-> IF m \in t.taken THEN rawStock[m] - t.needs[m] ELSE rawStock[m]]
        /\ rawLog' = [m \in Materials |->
                               IF m \in t.taken THEN Append(rawLog[m], Entry(-t.needs[m], Len(batches) + 1, 0))
                               ELSE rawLog[m]]
    BY DEF BatchCommit
  <1> HIDE DEF t
  <1>8. t \in BatchTx /\ t.taken = DOMAIN t.needs /\ t.needs \in Needs  BY <1>1, <1>2, <1>3
  <1>9. /\ rawStock' = [m \in Materials |->
                                 IF m \in DOMAIN t.needs THEN rawStock[m] - t.needs[m] ELSE rawStock[m]]
        /\ rawLog' = [m \in Materials |->
                               IF m \in DOMAIN t.needs THEN Append(rawLog[m], Entry(-t.needs[m], Len(batches) + 1, 0))
                               ELSE rawLog[m]]
    BY <1>1, <1>7
  <1> QED  BY <1>4, <1>5, <1>6, <1>8, <1>9 DEF t

\* A batch commits: the other batches have taken other materials.
LEMMA BatchCommitStep ==
    ASSUME ProductionAssumption, ProdInv, NEW c \in Requests, BatchCommit(c)
    PROVE  ProdInv'
  <1> DEFINE t == rawTx[c]
             n == Len(batches) + 1
             b == [good |-> t.good, quantity |-> t.quantity, needs |-> t.needs]
             g == t.good
             o == [change |-> t.quantity, batch |-> n]
             L(m) == Entry(-t.needs[m], n, 0)
  <1>1. /\ t \in BatchTx /\ t.taken = DOMAIN t.needs /\ t.needs \in Needs /\ t.pc = "batch"
        /\ rawTx' = [rawTx EXCEPT ![c] = Free] /\ UNCHANGED <<material, recipe>>
        /\ batches' = Append(batches, b)
        /\ \A m \in DOMAIN t.needs : m \in Materials /\ t.needs[m] \in Nat /\ material[m] = "live"
        /\ rawStock' = [m \in Materials |->
                          IF m \in DOMAIN t.needs THEN rawStock[m] - t.needs[m] ELSE rawStock[m]]
        /\ rawLog' = [m \in Materials |->
                        IF m \in DOMAIN t.needs THEN Append(rawLog[m], L(m)) ELSE rawLog[m]]
        /\ made' = [made EXCEPT ![g] = Append(made[g], o)]
    BY Committed DEF BatchCommit
  <1>2. batches \in Seq(Batch) /\ n \in Nat \ {0} /\ Len(batches) \in Nat  BY DEF ProdInv, ProdTypes
  <1>3. /\ b \in Batch /\ g \in Goods /\ o \in GoodEntry(n)
        /\ \A m \in DOMAIN t.needs : L(m) \in RawEntry
    BY <1>1, <1>2 DEF BatchTx, Batch, GoodEntry, Entry, RawEntry
  <1>t. t = rawTx[c]  OBVIOUS
  <1> HIDE DEF t, b, g, o, L
  <1>4. batches' \in Seq(Batch) /\ Len(batches') = n
    BY <1>1, <1>2, <1>3
  <1>5. rawStock' \in [Materials -> Int]
    BY <1>1 DEF ProdInv, ProdTypes
  <1>6. rawLog' \in [Materials -> Seq(RawEntry)] /\ \A x \in Materials : material[x] # "live" => rawLog'[x] = <<>>
    <2>1. /\ rawLog \in [Materials -> Seq(RawEntry)]
          /\ \A x \in Materials : material[x] # "live" => rawLog[x] = <<>>
      BY DEF ProdInv, ProdTypes
    <2>2. \A m \in DOMAIN t.needs : Append(rawLog[m], L(m)) \in Seq(RawEntry)
      BY <1>1, <1>3, <2>1
    <2> QED  BY <1>1, <2>1, <2>2
  <1>7. made' \in [Goods -> Seq(GoodEntry(n))]
    <2>1. made \in [Goods -> Seq(GoodEntry(Len(batches)))]  BY DEF ProdInv, ProdTypes
    <2>2. GoodEntry(Len(batches)) \subseteq GoodEntry(n)  BY <1>2 DEF GoodEntry
    <2>3. \A x \in Goods : made[x] \in Seq(GoodEntry(n))  BY <2>1, <2>2
    <2>4. Append(made[g], o) \in Seq(GoodEntry(n))  BY <1>3, <2>3
    <2> QED  BY <1>1, <1>3, <2>1, <2>3, <2>4
  <1>8. rawTx' \in [Requests -> Tx] /\ Held'
    <2>1. Free \in Tx /\ Free.pc # "batch" /\ DOMAIN recipe \subseteq DOMAIN recipe'  BY <1>1 DEF Tx, Free
    <2>2. \A d \in Requests \ {c} : rawTx[d].pc = "batch" => \A x \in rawTx[d].taken : rawStock'[x] = rawStock[x]
      <3> SUFFICES ASSUME NEW d \in Requests \ {c}, rawTx[d].pc = "batch", NEW x \in rawTx[d].taken
                   PROVE  rawStock'[x] = rawStock[x]
        OBVIOUS
      <3>1. x \notin DOMAIN t.needs  BY <1>1, <1>t DEF ProdInv, Held
      <3>2. x \in Materials
        <4>1. rawTx[d] \in BatchTx  BY Kinds DEF ProdInv, ProdTypes
        <4> QED  BY <4>1 DEF BatchTx
      <3> QED  BY <1>1, <3>1, <3>2
    <2> QED  BY <1>1, <2>1, <2>2, OthersHold
  <1> QED  BY <1>1, <1>4, <1>5, <1>6, <1>7, <1>8 DEF ProdInv, ProdTypes

\* The server stops.
LEMMA ProdCrashStep ==
    ASSUME ProdInv, ProdCrash
    PROVE  ProdInv'
  <1>1. rawTx' = [c \in Requests |-> Free] /\ UNCHANGED <<material, rawStock, rawLog, recipe, batches, made>>
    BY DEF ProdCrash
  <1>2. Free \in Tx /\ Free.pc # "batch"  BY DEF Tx, Free
  <1> QED  BY <1>1, <1>2 DEF ProdInv, ProdTypes, Held

\* The adjustments, the form and the reversals begin.
LEMMA WriteBegins ==
    ASSUME ProductionAssumption, ProdInv, NEW c \in Requests, NEW m \in Materials,
           \/ \E d \in Amounts : \/ AdjustRaw(c, m, d) \/ AdjustRaw(c, m, -d)
                                 \/ SubmitRawForm(c, m, d) \/ SubmitRawForm(c, m, -d)
           \/ \E i \in DOMAIN rawLog[m] : ReverseRaw(c, m, i)
    PROVE  ProdInv'
  <1>1. Amounts \subseteq Nat  BY DEF ProductionAssumption
  <1>2. ASSUME NEW d \in Int, AdjustRaw(c, m, d) \/ SubmitRawForm(c, m, d)
        PROVE  ProdInv'
    <2>1. WillWrite(c, m, d, 0) /\ UNCHANGED <<material, rawStock, rawLog, recipe, batches, made>>
      BY <1>2 DEF AdjustRaw, SubmitRawForm
    <2> QED  BY <2>1, WillWriteStep
  <1>3. ASSUME NEW i \in DOMAIN rawLog[m], ReverseRaw(c, m, i)
        PROVE  ProdInv'
    <2> DEFINE d == -rawLog[m][i].change
    <2>1. WillWrite(c, m, d, i) /\ UNCHANGED <<material, rawStock, rawLog, recipe, batches, made>>
      BY <1>3 DEF ReverseRaw
    <2>2. rawLog[m] \in Seq(RawEntry)  BY DEF ProdInv, ProdTypes
    <2>3. i \in Nat /\ rawLog[m][i] \in RawEntry  BY <2>2
    <2>4. d \in Int  BY <2>3 DEF RawEntry
    <2> HIDE DEF d
    <2> QED  BY <2>1, <2>3, <2>4, WillWriteStep
  <1>4. \A d \in Amounts : d \in Int /\ -d \in Int  BY <1>1
  <1> QED  BY <1>2, <1>3, <1>4

\* The invariant holds at the start.
LEMMA ProdStarts ==
    ASSUME ProductionAssumption, ProdInit
    PROVE  ProdInv
  <1>1. /\ InitialRaw \in [Materials -> Nat] /\ RecipeForms \subseteq RecipeForm
        /\ DOMAIN recipe \subseteq Recipes /\ recipe \in [DOMAIN recipe -> RecipeForms]
        /\ \A r \in DOMAIN recipe : InitialRaw[r.material] > 0
    BY DEF ProductionAssumption, ProdInit
  <1>2. \A r \in DOMAIN recipe : r.material \in Materials  BY <1>1 DEF Recipes
  <1>3. rawLog \in [Materials -> Seq(RawEntry)]
    <2>1. \A n \in Nat : Entry(n, 0, 0) \in RawEntry  BY DEF Entry, RawEntry
    <2>2. \A n \in Nat : <<Entry(n, 0, 0)>> \in Seq(RawEntry)  BY <2>1
    <2>3. <<>> \in Seq(RawEntry)  OBVIOUS
    <2> QED  BY <1>1, <2>2, <2>3 DEF ProdInit
  <1>4. /\ batches \in Seq(Batch) /\ made \in [Goods -> Seq(GoodEntry(Len(batches)))]
    BY DEF ProdInit
  <1>5. rawTx \in [Requests -> Tx] /\ \A c \in Requests : rawTx[c].pc # "batch"
    <2>1. Free \in Tx /\ Free.pc # "batch"  BY DEF Tx, Free
    <2> QED  BY <2>1 DEF ProdInit
  <1>6. Held  BY <1>5 DEF Held
  <1>7. recipe \in [DOMAIN recipe -> RecipeForm]  BY <1>1
  <1>8. /\ material \in [Materials -> {"new", "live", "gone"}]
        /\ rawStock \in [Materials -> Int]
        /\ \A r \in DOMAIN recipe : material[r.material] = "live"
        /\ \A m \in Materials : material[m] # "live" => rawLog[m] = <<>>
    BY <1>1, <1>2 DEF ProdInit
  <1> QED  BY <1>1, <1>3, <1>4, <1>5, <1>6, <1>7, <1>8 DEF ProdInv, ProdTypes

\* Every step keeps it.
LEMMA ProdStep ==
    ASSUME ProductionAssumption, ProdInv, ProdNext
    PROVE  ProdInv'
  <1>1. ASSUME NEW c \in Requests, ProdServer(c) PROVE ProdInv'
    <2>1. CASE DeadlockVictim(c)
      BY <2>1, GivenUp DEF DeadlockVictim
    <2> QED
      BY <1>1, <2>1, LogCreationStep, WriteCommitStep, BatchCommitStep, DeductStep DEF ProdServer
  <1>2. ASSUME NEW c \in Requests, ProdUser(c) PROVE ProdInv'
    <2>1. ASSUME NEW m \in Materials, NEW s \in Amounts, CreateMaterial(c, m, s) \/ CreateMaterial(c, m, -s)
          PROVE  ProdInv'
      <3>1. s \in Int /\ -s \in Int  BY DEF ProductionAssumption
      <3> QED  BY <2>1, <3>1, CreateMaterialStep
    <2>2. ASSUME NEW g \in Goods, NEW n \in Amounts, BatchBegin(c, g, n) PROVE ProdInv'
      BY <2>2, BatchBeginStep
    <2> QED  BY <1>2, <2>1, <2>2, WriteBegins DEF ProdUser
  <1>3. ASSUME NEW m \in Materials, DeleteMaterial(m) PROVE ProdInv'
    BY <1>3, DeleteMaterialStep
  <1>4. ASSUME NEW r \in Edited, NEW f \in RecipeForms, CreateRecipe(r, f) \/ UpdateRecipe(r, f) PROVE ProdInv'
    BY <1>4, RecipeStep
  <1>5. CASE ProdCrash  BY <1>5, ProdCrashStep
  <1> QED  BY <1>1, <1>2, <1>3, <1>4, <1>5 DEF ProdNext

\* The invariant holds in every state.
LEMMA ProdAlways == ProdSpec => []ProdInv
  <1>1. ProdInv /\ UNCHANGED prodVars => ProdInv'
    BY DEF prodVars, ProdInv, ProdTypes, Held
  <1>2. ProdInv /\ [ProdNext]_prodVars => ProdInv'
    BY <1>1, ProdStep, ProductionAssumption
  <1> QED  BY <1>2, ProdStarts, ProductionAssumption, PTL DEF ProdSpec

\* Materials, stocks, logs, recipes, batches and requests keep their types; a recipe's material
\* exists, and only an existing one has a log.
THEOREM ProdTypeCorrect == ProdSpec => []ProdTypeOK
  <1>1. ASSUME ProdInv PROVE ProdTypeOK
    <2>1. Range(recipe) \subseteq RecipeForm  BY <1>1 DEF ProdInv, ProdTypes, Range
    <2>2. ASSUME NEW b \in DOMAIN batches PROVE IsBatch(batches[b])
      <3> DEFINE u == batches[b]
      <3>1. u \in Batch  BY <1>1 DEF ProdInv, ProdTypes
      <3> HIDE DEF u
      <3>2. u.good \in Goods /\ u.quantity \in Nat \ {0} /\ u.needs \in Needs  BY <3>1 DEF Batch
      <3>3. DOMAIN u.needs \subseteq Materials /\ \A m \in DOMAIN u.needs : u.needs[m] \in Nat
        BY <3>2, SomeNeeds
      <3>4. Range(u.needs) \subseteq Nat  BY <3>3 DEF Range
      <3>5. IsBatch(u)  BY <3>2, <3>3, <3>4 DEF IsBatch
      <3> QED  BY <3>5 DEF u
    <2>3. \A c \in Requests : rawTx[c].pc \in {"idle", "batch", "write", "create"}
      BY <1>1, Kinds DEF ProdInv, ProdTypes
    <2>4. made \in [Goods -> Seq([change : Nat, batch : 1 .. Len(batches)])]
      BY <1>1 DEF ProdInv, ProdTypes, GoodEntry
    <2> QED  BY <1>1, <2>1, <2>2, <2>3, <2>4 DEF ProdInv, ProdTypes, ProdTypeOK
  <1> QED  BY <1>1, ProdAlways, PTL

\* Only a request that checks nothing takes a stock below zero.
LEMMA Overdraws ==
    ASSUME ProductionAssumption, ProdInv, ProdNext
    PROVE  OnlyUncheckedOverdraw
  <1> SUFFICES ASSUME NEW m \in Materials, rawStock'[m] < 0, rawStock'[m] < rawStock[m], material[m] = "live"
               PROVE  /\ batches' = batches
                      /\ \E c \in Requests : /\ rawTx[c].pc = "write" /\ rawTx[c].material = m
                                             /\ rawTx[c].read + rawTx[c].change < 0
    BY DEF OnlyUncheckedOverdraw
  <1>1. rawStock \in [Materials -> Int]  BY DEF ProdInv, ProdTypes
  <1>2. ~(rawStock' = rawStock)  BY <1>1
  <1>3. ASSUME NEW c \in Requests PROVE ~BatchCommit(c)
    <2> SUFFICES ASSUME BatchCommit(c) PROVE FALSE
      OBVIOUS
    <2> DEFINE t == rawTx[c]
    <2>1. /\ \A x \in DOMAIN t.needs : t.needs[x] \in Nat /\ rawStock[x] >= t.needs[x]
          /\ rawStock' = [x \in Materials |->
                            IF x \in DOMAIN t.needs THEN rawStock[x] - t.needs[x] ELSE rawStock[x]]
      BY Committed
    <2> HIDE DEF t
    <2> QED  BY <1>1, <2>1
  <1>4. ASSUME NEW x \in Materials, DeleteMaterial(x) PROVE FALSE
    BY <1>1, <1>4 DEF DeleteMaterial
  <1>5. ASSUME NEW c \in Requests, NEW x \in Materials, NEW s, CreateMaterial(c, x, s) PROVE FALSE
    BY <1>1, <1>5 DEF CreateMaterial
  <1>6. ASSUME NEW c \in Requests, WriteCommit(c)
        PROVE  /\ batches' = batches
               /\ rawTx[c].pc = "write" /\ rawTx[c].material = m /\ rawTx[c].read + rawTx[c].change < 0
    <2> DEFINE x == rawTx[c].material
               w == rawTx[c].read + rawTx[c].change
    <2>1. rawTx[c].pc = "write" /\ batches' = batches
          /\ (rawStock' = [rawStock EXCEPT ![x] = w] \/ rawStock' = rawStock)
      BY <1>6 DEF WriteCommit, Written
    <2> HIDE DEF x, w
    <2>2. x = m /\ w < 0  BY <1>1, <1>2, <2>1
    <2> QED  BY <2>1, <2>2 DEF x, w
  <1>7. PICK c \in Requests : ProdServer(c) \/ ProdUser(c)
    BY <1>2, <1>4 DEF ProdNext, CreateRecipe, UpdateRecipe, ProdCrash
  <1>8. CASE ProdServer(c)
    BY <1>2, <1>3, <1>6, <1>8 DEF ProdServer, LogCreation, DeadlockVictim, Deduct
  <1>9. CASE ProdUser(c)
    BY <1>2, <1>5, <1>9 DEF ProdUser, BatchBegin, AdjustRaw, SubmitRawForm, ReverseRaw
  <1> QED  BY <1>7, <1>8, <1>9

\* A batch or a checked adjustment never overdraws a material, whatever the others have taken
\* since its check.
THEOREM ChecksLeaveStock == ProdSpec => CheckedTakesLeaveStock
  <1>1. ProdInv /\ [ProdNext]_prodVars => [OnlyUncheckedOverdraw]_prodVars
    BY Overdraws, ProductionAssumption
  <1> QED  BY <1>1, ProdAlways, PTL DEF ProdSpec, CheckedTakesLeaveStock

-----------------------------------------------------------------------------
(* A batch in all its tables or in none, entry by entry. *)

\* A log has one entry of batch b, with the change x; or it has none.
OneEntry(log, b, x) == \E i \in DOMAIN log : /\ log[i].batch = b /\ log[i].change = x
                                             /\ \A j \in DOMAIN log : log[j].batch = b => j = i
NoEntry(log, b)     == \A i \in DOMAIN log : log[i].batch # b

\* Every batch has one entry for each material that it needs, with the amount of its snapshot,
\* and one for its product, with the quantity that it made, and no entry is of a batch that
\* there is not: what BatchWhole says of the sums.
BatchRecorded ==
    /\ \A m \in Materials : \A i \in DOMAIN rawLog[m] : rawLog[m][i].batch <= Len(batches)
    /\ \A b \in DOMAIN batches :
          /\ \A m \in Materials : IF m \in DOMAIN batches[b].needs
                                  THEN OneEntry(rawLog[m], b, -batches[b].needs[m])
                                  ELSE NoEntry(rawLog[m], b)
          /\ \A g \in Goods : IF g = batches[b].good
                              THEN OneEntry(made[g], b, batches[b].quantity)
                              ELSE NoEntry(made[g], b)

\* What keeps it: the recipes of a batch stay, so that its materials are not deleted.
RecordedInv ==
    /\ BatchRecorded
    /\ \A b \in DOMAIN batches : \A m \in DOMAIN batches[b].needs : \E r \in DOMAIN recipe : r.material = m

\* An entry of another batch changes neither; one of the batch makes it one.
LEMMA AppendedEntry ==
    ASSUME NEW T, NEW log \in Seq(T), NEW e \in T, NEW b, NEW x
    PROVE  /\ e.batch # b /\ OneEntry(log, b, x) => OneEntry(Append(log, e), b, x)
           /\ e.batch # b /\ NoEntry(log, b) => NoEntry(Append(log, e), b)
           /\ e.batch = b /\ e.change = x /\ NoEntry(log, b) => OneEntry(Append(log, e), b, x)
  <1> DEFINE n == Len(log)
             A == Append(log, e)
  <1>1. /\ n \in Nat /\ DOMAIN log = 1 .. n /\ DOMAIN A = 1 .. (n + 1) /\ A[n + 1] = e
        /\ \A i \in 1 .. n : A[i] = log[i]
    OBVIOUS
  <1> HIDE DEF n, A
  <1>2. ASSUME e.batch # b, OneEntry(log, b, x) PROVE OneEntry(A, b, x)
    <2>1. PICK i \in DOMAIN log : /\ log[i].batch = b /\ log[i].change = x
                                  /\ \A j \in DOMAIN log : log[j].batch = b => j = i
      BY <1>2 DEF OneEntry
    <2>2. i \in DOMAIN A /\ A[i].batch = b /\ A[i].change = x /\ \A j \in DOMAIN A : A[j].batch = b => j = i
      BY <1>1, <1>2, <2>1
    <2> QED  BY <2>2 DEF OneEntry
  <1>3. ASSUME e.batch # b, NoEntry(log, b) PROVE NoEntry(A, b)
    BY <1>1, <1>3 DEF NoEntry
  <1>4. ASSUME e.batch = b, e.change = x, NoEntry(log, b) PROVE OneEntry(A, b, x)
    <2>1. n + 1 \in DOMAIN A /\ A[n + 1].batch = b /\ A[n + 1].change = x
          /\ \A j \in DOMAIN A : A[j].batch = b => j = n + 1
      BY <1>1, <1>4 DEF NoEntry
    <2> QED  BY <2>1 DEF OneEntry
  <1> QED  BY <1>2, <1>3, <1>4 DEF A

\* A mark changes neither.
LEMMA MarkedEntry ==
    ASSUME NEW log \in Seq(RawEntry), NEW i \in Nat, NEW b, NEW x
    PROVE  /\ OneEntry(log, b, x) => OneEntry(Marked(log, i), b, x)
           /\ NoEntry(log, b) => NoEntry(Marked(log, i), b)
  <1> DEFINE M == Marked(log, i)
  <1>1. /\ M \in Seq(RawEntry) /\ Len(M) = Len(log)
        /\ \A j \in DOMAIN log : M[j].change = log[j].change /\ M[j].batch = log[j].batch
    BY MarkedLog
  <1> HIDE DEF M
  <1>2. DOMAIN M = DOMAIN log  BY <1>1
  <1> QED  BY <1>1, <1>2 DEF OneEntry, NoEntry, M

\* An entry of no batch is written to the log of a material.
LEMMA LogEntryKeeps ==
    ASSUME ProdInv, RecordedInv, NEW m \in Materials, NEW e \in RawEntry, e.batch = 0, NEW i \in Nat,
           rawLog' = [rawLog EXCEPT ![m] = Append(Marked(rawLog[m], i), e)],
           UNCHANGED <<recipe, batches, made>>
    PROVE  RecordedInv'
  <1> DEFINE log == rawLog[m]
             M == Marked(log, i)
             A == Append(M, e)
  <1>1. log \in Seq(RawEntry) /\ DOMAIN batches = 1 .. Len(batches) /\ Len(batches) \in Nat
    BY DEF ProdInv, ProdTypes
  <1>2. M \in Seq(RawEntry) /\ Len(M) = Len(log) /\ \A j \in DOMAIN log : M[j].batch = log[j].batch
    BY <1>1, MarkedLog
  <1>3. rawLog'[m] = A /\ \A x \in Materials \ {m} : rawLog'[x] = rawLog[x]
    BY DEF ProdInv, ProdTypes
  <1>4. \A b \in DOMAIN batches : e.batch # b  BY <1>1
  <1>5. ASSUME NEW b \in DOMAIN batches, NEW x
        PROVE  /\ OneEntry(log, b, x) => OneEntry(A, b, x)
               /\ NoEntry(log, b) => NoEntry(A, b)
    <2>1. OneEntry(log, b, x) => OneEntry(M, b, x)  BY <1>1, MarkedEntry
    <2>2. NoEntry(log, b) => NoEntry(M, b)  BY <1>1, MarkedEntry
    <2> HIDE DEF M
    <2> QED  BY <1>2, <1>4, <2>1, <2>2, AppendedEntry
  <1>6. \A j \in DOMAIN A : A[j].batch <= Len(batches)
    <2>1. \A j \in DOMAIN log : log[j].batch <= Len(batches)  BY DEF RecordedInv, BatchRecorded
    <2>2. DOMAIN log = 1 .. Len(log) /\ Len(log) \in Nat  BY <1>1
    <2> HIDE DEF M, log
    <2>3. DOMAIN A = 1 .. (Len(log) + 1) /\ A[Len(log) + 1] = e /\ \A j \in 1 .. Len(log) : A[j] = M[j]
      BY <1>2, <2>2
    <2> QED  BY <1>1, <1>2, <2>1, <2>2, <2>3
  <1> HIDE DEF A, M
  <1>7. BatchRecorded'
    <2>1. \A x \in Materials : \A j \in DOMAIN rawLog'[x] : rawLog'[x][j].batch <= Len(batches)
      BY <1>3, <1>6 DEF RecordedInv, BatchRecorded
    <2>2. ASSUME NEW b \in DOMAIN batches, NEW x \in Materials
          PROVE  IF x \in DOMAIN batches[b].needs
                 THEN OneEntry(rawLog'[x], b, -batches[b].needs[x]) ELSE NoEntry(rawLog'[x], b)
      <3>1. IF x \in DOMAIN batches[b].needs
            THEN OneEntry(rawLog[x], b, -batches[b].needs[x]) ELSE NoEntry(rawLog[x], b)
        BY DEF RecordedInv, BatchRecorded
      <3>2. CASE x = m  BY <1>3, <1>5, <3>1, <3>2
      <3>3. CASE x # m  BY <1>3, <3>1, <3>3
      <3> QED  BY <3>2, <3>3
    <2> QED  BY <2>1, <2>2 DEF RecordedInv, BatchRecorded, OneEntry, NoEntry
  <1> QED  BY <1>7 DEF RecordedInv

\* A deleted material is needed by no batch.
LEMMA DeletedKeeps ==
    ASSUME ProdInv, RecordedInv, NEW m \in Materials, DeleteMaterial(m)
    PROVE  RecordedInv'
  <1>1. /\ \A r \in DOMAIN recipe : r.material # m
        /\ rawLog' = [rawLog EXCEPT ![m] = <<>>] /\ UNCHANGED <<recipe, batches, made>>
    BY DEF DeleteMaterial, Deletable
  <1>2. \A b \in DOMAIN batches : m \notin DOMAIN batches[b].needs  BY <1>1 DEF RecordedInv
  <1>3. rawLog'[m] = <<>> /\ \A x \in Materials \ {m} : rawLog'[x] = rawLog[x]
    BY <1>1 DEF ProdInv, ProdTypes
  <1>4. \A x \in Materials : \A j \in DOMAIN rawLog'[x] : rawLog'[x][j].batch <= Len(batches)
    BY <1>3 DEF RecordedInv, BatchRecorded
  <1>5. ASSUME NEW b \in DOMAIN batches, NEW x \in Materials
        PROVE  IF x \in DOMAIN batches[b].needs
               THEN OneEntry(rawLog'[x], b, -batches[b].needs[x]) ELSE NoEntry(rawLog'[x], b)
    <2>1. IF x \in DOMAIN batches[b].needs
          THEN OneEntry(rawLog[x], b, -batches[b].needs[x]) ELSE NoEntry(rawLog[x], b)
      BY DEF RecordedInv, BatchRecorded
    <2>2. CASE x = m  BY <1>2, <1>3, <2>2 DEF NoEntry
    <2>3. CASE x # m  BY <1>3, <2>1, <2>3
    <2> QED  BY <2>2, <2>3
  <1>6. BatchRecorded'  BY <1>1, <1>4, <1>5 DEF RecordedInv, BatchRecorded, OneEntry, NoEntry
  <1> QED  BY <1>1, <1>6 DEF RecordedInv

\* A batch that commits is the last, and nothing has an entry of it yet.
LEMMA CommitRecords ==
    ASSUME ProductionAssumption, ProdInv, RecordedInv, NEW c \in Requests, BatchCommit(c)
    PROVE  RecordedInv'
  <1> DEFINE t == rawTx[c]
             n == Len(batches) + 1
             new == [good |-> t.good, quantity |-> t.quantity, needs |-> t.needs]
             g == t.good
             o == [change |-> t.quantity, batch |-> n]
             L(m) == Entry(-t.needs[m], n, 0)
  <1>1. /\ t \in BatchTx /\ t.taken = DOMAIN t.needs /\ t.needs \in Needs /\ t.pc = "batch"
        /\ UNCHANGED <<material, recipe>> /\ batches' = Append(batches, new)
        /\ \A m \in DOMAIN t.needs : m \in Materials /\ t.needs[m] \in Nat /\ material[m] = "live"
        /\ rawLog' = [m \in Materials |->
                        IF m \in DOMAIN t.needs THEN Append(rawLog[m], L(m)) ELSE rawLog[m]]
        /\ made' = [made EXCEPT ![g] = Append(made[g], o)]
    BY Committed DEF BatchCommit
  <1>2. /\ batches \in Seq(Batch) /\ n \in Nat \ {0} /\ Len(batches) \in Nat
        /\ rawLog \in [Materials -> Seq(RawEntry)] /\ made \in [Goods -> Seq(GoodEntry(Len(batches)))]
    BY DEF ProdInv, ProdTypes
  <1>3. /\ new \in Batch /\ new.good = g /\ new.quantity = t.quantity /\ new.needs = t.needs
        /\ g \in Goods /\ o \in GoodEntry(n) /\ o.change = t.quantity /\ o.batch = n
        /\ \A m \in DOMAIN t.needs : L(m) \in RawEntry /\ L(m).change = -t.needs[m] /\ L(m).batch = n
    BY <1>1, <1>2 DEF BatchTx, Batch, GoodEntry, Entry, RawEntry
  <1>4. \A m \in DOMAIN t.needs : \E r \in DOMAIN recipe : r.material = m
    BY <1>1 DEF ProdInv, Held
  <1> HIDE DEF t, new, g, o, L
  <1>5. /\ DOMAIN batches = 1 .. Len(batches) /\ DOMAIN batches' = 1 .. n /\ Len(batches') = n
        /\ batches'[n] = new /\ \A b \in DOMAIN batches : batches'[b] = batches[b] /\ b # n
    BY <1>1, <1>2, <1>3
  <1>6. ASSUME NEW m \in Materials
        PROVE  \A i \in DOMAIN rawLog'[m] : rawLog'[m][i].batch <= n
    <2> DEFINE log == rawLog[m]
               e == L(m)
               A == Append(log, e)
    <2>1. log \in Seq(RawEntry) /\ \A i \in DOMAIN log : log[i].batch <= Len(batches)
      BY <1>2 DEF RecordedInv, BatchRecorded
    <2>2. \A i \in DOMAIN log : log[i].batch \in Nat
      <3>1. \A i \in DOMAIN log : log[i] \in RawEntry  BY <2>1
      <3> QED  BY <3>1 DEF RawEntry
    <2>3. CASE m \in DOMAIN t.needs
      <3>1. rawLog'[m] = A /\ e \in RawEntry /\ e.batch = n  BY <1>1, <1>3, <2>3
      <3> HIDE DEF log, e
      <3>2. DOMAIN log = 1 .. Len(log) /\ DOMAIN A = 1 .. (Len(log) + 1) /\ A[Len(log) + 1] = e /\ Len(log) \in Nat
            /\ \A i \in 1 .. Len(log) : A[i] = log[i]
        BY <2>1, <3>1
      <3> QED  BY <1>2, <2>1, <2>2, <3>1, <3>2
    <2>4. CASE m \notin DOMAIN t.needs
      <3>1. rawLog'[m] = log  BY <1>1, <2>4
      <3> QED  BY <1>2, <2>1, <2>2, <3>1
    <2> QED  BY <2>3, <2>4
  <1>7. ASSUME NEW m \in Materials
        PROVE  NoEntry(rawLog[m], n)
    <2>1. rawLog[m] \in Seq(RawEntry) /\ \A i \in DOMAIN rawLog[m] : rawLog[m][i].batch <= Len(batches)
      BY <1>2 DEF RecordedInv, BatchRecorded
    <2>2. \A i \in DOMAIN rawLog[m] : rawLog[m][i] \in RawEntry  BY <2>1
    <2>3. \A i \in DOMAIN rawLog[m] : rawLog[m][i].batch \in Nat  BY <2>2 DEF RawEntry
    <2> QED  BY <1>2, <2>1, <2>3 DEF NoEntry
  <1>8. ASSUME NEW x \in Goods
        PROVE  NoEntry(made[x], n)
    <2>1. made[x] \in Seq(GoodEntry(Len(batches)))  BY <1>2
    <2>2. \A i \in DOMAIN made[x] : made[x][i] \in GoodEntry(Len(batches))  BY <2>1
    <2>3. \A i \in DOMAIN made[x] : made[x][i].batch \in 1 .. Len(batches)  BY <2>2 DEF GoodEntry
    <2> QED  BY <1>2, <2>3 DEF NoEntry
  <1>9. ASSUME NEW b \in DOMAIN batches', NEW m \in Materials
        PROVE  IF m \in DOMAIN batches'[b].needs
               THEN OneEntry(rawLog'[m], b, -batches'[b].needs[m]) ELSE NoEntry(rawLog'[m], b)
    <2>1. CASE m \in DOMAIN t.needs
      <3>1. rawLog'[m] = Append(rawLog[m], L(m)) /\ L(m) \in RawEntry /\ L(m).batch = n /\ L(m).change = -t.needs[m]
            /\ rawLog[m] \in Seq(RawEntry)
        BY <1>1, <1>2, <1>3, <2>1
      <3>2. CASE b = n
        <4>1. OneEntry(rawLog'[m], b, -t.needs[m])
          BY <1>7, <3>1, <3>2, AppendedEntry
        <4> QED  BY <1>3, <1>5, <2>1, <3>2, <4>1
      <3>3. CASE b # n
        <4>1. b \in DOMAIN batches /\ batches'[b] = batches[b]  BY <1>2, <1>5, <3>3
        <4>2. IF m \in DOMAIN batches[b].needs
              THEN OneEntry(rawLog[m], b, -batches[b].needs[m]) ELSE NoEntry(rawLog[m], b)
          BY <4>1 DEF RecordedInv, BatchRecorded
        <4>3. L(m).batch # b  BY <3>1, <3>3
        <4>4. IF m \in DOMAIN batches[b].needs
              THEN OneEntry(rawLog'[m], b, -batches[b].needs[m]) ELSE NoEntry(rawLog'[m], b)
          <5> DEFINE x == -batches[b].needs[m]
                     log == rawLog[m]
                     e == L(m)
          <5>1. log \in Seq(RawEntry) /\ e \in RawEntry /\ e.batch # b /\ rawLog'[m] = Append(log, e)
            BY <3>1, <4>3
          <5>2. IF m \in DOMAIN batches[b].needs THEN OneEntry(log, b, x) ELSE NoEntry(log, b)
            BY <4>2
          <5> HIDE DEF x, log, e
          <5>3. IF m \in DOMAIN batches[b].needs
                THEN OneEntry(Append(log, e), b, x) ELSE NoEntry(Append(log, e), b)
            BY <5>1, <5>2, AppendedEntry
          <5> QED  BY <5>1, <5>3 DEF x
        <4> QED  BY <4>1, <4>4
      <3> QED  BY <3>2, <3>3
    <2>2. CASE m \notin DOMAIN t.needs
      <3>1. rawLog'[m] = rawLog[m]  BY <1>1, <2>2
      <3>2. CASE b = n  BY <1>3, <1>5, <1>7, <2>2, <3>1, <3>2
      <3>3. CASE b # n
        <4>1. b \in DOMAIN batches /\ batches'[b] = batches[b]  BY <1>2, <1>5, <3>3
        <4> QED  BY <3>1, <4>1 DEF RecordedInv, BatchRecorded
      <3> QED  BY <3>2, <3>3
    <2> QED  BY <2>1, <2>2
  <1>10. ASSUME NEW b \in DOMAIN batches', NEW x \in Goods
         PROVE  IF x = batches'[b].good
                THEN OneEntry(made'[x], b, batches'[b].quantity) ELSE NoEntry(made'[x], b)
    <2>1. made[x] \in Seq(GoodEntry(n))
      <3>1. GoodEntry(Len(batches)) \subseteq GoodEntry(n)  BY <1>2 DEF GoodEntry
      <3> QED  BY <1>2, <3>1
    <2>2. made'[x] = IF x = g THEN Append(made[x], o) ELSE made[x]
      BY <1>1, <1>2
    <2>3. CASE b = n
      <3>1. x = g => OneEntry(made'[x], b, o.change)  BY <1>3, <1>8, <2>1, <2>2, <2>3, AppendedEntry
      <3>2. x # g => NoEntry(made'[x], b)  BY <1>8, <2>2, <2>3
      <3> QED  BY <1>3, <1>5, <2>3, <3>1, <3>2
    <2>4. CASE b # n
      <3>1. b \in DOMAIN batches /\ batches'[b] = batches[b] /\ o.batch # b  BY <1>2, <1>3, <1>5, <2>4
      <3>2. IF x = batches[b].good
            THEN OneEntry(made[x], b, batches[b].quantity) ELSE NoEntry(made[x], b)
        BY <3>1 DEF RecordedInv, BatchRecorded
      <3>3. IF x = batches[b].good
            THEN OneEntry(Append(made[x], o), b, batches[b].quantity) ELSE NoEntry(Append(made[x], o), b)
        BY <1>3, <2>1, <3>1, <3>2, AppendedEntry
      <3> QED  BY <2>2, <3>1, <3>2, <3>3
    <2> QED  BY <2>3, <2>4
  <1>11. BatchRecorded'
    BY <1>5, <1>6, <1>9, <1>10 DEF BatchRecorded, OneEntry, NoEntry
  <1>12. \A b \in DOMAIN batches' : \A m \in DOMAIN batches'[b].needs : \E r \in DOMAIN recipe' : r.material = m
    <2> SUFFICES ASSUME NEW b \in DOMAIN batches', NEW m \in DOMAIN batches'[b].needs
                 PROVE  \E r \in DOMAIN recipe : r.material = m
      BY <1>1
    <2>1. CASE b = n  BY <1>3, <1>4, <1>5, <2>1
    <2>2. CASE b # n
      <3>1. b \in DOMAIN batches /\ batches'[b] = batches[b]  BY <1>2, <1>5, <2>2
      <3> QED  BY <3>1 DEF RecordedInv
    <2> QED  BY <2>1, <2>2
  <1> QED  BY <1>11, <1>12 DEF RecordedInv

\* What writes no log, no output and no batch, and deletes no recipe, keeps the records.
LEMMA RecordsStay ==
    ASSUME RecordedInv, UNCHANGED <<rawLog, batches, made>>, DOMAIN recipe \subseteq DOMAIN recipe'
    PROVE  RecordedInv'
  <1>1. BatchRecorded'  BY DEF RecordedInv, BatchRecorded, OneEntry, NoEntry
  <1> QED  BY <1>1 DEF RecordedInv

\* An adjustment, a reversal or the entry of an initial stock is of no batch.
LEMMA NoBatchEntries ==
    ASSUME ProductionAssumption, ProdInv, RecordedInv, NEW c \in Requests, LogCreation(c) \/ WriteCommit(c)
    PROVE  RecordedInv'
  <1> DEFINE t == rawTx[c]
             m == t.material
  <1>1. CASE LogCreation(c)
    <2> DEFINE e == Entry(t.change, 0, 0)
    <2>1. /\ rawTx[c].pc = "create" /\ UNCHANGED <<recipe, batches, made>>
          /\ \/ rawLog' = [rawLog EXCEPT ![m] = Append(rawLog[m], e)]
             \/ rawLog' = rawLog
      BY <1>1 DEF LogCreation
    <2>2. m \in Materials /\ e \in RawEntry /\ e.batch = 0
      <3>1. t \in CreateTx  BY <2>1, Kinds DEF ProdInv, ProdTypes
      <3> QED  BY <3>1 DEF CreateTx, Entry, RawEntry
    <2> HIDE DEF e, m
    <2>3. Marked(rawLog[m], 0) = rawLog[m]
      <3> DEFINE log == rawLog[m]
      <3>1. log \in Seq(RawEntry)  BY <2>2 DEF ProdInv, ProdTypes
      <3>2. DOMAIN log = 1 .. Len(log) /\ Len(log) \in Nat /\ log = [j \in DOMAIN log |-> log[j]]  BY <3>1
      <3> HIDE DEF log
      <3>3. Marked(log, 0) = log  BY <3>2 DEF Marked
      <3> QED  BY <3>3 DEF log
    <2>4. CASE rawLog' = [rawLog EXCEPT ![m] = Append(rawLog[m], e)]
      <3>1. rawLog' = [rawLog EXCEPT ![m] = Append(Marked(rawLog[m], 0), e)] /\ 0 \in Nat
        BY <2>3, <2>4
      <3> QED  BY <2>1, <2>2, <3>1, LogEntryKeeps
    <2>5. CASE rawLog' = rawLog
      BY <2>1, <2>5, RecordsStay
    <2> QED  BY <2>1, <2>4, <2>5
  <1>2. CASE WriteCommit(c)
    <2> DEFINE i == t.reversalOf
               e == Entry(t.change, 0, i)
    <2>1. /\ rawTx[c].pc = "write" /\ UNCHANGED <<recipe, batches, made>>
          /\ \/ rawLog' = [rawLog EXCEPT ![m] = Append(Marked(rawLog[m], i), e)]
             \/ rawLog' = rawLog
      BY <1>2 DEF WriteCommit
    <2>2. m \in Materials /\ i \in Nat /\ e \in RawEntry /\ e.batch = 0
      <3>1. t \in WriteTx  BY <2>1, Kinds DEF ProdInv, ProdTypes
      <3> QED  BY <3>1 DEF WriteTx, Entry, RawEntry
    <2> HIDE DEF e, m, i
    <2>3. CASE rawLog' = [rawLog EXCEPT ![m] = Append(Marked(rawLog[m], i), e)]
      BY <2>1, <2>2, <2>3, LogEntryKeeps
    <2>4. CASE rawLog' = rawLog
      BY <2>1, <2>4, RecordsStay
    <2> QED  BY <2>1, <2>3, <2>4
  <1> QED  BY <1>1, <1>2

\* Every step keeps the records.
LEMMA RecordedStep ==
    ASSUME ProductionAssumption, ProdInv, RecordedInv, ProdNext
    PROVE  RecordedInv'
  <1>1. ASSUME NEW c \in Requests, ProdServer(c) PROVE RecordedInv'
    <2>1. CASE LogCreation(c) \/ WriteCommit(c)  BY <2>1, NoBatchEntries
    <2>2. CASE BatchCommit(c)  BY <2>2, CommitRecords
    <2>3. CASE DeadlockVictim(c)  BY <2>3, RecordsStay DEF DeadlockVictim
    <2>4. ASSUME NEW m \in Materials, Deduct(c, m) PROVE RecordedInv'
      BY <2>4, RecordsStay DEF Deduct
    <2> QED  BY <1>1, <2>1, <2>2, <2>3, <2>4 DEF ProdServer
  <1>2. ASSUME NEW c \in Requests, ProdUser(c) PROVE RecordedInv'
    <2>1. UNCHANGED <<rawLog, recipe, batches, made>>
      BY <1>2 DEF ProdUser, CreateMaterial, BatchBegin, AdjustRaw, SubmitRawForm, ReverseRaw
    <2> QED  BY <2>1, RecordsStay
  <1>3. ASSUME NEW m \in Materials, DeleteMaterial(m) PROVE RecordedInv'
    BY <1>3, DeletedKeeps
  <1>4. ASSUME NEW r \in Edited, NEW f \in RecipeForms, CreateRecipe(r, f) \/ UpdateRecipe(r, f) PROVE RecordedInv'
    <2>1. UNCHANGED <<rawLog, batches, made>> /\ DOMAIN recipe \subseteq DOMAIN recipe'
      BY <1>4 DEF CreateRecipe, UpdateRecipe
    <2> QED  BY <2>1, RecordsStay
  <1>5. CASE ProdCrash  BY <1>5, RecordsStay DEF ProdCrash
  <1> QED  BY <1>1, <1>2, <1>3, <1>4, <1>5 DEF ProdNext

\* A batch is in the log of each of its materials and of its product, once and with the amounts
\* of its snapshot, or it is not there at all, however requests interleave, fail or crash.
THEOREM BatchesAreRecorded == ProdSpec => []BatchRecorded
  <1>1. ProdInit => RecordedInv
    <2> SUFFICES ASSUME ProdInit PROVE RecordedInv
      OBVIOUS
    <2>1. DOMAIN batches = {} /\ Len(batches) = 0  BY DEF ProdInit
    <2>2. \A m \in Materials : \A i \in DOMAIN rawLog[m] : rawLog[m][i].batch = 0
      <3> SUFFICES ASSUME NEW m \in Materials PROVE \A i \in DOMAIN rawLog[m] : rawLog[m][i].batch = 0
        OBVIOUS
      <3> DEFINE e == Entry(InitialRaw[m], 0, 0)
      <3>1. e.batch = 0 /\ (rawLog[m] = <<e>> \/ rawLog[m] = <<>>)  BY DEF ProdInit, Entry
      <3> HIDE DEF e
      <3> QED  BY <3>1
    <2> QED  BY <2>1, <2>2 DEF RecordedInv, BatchRecorded
  <1>2. ProdInv /\ RecordedInv /\ [ProdNext]_prodVars => RecordedInv'
    <2> SUFFICES ASSUME ProdInv, RecordedInv, [ProdNext]_prodVars PROVE RecordedInv'
      OBVIOUS
    <2>1. CASE UNCHANGED prodVars
      <3>1. UNCHANGED <<rawLog, batches, made>> /\ DOMAIN recipe \subseteq DOMAIN recipe'  BY <2>1 DEF prodVars
      <3> QED  BY <3>1, RecordsStay
    <2> QED  BY <2>1, RecordedStep, ProductionAssumption
  <1>3. RecordedInv => BatchRecorded  BY DEF RecordedInv
  <1> QED  BY <1>1, <1>2, <1>3, ProdAlways, PTL DEF ProdSpec

-----------------------------------------------------------------------------
(* The sums. *)

\* A log adds up to what it did and the change of an entry that is appended.
LEMMA LoggedAppend ==
    ASSUME NEW T, \A x \in T : x.change \in Int, NEW log \in Seq(T), NEW e \in T
    PROVE  Logged(Append(log, e)) = Logged(log) + e.change /\ Logged(log) \in Int
  <1> DEFINE n == Len(log) + 1
             A == Append(log, e)
             f == [i \in DOMAIN log |-> log[i].change]
             g == [i \in DOMAIN A |-> A[i].change]
  <1>1. /\ n \in Nat \ {0} /\ DOMAIN log = 1 .. n - 1 /\ DOMAIN A = 1 .. n /\ A[n] = e
        /\ \A i \in 1 .. n - 1 : A[i] = log[i] /\ log[i] \in T
    BY AppendProperties, LenProperties, ElementOfSeq
  <1> HIDE DEF n, A
  <1>2. /\ n \notin 1 .. n - 1 /\ 1 .. n = (1 .. n - 1) \cup {n} /\ IsFiniteSet(1 .. n - 1)
        /\ \A j \in 1 .. n - 1 : j \in 1 .. n
    BY <1>1, OneToOneMore
  <1>3. /\ DOMAIN f = 1 .. n - 1 /\ DOMAIN g = 1 .. n /\ g[n] = e.change
        /\ \A i \in 1 .. n - 1 : g[i] = A[i].change /\ f[i] = log[i].change
    BY <1>1, <1>2
  <1> HIDE DEF f, g
  <1>4. /\ n \notin DOMAIN f /\ DOMAIN g = DOMAIN f \cup {n} /\ IsFiniteSet(DOMAIN f)
        /\ \A x \in DOMAIN f : g[x] = f[x] /\ f[x] \in Int
        /\ g[n] \in Int
    BY <1>1, <1>2, <1>3
  <1>5. SumFunction(g) = SumFunction(f) + g[n] /\ SumFunction(f) \in Int
    BY <1>4, SumOneMore
  <1> QED  BY <1>3, <1>5 DEF Logged, f, g, A

\* An empty log adds up to nothing, and marking an entry changes no sum.
LEMMA LoggedSame ==
    /\ Logged(<<>>) = 0
    /\ \A log \in Seq(RawEntry), i \in Nat : Logged(Marked(log, i)) = Logged(log)
  <1>1. Logged(<<>>) = 0
    <2> DEFINE f == [i \in DOMAIN <<>> |-> <<>>[i].change]
    <2>1. DOMAIN f = {}  OBVIOUS
    <2> HIDE DEF f
    <2>2. SumFunction(f) = 0  BY <2>1, SumFew
    <2> QED  BY <2>2 DEF Logged, f
  <1>2. ASSUME NEW log \in Seq(RawEntry), NEW i \in Nat PROVE Logged(Marked(log, i)) = Logged(log)
    <2> DEFINE M == Marked(log, i)
    <2>1. /\ M \in Seq(RawEntry) /\ Len(M) = Len(log)
          /\ \A j \in DOMAIN log : M[j].change = log[j].change
      BY MarkedLog
    <2> HIDE DEF M
    <2>2. DOMAIN M = DOMAIN log  BY <2>1
    <2>3. [j \in DOMAIN M |-> M[j].change] = [j \in DOMAIN log |-> log[j].change]
      BY <2>1, <2>2
    <2> QED  BY <2>3 DEF Logged, M
  <1> QED  BY <1>1, <1>2

-----------------------------------------------------------------------------
(* The reports. *)

\* The usage report of a batch is what its one entry took, or nothing.
LEMMA UsageIsRecorded ==
    ASSUME NEW m \in Materials, NEW b \in DOMAIN batches
    PROVE  /\ \A x \in Int : OneEntry(rawLog[m], b, -x) => UsedBy(m, b) = x
           /\ NoEntry(rawLog[m], b) => UsedBy(m, b) = 0
  <1> DEFINE log == rawLog[m]
             D == {j \in DOMAIN log : log[j].batch = b}
             f == [i \in D |-> -log[i].change]
  <1>1. UsedBy(m, b) = SumFunction(f)  BY DEF UsedBy
  <1>2. DOMAIN f = D  OBVIOUS
  <1>3. ASSUME NEW x \in Int, OneEntry(log, b, -x) PROVE SumFunction(f) = x
    <2>1. PICK i \in DOMAIN log : /\ log[i].batch = b /\ log[i].change = -x
                                  /\ \A j \in DOMAIN log : log[j].batch = b => j = i
      BY <1>3 DEF OneEntry
    <2>2. D = {i}  BY <2>1
    <2>3. f[i] = -log[i].change  BY <2>2
    <2>4. f[i] = x
      <3> HIDE DEF f
      <3> QED  BY <2>1, <2>3
    <2> HIDE DEF f, D
    <2> QED  BY <1>2, <2>2, <2>4, SumFew
  <1>4. ASSUME NoEntry(log, b) PROVE SumFunction(f) = 0
    <2>1. D = {}  BY <1>4 DEF NoEntry
    <2> HIDE DEF f, D
    <2> QED  BY <1>2, <2>1, SumFew
  <1> QED  BY <1>1, <1>3, <1>4

\* The output report agrees with the log of the product.
OutputBalances == \A g \in Goods : Produced(g) = Logged(made[g])

\* Batches and the log of their product grow together.
LEMMA CommitBalances ==
    ASSUME ProductionAssumption, ProdInv, OutputBalances, NEW c \in Requests, BatchCommit(c)
    PROVE  OutputBalances'
  <1> DEFINE t == rawTx[c]
             n == Len(batches) + 1
             new == [good |-> t.good, quantity |-> t.quantity, needs |-> t.needs]
             o == [change |-> t.quantity, batch |-> n]
             G(g) == {d \in DOMAIN batches : batches[d].good = g}
             Q(g) == [b \in G(g) |-> batches[b].quantity]
  <1>1. /\ t \in BatchTx /\ batches' = Append(batches, new)
        /\ made' = [made EXCEPT ![t.good] = Append(made[t.good], o)]
    BY Committed
  <1>2. /\ t.good \in Goods /\ t.quantity \in Nat /\ new \in Batch /\ o \in GoodEntry(n)
        /\ new.good = t.good /\ new.quantity = t.quantity /\ o.change = t.quantity
    <2>1. n \in Nat \ {0}  BY DEF ProdInv, ProdTypes
    <2> QED  BY <1>1, <2>1 DEF BatchTx, Batch, GoodEntry
  <1>3. /\ batches \in Seq(Batch) /\ made \in [Goods -> Seq(GoodEntry(Len(batches)))]
    BY DEF ProdInv, ProdTypes
  <1> HIDE DEF t, new, o
  <1>4. /\ n \in Nat \ {0} /\ DOMAIN batches = 1 .. n - 1 /\ DOMAIN batches' = 1 .. n /\ batches'[n] = new
        /\ \A b \in 1 .. n - 1 : batches'[b] = batches[b] /\ batches[b] \in Batch
    BY <1>1, <1>2, <1>3, AppendProperties, LenProperties, ElementOfSeq
  <1>5. made[t.good] \in Seq(GoodEntry(n))
    <2>1. GoodEntry(Len(batches)) \subseteq GoodEntry(n)  BY <1>4 DEF GoodEntry
    <2>2. made[t.good] \in Seq(GoodEntry(Len(batches)))  BY <1>2, <1>3
    <2> QED  BY <2>1, <2>2
  <1>6. Logged(made'[t.good]) = Logged(made[t.good]) + t.quantity
    <2>1. \A x \in GoodEntry(n) : x.change \in Int  BY DEF GoodEntry
    <2>2. Logged(Append(made[t.good], o)) = Logged(made[t.good]) + o.change
      BY <1>2, <1>5, <2>1, LoggedAppend
    <2>3. made'[t.good] = Append(made[t.good], o)  BY <1>1, <1>2, <1>3
    <2> QED  BY <1>2, <2>2, <2>3
  <1> HIDE DEF n
  <1>7. /\ n \notin 1 .. n - 1 /\ 1 .. n = (1 .. n - 1) \cup {n} /\ IsFiniteSet(1 .. n - 1)
        /\ \A j \in 1 .. n - 1 : j \in 1 .. n
    BY <1>4, OneToOneMore
  <1>g. PICK good : good = t.good  OBVIOUS
  <1>8. Produced(good)' = Produced(good) + t.quantity
    <2> DEFINE f == Q(good)
               H == {d \in DOMAIN batches' : batches'[d].good = good}
               g == [b \in H |-> batches'[b].quantity]
    <2>1. H = G(good) \cup {n} /\ n \notin G(good) /\ G(good) \subseteq 1 .. n - 1
      BY <1>2, <1>4, <1>7, <1>g
    <2>2. IsFiniteSet(G(good))  BY <1>7, <2>1, FS_Subset
    <2>3. /\ DOMAIN f = G(good) /\ DOMAIN g = H
          /\ \A b \in G(good) : f[b] = batches[b].quantity
          /\ \A b \in H : g[b] = batches'[b].quantity
      OBVIOUS
    <2> HIDE DEF f, g, H, G
    <2>4. g[n] = t.quantity  BY <1>2, <1>4, <2>1, <2>3
    <2>5. \A b \in G(good) : g[b] = f[b] /\ f[b] \in Int
      <3>1. \A b \in 1 .. n - 1 : batches[b].quantity \in Int  BY <1>4 DEF Batch
      <3> QED  BY <1>4, <2>1, <2>3, <3>1
    <2>6. /\ n \notin DOMAIN f /\ DOMAIN g = DOMAIN f \cup {n} /\ IsFiniteSet(DOMAIN f)
          /\ \A x \in DOMAIN f : g[x] = f[x] /\ f[x] \in Int
          /\ g[n] \in Int
      BY <1>2, <2>1, <2>2, <2>3, <2>4, <2>5
    <2>7. SumFunction(g) = SumFunction(f) + g[n]  BY <2>6, SumOneMore
    <2>8. Produced(good) = SumFunction(f)  BY DEF Produced, f, G
    <2>9. Produced(good)' = SumFunction(g)
      BY DEF Produced, g, H
    <2> QED  BY <2>4, <2>7, <2>8, <2>9
  <1>9. ASSUME NEW x \in Goods, x # good PROVE Produced(x)' = Produced(x) /\ made'[x] = made[x]
    <2> DEFINE H == {d \in DOMAIN batches' : batches'[d].good = x}
    <2>1. H = G(x)  BY <1>2, <1>4, <1>7, <1>9, <1>g
    <2>2. \A b \in G(x) : batches'[b].quantity = batches[b].quantity  BY <1>4
    <2> HIDE DEF G
    <2>3. [b \in H |-> batches'[b].quantity] = Q(x)  BY <2>1, <2>2
    <2>4. Produced(x)' = SumFunction([b \in H |-> batches'[b].quantity])  BY DEF Produced
    <2>5. Produced(x) = SumFunction(Q(x))  BY DEF Produced, G
    <2>6. made'[x] = made[x]  BY <1>1, <1>3, <1>9, <1>g
    <2> QED  BY <2>3, <2>4, <2>5, <2>6
  <1>10. ASSUME NEW x \in Goods PROVE Produced(x)' = Logged(made'[x])
    <2>1. CASE x = good  BY <1>2, <1>6, <1>8, <1>g, <2>1 DEF OutputBalances
    <2>2. CASE x # good  BY <1>9, <2>2 DEF OutputBalances
    <2> QED  BY <2>1, <2>2
  <1> QED  BY <1>10 DEF OutputBalances

\* Only a batch that commits touches either.
LEMMA OutputStep ==
    ASSUME ProductionAssumption, ProdInv, OutputBalances, [ProdNext]_prodVars
    PROVE  OutputBalances'
  <1>1. ASSUME UNCHANGED <<batches, made>> PROVE OutputBalances'
    BY <1>1 DEF OutputBalances, Produced, Logged
  <1>2. ASSUME NEW c \in Requests, ProdServer(c) PROVE OutputBalances'
    <2>1. CASE BatchCommit(c)  BY <2>1, CommitBalances
    <2>2. CASE ~BatchCommit(c)
      <3>1. UNCHANGED <<batches, made>>
        BY <1>2, <2>2 DEF ProdServer, LogCreation, WriteCommit, DeadlockVictim, Deduct
      <3> QED  BY <1>1, <3>1
    <2> QED  BY <2>1, <2>2
  <1>3. ASSUME NEW c \in Requests, ProdUser(c) PROVE UNCHANGED <<batches, made>>
    BY <1>3 DEF ProdUser, CreateMaterial, BatchBegin, AdjustRaw, SubmitRawForm, ReverseRaw
  <1>4. CASE \/ \E m \in Materials : DeleteMaterial(m)
             \/ \E r \in Edited, f \in RecipeForms : CreateRecipe(r, f) \/ UpdateRecipe(r, f)
             \/ ProdCrash \/ UNCHANGED prodVars
    <2>1. UNCHANGED <<batches, made>>
      BY <1>4 DEF DeleteMaterial, CreateRecipe, UpdateRecipe, ProdCrash, prodVars
    <2> QED  BY <1>1, <2>1
  <1> QED  BY <1>1, <1>2, <1>3, <1>4 DEF ProdNext

\* A batch is in all its tables with all its amounts, or in none: the reports made from the logs
\* agree with the batches, however requests interleave, deadlock, fail or crash.
THEOREM BatchesAreWhole == ProdSpec => []BatchWhole
  <1>1. ProdInit => OutputBalances
    <2> SUFFICES ASSUME ProdInit, NEW g \in Goods PROVE Produced(g) = Logged(made[g])
      BY DEF OutputBalances
    <2> DEFINE f == [b \in {d \in DOMAIN batches : batches[d].good = g} |-> batches[b].quantity]
    <2>1. batches = <<>> /\ made[g] = <<>>  BY DEF ProdInit
    <2>2. DOMAIN f = {}  BY <2>1
    <2> HIDE DEF f
    <2>3. SumFunction(f) = 0  BY <2>2, SumFew
    <2> QED  BY <2>1, <2>3, LoggedSame DEF Produced, f
  <1>2. ProdInv /\ OutputBalances /\ [ProdNext]_prodVars => OutputBalances'
    BY OutputStep, ProductionAssumption
  <1>3. ASSUME ProdInv, BatchRecorded, OutputBalances PROVE BatchWhole
    <2>1. ASSUME NEW m \in Materials, NEW b \in DOMAIN batches
          PROVE  UsedBy(m, b) = IF m \in DOMAIN batches[b].needs THEN batches[b].needs[m] ELSE 0
      <3>1. CASE m \in DOMAIN batches[b].needs
        <4> DEFINE u == batches[b]
        <4>1. u \in Batch  BY <1>3 DEF ProdInv, ProdTypes
        <4>2. u.needs \in Needs
          <5> HIDE DEF u
          <5> QED  BY <4>1 DEF Batch
        <4>3. batches[b].needs[m] \in Int  BY <3>1, <4>2, SomeNeeds
        <4>4. OneEntry(rawLog[m], b, -batches[b].needs[m])  BY <1>3, <3>1 DEF BatchRecorded
        <4> QED  BY <3>1, <4>3, <4>4, UsageIsRecorded
      <3>2. CASE m \notin DOMAIN batches[b].needs
        <4>1. NoEntry(rawLog[m], b)  BY <1>3, <3>2 DEF BatchRecorded
        <4> QED  BY <3>2, <4>1, UsageIsRecorded
      <3> QED  BY <3>1, <3>2
    <2> QED  BY <1>3, <2>1 DEF BatchWhole, BatchRecorded, OutputBalances
  <1> QED  BY <1>1, <1>2, <1>3, ProdAlways, BatchesAreRecorded, PTL DEF ProdSpec

-----------------------------------------------------------------------------
(* Where stock and log come apart. *)

\* A write computed from the stock as it still is keeps the distance of stock and log.
LEMMA WriteDrifts ==
    ASSUME ProductionAssumption, ProdInv, NEW c \in Requests, WriteCommit(c), NEW m \in Materials, Drift(m)' # Drift(m)
    PROVE  rawTx[c].pc = "write" /\ rawTx[c].material = m /\ rawTx[c].read # rawStock[m] /\ rawTx'[c] = Free
  <1> DEFINE t == rawTx[c]
             x == t.material
             e == Entry(t.change, 0, t.reversalOf)
  <1>1. /\ t.pc = "write" /\ rawTx' = [rawTx EXCEPT ![c] = Free]
        /\ \/ /\ rawStock' = [rawStock EXCEPT ![x] = Written(t)]
              /\ rawLog' = [rawLog EXCEPT ![x] = Append(Marked(rawLog[x], t.reversalOf), e)]
           \/ UNCHANGED <<rawStock, rawLog>>
    BY DEF WriteCommit, Close
  <1>2. /\ rawStock \in [Materials -> Int] /\ rawLog \in [Materials -> Seq(RawEntry)] /\ rawTx \in [Requests -> Tx]
    BY DEF ProdInv, ProdTypes
  <1>3. x \in Materials /\ t.reversalOf \in Nat /\ t.read \in Int /\ t.change \in Int /\ e \in RawEntry /\ e.change = t.change
    <2>1. t \in WriteTx  BY <1>1, <1>2, Kinds
    <2> QED  BY <2>1 DEF WriteTx, Entry, RawEntry
  <1>4. rawTx'[c] = Free  BY <1>1, <1>2
  <1>5. ~UNCHANGED <<rawStock, rawLog>>  BY DEF Drift, Logged
  <1>6. m = x
    <2>1. m # x => rawStock'[m] = rawStock[m] /\ rawLog'[m] = rawLog[m]  BY <1>1, <1>2
    <2> QED  BY <2>1 DEF Drift, Logged
  <1> HIDE DEF t, x, e
  <1>7. Logged(rawLog'[x]) = Logged(rawLog[x]) + t.change /\ Logged(rawLog[x]) \in Int
    <2> DEFINE M == Marked(rawLog[x], t.reversalOf)
    <2>1. rawLog[x] \in Seq(RawEntry)  BY <1>2, <1>3
    <2>2. M \in Seq(RawEntry) /\ Logged(M) = Logged(rawLog[x])  BY <1>3, <2>1, MarkedLog, LoggedSame
    <2>3. \A y \in RawEntry : y.change \in Int  BY DEF RawEntry
    <2>4. rawLog'[x] = Append(M, e)  BY <1>1, <1>2, <1>3, <1>5
    <2> HIDE DEF M
    <2>5. Logged(Append(M, e)) = Logged(M) + e.change /\ Logged(M) \in Int
      BY <1>3, <2>2, <2>3, LoggedAppend
    <2> QED  BY <1>3, <2>2, <2>4, <2>5
  <1>8. rawStock'[x] = t.read + t.change
    BY <1>1, <1>2, <1>3, <1>5 DEF Written
  <1>9. t.read # rawStock[x]
    <2> SUFFICES ASSUME t.read = rawStock[x] PROVE Drift(m)' = Drift(m)
      OBVIOUS
    <2>1. Drift(m)' = rawStock'[x] - Logged(rawLog'[x]) /\ Drift(m) = rawStock[x] - Logged(rawLog[x])
      BY <1>6 DEF Drift
    <2> QED  BY <1>3, <1>7, <1>8, <2>1
  <1> QED  BY <1>1, <1>4, <1>6, <1>9 DEF t, x

\* A batch takes from each stock what it logs.
LEMMA BatchesDriftNot ==
    ASSUME ProductionAssumption, ProdInv, NEW c \in Requests, BatchCommit(c), NEW m \in Materials
    PROVE  Drift(m)' = Drift(m)
  <1> DEFINE t == rawTx[c]
             e == Entry(-t.needs[m], Len(batches) + 1, 0)
  <1>1. /\ t.needs \in Needs
        /\ rawStock' = [x \in Materials |-> IF x \in DOMAIN t.needs THEN rawStock[x] - t.needs[x] ELSE rawStock[x]]
        /\ rawLog' = [x \in Materials |-> IF x \in DOMAIN t.needs
                                          THEN Append(rawLog[x], Entry(-t.needs[x], Len(batches) + 1, 0))
                                          ELSE rawLog[x]]
        /\ m \in DOMAIN t.needs => t.needs[m] \in Nat
    BY Committed
  <1>2. rawStock[m] \in Int /\ rawLog[m] \in Seq(RawEntry) /\ Len(batches) \in Nat
    BY DEF ProdInv, ProdTypes
  <1>3. CASE m \notin DOMAIN t.needs
    <2>1. rawStock'[m] = rawStock[m] /\ rawLog'[m] = rawLog[m]  BY <1>1, <1>3
    <2> QED  BY <2>1 DEF Drift
  <1>4. CASE m \in DOMAIN t.needs
    <2>1. rawStock'[m] = rawStock[m] - t.needs[m] /\ rawLog'[m] = Append(rawLog[m], e) /\ t.needs[m] \in Nat
      BY <1>1, <1>4
    <2>2. e \in RawEntry /\ e.change = -t.needs[m]  BY <1>2, <2>1 DEF Entry, RawEntry
    <2>3. \A y \in RawEntry : y.change \in Int  BY DEF RawEntry
    <2> HIDE DEF e, t
    <2>4. Logged(Append(rawLog[m], e)) = Logged(rawLog[m]) + e.change /\ Logged(rawLog[m]) \in Int
      BY <1>2, <2>2, <2>3, LoggedAppend
    <2> QED  BY <1>2, <2>1, <2>2, <2>4 DEF Drift
  <1> QED  BY <1>3, <1>4

\* Every step drifts only as the property allows.
LEMMA DriftStep ==
    ASSUME ProductionAssumption, ProdInv, ProdNext
    PROVE  OnlyStaleWritesDrift
  <1> SUFFICES ASSUME NEW m \in Materials, Drift(m)' # Drift(m)
               PROVE  \/ \E c \in Requests : /\ rawTx[c].pc = "write" /\ rawTx[c].material = m
                                             /\ rawTx[c].read # rawStock[m] /\ rawTx'[c] = Free
                      \/ material[m] = "new"
                      \/ \E c \in Requests : rawTx[c].pc = "create" /\ rawTx[c].material = m
                      \/ material'[m] = "gone"
    BY DEF OnlyStaleWritesDrift
  <1>1. ~(rawStock'[m] = rawStock[m] /\ rawLog'[m] = rawLog[m])  BY DEF Drift
  <1>2. ASSUME NEW c \in Requests, ProdServer(c)
        PROVE  WriteCommit(c) \/ LogCreation(c)
    <2>1. ~BatchCommit(c)  BY BatchesDriftNot
    <2> QED  BY <1>1, <1>2, <2>1 DEF ProdServer, DeadlockVictim, Deduct
  <1>3. ASSUME NEW c \in Requests, LogCreation(c)
        PROVE  rawTx[c].pc = "create" /\ rawTx[c].material = m
    <2>1. /\ rawTx[c].pc = "create" /\ UNCHANGED rawStock
          /\ \/ rawLog' = rawLog
             \/ \E e : rawLog' = [rawLog EXCEPT ![rawTx[c].material] = e]
      BY <1>3 DEF LogCreation
    <2> QED  BY <1>1, <2>1 DEF ProdInv, ProdTypes
  <1>4. ASSUME NEW c \in Requests, ProdUser(c) PROVE material[m] = "new"
    <2>1. ASSUME NEW x \in Materials, NEW s, CreateMaterial(c, x, s) PROVE material[m] = "new"
      <3>1. /\ material[x] = "new" /\ rawStock' = [rawStock EXCEPT ![x] = s] /\ UNCHANGED rawLog
        BY <2>1 DEF CreateMaterial
      <3> QED  BY <1>1, <3>1 DEF ProdInv, ProdTypes
    <2> QED  BY <1>1, <1>4, <2>1 DEF ProdUser, BatchBegin, AdjustRaw, SubmitRawForm, ReverseRaw
  <1>5. ASSUME NEW x \in Materials, DeleteMaterial(x) PROVE material'[m] = "gone"
    <2>1. /\ material' = [material EXCEPT ![x] = "gone"] /\ rawStock' = [rawStock EXCEPT ![x] = 0]
          /\ rawLog' = [rawLog EXCEPT ![x] = <<>>]
      BY <1>5 DEF DeleteMaterial
    <2> QED  BY <1>1, <2>1 DEF ProdInv, ProdTypes
  <1>6. ~\E r \in Edited, f \in RecipeForms : CreateRecipe(r, f) \/ UpdateRecipe(r, f)
    BY <1>1 DEF CreateRecipe, UpdateRecipe
  <1>7. ~ProdCrash  BY <1>1 DEF ProdCrash
  <1>8. ASSUME NEW c \in Requests, WriteCommit(c)
        PROVE  /\ rawTx[c].pc = "write" /\ rawTx[c].material = m
               /\ rawTx[c].read # rawStock[m] /\ rawTx'[c] = Free
    BY <1>8, WriteDrifts
  <1> QED  BY <1>2, <1>3, <1>4, <1>5, <1>6, <1>7, <1>8 DEF ProdNext

\* Stock and log of a material come apart only by a write computed from a stock that has changed
\* since, or at its creation or deletion; no batch is a cause.
THEOREM OnlyStaleWrites == ProdSpec => DriftByStaleWrites
  <1>1. ProdInv /\ [ProdNext]_prodVars => [OnlyStaleWritesDrift]_prodVars
    BY DriftStep, ProductionAssumption
  <1> QED  BY <1>1, ProdAlways, PTL DEF ProdSpec, DriftByStaleWrites

===============================================================================
