------------------------------ MODULE Sums_proofs -----------------------------
(***************************************************************************)
(* What SumFunction computes, for every finite function to the integers:   *)
(* the logs of stocks and materials and the requests of a window are sums. *)
(* SumFunction takes its elements in an order nobody knows (CHOOSE) by a   *)
(* recursive function on sets; the proofs pick a smallest set for which a  *)
(* claim fails (WFMin) where one would do an induction.                    *)
(***************************************************************************)
EXTENDS Integers, Functions, FiniteSetTheorems, WellFoundedInduction, TLAPS

\* The element of a set that the fold takes first.
First(s) == CHOOSE x \in s : TRUE

\* The recursive function on the subsets of S that the fold defines.
IsFold(it, f, S) ==
    it = [s \in SUBSET S |-> IF s = {} THEN 0 ELSE f[First(s)] + it[s \ {First(s)}]]

\* Among some subsets of a finite set there is one with none of the others within it.
LEMMA SmallestSet ==
    ASSUME NEW S, IsFiniteSet(S), NEW Bad \in SUBSET SUBSET S, Bad # {}
    PROVE  \E T \in Bad : \A U \in Bad : U \subseteq T => U = T
  <1>1. IsWellFoundedOn(StrictSubsetOrdering(S), FiniteSubsetsOf(S))
    BY FS_StrictSubsetOrderingWellFounded
  <1>2. Bad \subseteq FiniteSubsetsOf(S)
    BY FS_Subset DEF FiniteSubsetsOf
  <1>3. PICK T \in Bad : \A U \in Bad : <<U, T>> \notin StrictSubsetOrdering(S)
    BY <1>1, <1>2, WFMin
  <1>4. \A U \in Bad : U \subseteq T => U = T
    BY <1>3 DEF StrictSubsetOrdering
  <1> QED  BY <1>4

\* A fold, from its definition, set by set.
LEMMA FoldOf ==
    ASSUME NEW f, NEW S, NEW it, IsFold(it, f, S), NEW s \in SUBSET S
    PROVE  /\ s = {} => it[s] = 0
           /\ s # {} => /\ First(s) \in s
                        /\ it[s] = f[First(s)] + it[s \ {First(s)}]
  <1>1. s # {} => First(s) \in s  BY DEF First
  <1> HIDE DEF First
  <1>2. it[s] = IF s = {} THEN 0 ELSE f[First(s)] + it[s \ {First(s)}]
    BY DEF IsFold
  <1> QED  BY <1>1, <1>2

\* There is one fold at most, and it does not depend on the set it is defined for.
LEMMA FoldsAgree ==
    ASSUME NEW f, NEW S, NEW T \in SUBSET S, IsFiniteSet(T),
           NEW a, IsFold(a, f, S), NEW b, IsFold(b, f, T)
    PROVE  \A s \in SUBSET T : a[s] = b[s]
  <1> DEFINE Bad == {s \in SUBSET T : a[s] # b[s]}
  <1>1. SUFFICES ASSUME Bad # {} PROVE FALSE
    OBVIOUS
  <1>2. PICK s \in Bad : \A U \in Bad : U \subseteq s => U = s
    <2>1. Bad \in SUBSET SUBSET T  OBVIOUS
    <2> HIDE DEF Bad
    <2> QED  BY <1>1, <2>1, SmallestSet
  <1>3. /\ s \in SUBSET T /\ s \in SUBSET S /\ a[s] # b[s]
    BY <1>2
  <1>4. /\ s = {} => a[s] = 0 /\ b[s] = 0
        /\ s # {} => /\ First(s) \in s
                     /\ a[s] = f[First(s)] + a[s \ {First(s)}]
                     /\ b[s] = f[First(s)] + b[s \ {First(s)}]
    BY <1>3, FoldOf
  <1>5. s # {} => s \ {First(s)} \notin Bad
    BY <1>2, <1>4
  <1>6. s # {} => a[s \ {First(s)}] = b[s \ {First(s)}]
    BY <1>3, <1>5
  <1> QED  BY <1>3, <1>4, <1>6

\* There is one.
LEMMA FoldExists ==
    ASSUME NEW f, NEW S, IsFiniteSet(S)
    PROVE  \E it : IsFold(it, f, S)
  <1> DEFINE Bad == {T \in SUBSET S : ~\E it : IsFold(it, f, T)}
  <1>1. SUFFICES ASSUME Bad # {} PROVE FALSE
    OBVIOUS
  <1>2. PICK T \in Bad : \A U \in Bad : U \subseteq T => U = T
    <2>1. Bad \in SUBSET SUBSET S  OBVIOUS
    <2> HIDE DEF Bad
    <2> QED  BY <1>1, <2>1, SmallestSet
  <1> DEFINE F(U) == CHOOSE it : IsFold(it, f, U)
             it == [s \in SUBSET T |-> IF s = {} THEN 0
                                       ELSE f[First(s)] + F(s \ {First(s)})[s \ {First(s)}]]
  <1>3. T \in SUBSET S /\ ~\E g : IsFold(g, f, T)
    BY <1>2
  <1>4. \A U \in SUBSET T : U # T => U \in SUBSET S /\ U \notin Bad
    BY <1>2, <1>3
  <1>5. \A U \in SUBSET T : U # T => IsFold(F(U), f, U) /\ IsFiniteSet(U)
    <2> SUFFICES ASSUME NEW U \in SUBSET T, U # T PROVE IsFold(F(U), f, U) /\ IsFiniteSet(U)
      OBVIOUS
    <2>1. \E g : IsFold(g, f, U)  BY <1>4
    <2>2. IsFiniteSet(U)  BY <1>4, FS_Subset
    <2> QED  BY <2>1, <2>2
  <1> HIDE DEF F
  <1>6. \A s \in SUBSET T : s # {} => First(s) \in s
    BY DEF First
  <1>7. \A s \in SUBSET T : s # T => it[s] = F(s)[s]
    <2> SUFFICES ASSUME NEW s \in SUBSET T, s # T PROVE it[s] = F(s)[s]
      OBVIOUS
    <2> DEFINE r == s \ {First(s)}
    <2>1. IsFold(F(s), f, s)  BY <1>5
    <2>2. CASE s = {}
      <3>1. F(s)[s] = 0  BY <2>1, <2>2, FoldOf
      <3> QED  BY <2>2, <3>1
    <2>3. CASE s # {}
      <3>1. First(s) \in s  BY <1>6, <2>3
      <3>2. r \in SUBSET T /\ r # T /\ r \in SUBSET s  BY <3>1
      <3>3. IsFold(F(r), f, r) /\ IsFiniteSet(r)  BY <1>5, <3>2
      <3>4. F(s)[r] = F(r)[r]
        <4> HIDE DEF r
        <4> QED  BY <2>1, <3>2, <3>3, FoldsAgree
      <3>5. F(s)[s] = f[First(s)] + F(s)[r]  BY <2>1, <2>3, FoldOf
      <3>6. it[s] = f[First(s)] + F(r)[r]  BY <2>3
      <3> QED  BY <3>4, <3>5, <3>6
    <2> QED  BY <2>2, <2>3
  <1>8. \A s \in SUBSET T : s # {} => it[s \ {First(s)}] = F(s \ {First(s)})[s \ {First(s)}]
    <2> SUFFICES ASSUME NEW s \in SUBSET T, s # {}
                 PROVE  it[s \ {First(s)}] = F(s \ {First(s)})[s \ {First(s)}]
      OBVIOUS
    <2>1. s \ {First(s)} \in SUBSET T /\ s \ {First(s)} # T  BY <1>6
    <2> HIDE DEF it
    <2> QED  BY <1>7, <2>1
  <1>9. IsFold(it, f, T)
    <2> DEFINE jt == [s \in SUBSET T |-> IF s = {} THEN 0 ELSE f[First(s)] + it[s \ {First(s)}]]
    <2>1. \A s \in SUBSET T : it[s] = jt[s]
      <3> SUFFICES ASSUME NEW s \in SUBSET T PROVE it[s] = jt[s]
        OBVIOUS
      <3>1. jt[s] = IF s = {} THEN 0 ELSE f[First(s)] + it[s \ {First(s)}]
        <4> HIDE DEF it
        <4> QED  OBVIOUS
      <3>2. it[s] = IF s = {} THEN 0 ELSE f[First(s)] + F(s \ {First(s)})[s \ {First(s)}]
        OBVIOUS
      <3> HIDE DEF it, jt
      <3> QED  BY <1>8, <3>1, <3>2
    <2>2. it = [s \in SUBSET T |-> it[s]]  OBVIOUS
    <2>3. jt = [s \in SUBSET T |-> jt[s]]
      <3> HIDE DEF it
      <3> QED  OBVIOUS
    <2>4. it = jt
      <3> HIDE DEF it, jt
      <3> QED  BY <2>1, <2>2, <2>3
    <2> HIDE DEF it
    <2> QED  BY <2>4 DEF IsFold
  <1> QED  BY <1>3, <1>9

\* The sum is taken by the fold.
LEMMA SumIsFold ==
    ASSUME NEW f, NEW S, IsFiniteSet(S)
    PROVE  \E it : IsFold(it, f, S) /\ SumFunctionOnSet(f, S) = it[S]
  <1> DEFINE it == CHOOSE iter : IsFold(iter, f, S)
  <1>1. SumFunctionOnSet(f, S) = it[S]
    BY DEF SumFunctionOnSet, FoldFunctionOnSet, MapThenFoldSet, IsFold, First
  <1>2. IsFold(it, f, S)
    BY FoldExists
  <1> QED  BY <1>1, <1>2

\* The sum, element by element in the order of the fold.
LEMMA SumFirst ==
    ASSUME NEW f, NEW S, IsFiniteSet(S)
    PROVE  /\ S = {} => SumFunctionOnSet(f, S) = 0
           /\ S # {} => /\ First(S) \in S
                        /\ SumFunctionOnSet(f, S) = f[First(S)] + SumFunctionOnSet(f, S \ {First(S)})
  <1>1. PICK a : IsFold(a, f, S) /\ SumFunctionOnSet(f, S) = a[S]
    BY SumIsFold
  <1>2. /\ S = {} => a[S] = 0
        /\ S # {} => First(S) \in S /\ a[S] = f[First(S)] + a[S \ {First(S)}]
    <2>1. S \in SUBSET S /\ IsFold(a, f, S)  BY <1>1
    <2> QED  BY <2>1, FoldOf
  <1> DEFINE T == S \ {First(S)}
  <1>3. T \in SUBSET S /\ IsFiniteSet(T)  BY FS_Subset
  <1> HIDE DEF T
  <1>4. PICK b : IsFold(b, f, T) /\ SumFunctionOnSet(f, T) = b[T]
    BY <1>3, SumIsFold
  <1>5. a[T] = b[T]
    BY <1>1, <1>3, <1>4, FoldsAgree
  <1> QED  BY <1>1, <1>2, <1>4, <1>5 DEF T

\* It is a number, and any of the elements may be the first.
LEMMA SumAny ==
    ASSUME NEW f, NEW S, IsFiniteSet(S), \A x \in S : f[x] \in Int
    PROVE  /\ SumFunctionOnSet(f, S) \in Int
           /\ \A y \in S : SumFunctionOnSet(f, S) = f[y] + SumFunctionOnSet(f, S \ {y})
  <1> DEFINE Sum(T) == SumFunctionOnSet(f, T)
             Fine(T) == Sum(T) \in Int /\ \A y \in T : Sum(T) = f[y] + Sum(T \ {y})
             Bad == {T \in SUBSET S : ~Fine(T)}
  <1>1. SUFFICES ASSUME Bad # {} PROVE FALSE
    OBVIOUS
  <1>2. PICK T \in Bad : \A U \in Bad : U \subseteq T => U = T
    <2>1. Bad \in SUBSET SUBSET S  OBVIOUS
    <2> HIDE DEF Bad
    <2> QED  BY <1>1, <2>1, SmallestSet
  <1> DEFINE x == First(T)
             R == T \ {x}
  <1>3. T \in SUBSET S /\ ~Fine(T)  BY <1>2
  <1>4. \A U \in SUBSET T : IsFiniteSet(U)  BY <1>3, FS_Subset
  <1>5. /\ T = {} => Sum(T) = 0
        /\ T # {} => x \in T /\ Sum(T) = f[x] + Sum(R)
    BY <1>4, SumFirst
  <1>6. \A U \in SUBSET T : U # T => Fine(U)
    <2> HIDE DEF Fine
    <2> QED  BY <1>2, <1>3
  <1> HIDE DEF Sum, x
  <1>7. T # {} => \A y \in T : f[y] \in Int /\ R # T  BY <1>3, <1>5
  <1>8. Sum(T) \in Int
    <2>1. T # {} => Sum(R) \in Int /\ f[x] \in Int  BY <1>5, <1>6, <1>7
    <2> QED  BY <1>5, <2>1
  <1>9. ASSUME NEW y \in T PROVE Sum(T) = f[y] + Sum(T \ {y})
    <2>1. CASE y = x  BY <1>5, <2>1
    <2>2. CASE y # x
      <3> DEFINE V == T \ {y}
                 W == R \ {y}
      <3>1. x \in T /\ y \in R /\ x \in V /\ V # T /\ R # T /\ W # T  BY <1>5, <2>2
      <3>2. W = V \ {x}  OBVIOUS
      <3>3. Sum(R) = f[y] + Sum(W)  BY <1>6, <3>1
      <3>4. Sum(V) = f[x] + Sum(W)  BY <1>6, <3>1, <3>2
      <3>5. Sum(W) \in Int /\ f[x] \in Int /\ f[y] \in Int  BY <1>6, <1>7, <3>1
      <3>6. Sum(T) = f[x] + Sum(R)  BY <1>5
      <3> HIDE DEF V, W, R
      <3>7. Sum(T) = f[y] + Sum(V)  BY <3>3, <3>4, <3>5, <3>6
      <3> QED  BY <3>7 DEF V
    <2> QED  BY <2>1, <2>2
  <1> QED  BY <1>3, <1>8, <1>9

\* Functions that agree have the same sum.
LEMMA SumSame ==
    ASSUME NEW f, NEW g, NEW S, IsFiniteSet(S), \A x \in S : f[x] = g[x]
    PROVE  SumFunctionOnSet(f, S) = SumFunctionOnSet(g, S)
  <1> DEFINE Bad == {T \in SUBSET S : SumFunctionOnSet(f, T) # SumFunctionOnSet(g, T)}
  <1>1. SUFFICES ASSUME Bad # {} PROVE FALSE
    OBVIOUS
  <1>2. PICK T \in Bad : \A U \in Bad : U \subseteq T => U = T
    <2>1. Bad \in SUBSET SUBSET S  OBVIOUS
    <2> HIDE DEF Bad
    <2> QED  BY <1>1, <2>1, SmallestSet
  <1> DEFINE x == First(T)
             R == T \ {x}
  <1>3. T \in SUBSET S /\ SumFunctionOnSet(f, T) # SumFunctionOnSet(g, T)  BY <1>2
  <1>4. IsFiniteSet(T)  BY <1>3, FS_Subset
  <1>5. /\ T = {} => SumFunctionOnSet(f, T) = 0 /\ SumFunctionOnSet(g, T) = 0
        /\ T # {} => /\ x \in T
                     /\ SumFunctionOnSet(f, T) = f[x] + SumFunctionOnSet(f, R)
                     /\ SumFunctionOnSet(g, T) = g[x] + SumFunctionOnSet(g, R)
    BY <1>4, SumFirst
  <1> HIDE DEF x
  <1>6. T # {} => R \in SUBSET S /\ R \notin Bad /\ f[x] = g[x]  BY <1>2, <1>3, <1>5
  <1>7. T # {} => SumFunctionOnSet(f, R) = SumFunctionOnSet(g, R)  BY <1>6
  <1> QED  BY <1>3, <1>5, <1>6, <1>7

\* A function with one more argument.
LEMMA SumOneMore ==
    ASSUME NEW f, NEW g, NEW y, y \notin DOMAIN f, DOMAIN g = DOMAIN f \cup {y}, IsFiniteSet(DOMAIN f),
           \A x \in DOMAIN f : g[x] = f[x] /\ f[x] \in Int, g[y] \in Int
    PROVE  SumFunction(g) = SumFunction(f) + g[y] /\ SumFunction(f) \in Int
  <1>1. IsFiniteSet(DOMAIN g)  BY FS_AddElement
  <1>2. \A x \in DOMAIN g : g[x] \in Int  OBVIOUS
  <1>3. SumFunctionOnSet(g, DOMAIN g) = g[y] + SumFunctionOnSet(g, DOMAIN g \ {y})
    BY <1>1, <1>2, SumAny
  <1>4. DOMAIN g \ {y} = DOMAIN f  OBVIOUS
  <1>5. SumFunctionOnSet(g, DOMAIN f) = SumFunctionOnSet(f, DOMAIN f)  BY SumSame
  <1>6. SumFunctionOnSet(f, DOMAIN f) \in Int  BY SumAny
  <1> QED  BY <1>3, <1>4, <1>5, <1>6 DEF SumFunction

\* No arguments, and one.
LEMMA SumFew ==
    ASSUME NEW f
    PROVE  /\ DOMAIN f = {} => SumFunction(f) = 0
           /\ \A y : DOMAIN f = {y} /\ f[y] \in Int => SumFunction(f) = f[y]
  <1>1. ASSUME DOMAIN f = {} PROVE SumFunction(f) = 0
    BY <1>1, SumFirst, FS_EmptySet DEF SumFunction
  <1>2. ASSUME NEW y, DOMAIN f = {y}, f[y] \in Int PROVE SumFunction(f) = f[y]
    <2>1. IsFiniteSet({y}) /\ IsFiniteSet({}) /\ {y} \ {y} = {}  BY FS_Singleton, FS_EmptySet
    <2>2. SumFunctionOnSet(f, {y}) = f[y] + SumFunctionOnSet(f, {})  BY <1>2, <2>1, SumAny
    <2>3. SumFunctionOnSet(f, {}) = 0  BY <2>1, SumFirst
    <2> QED  BY <1>2, <2>2, <2>3 DEF SumFunction
  <1> QED  BY <1>1, <1>2

\* One more than the numbers up to n - 1.
LEMMA OneToOneMore ==
    ASSUME NEW n \in Nat \ {0}
    PROVE  /\ n \notin 1 .. n - 1 /\ 1 .. n = (1 .. n - 1) \cup {n} /\ IsFiniteSet(1 .. n - 1)
           /\ \A j \in 1 .. n - 1 : j \in 1 .. n
  <1>1. IsFiniteSet(1 .. n - 1)
    <2>1. 1 \in Int /\ n - 1 \in Int  OBVIOUS
    <2> QED  BY <2>1, FS_Interval
  <1>2. n \notin 1 .. n - 1 /\ 1 .. n = (1 .. n - 1) \cup {n} /\ \A j \in 1 .. n - 1 : j \in 1 .. n
    OBVIOUS
  <1> QED  BY <1>1, <1>2

\* Of natural numbers, a part adds up to no more than the whole.
LEMMA SumSubset ==
    ASSUME NEW f, NEW S, IsFiniteSet(S), \A x \in S : f[x] \in Nat, NEW T \in SUBSET S
    PROVE  /\ SumFunctionOnSet(f, T) \in Nat /\ SumFunctionOnSet(f, S) \in Nat
           /\ SumFunctionOnSet(f, T) <= SumFunctionOnSet(f, S)
  <1>1. ASSUME NEW P \in SUBSET S, NEW Q \in SUBSET S, P \subseteq Q
        PROVE  SumFunctionOnSet(f, P) <= SumFunctionOnSet(f, Q)
    <2> DEFINE Bad == {U \in SUBSET S : P \subseteq U /\ ~(SumFunctionOnSet(f, P) <= SumFunctionOnSet(f, U))}
    <2>1. SUFFICES ASSUME Bad # {} PROVE FALSE
      BY <1>1
    <2>2. PICK U \in Bad : \A V \in Bad : V \subseteq U => V = U
      <3>1. Bad \in SUBSET SUBSET S  OBVIOUS
      <3> HIDE DEF Bad
      <3> QED  BY <2>1, <3>1, SmallestSet
    <2>3. U \in SUBSET S /\ P \subseteq U /\ ~(SumFunctionOnSet(f, P) <= SumFunctionOnSet(f, U))  BY <2>2
    <2>4. IsFiniteSet(U) /\ IsFiniteSet(P) /\ \A x \in U : f[x] \in Int  BY <2>3, FS_Subset
    <2>5. SumFunctionOnSet(f, U) \in Int /\ SumFunctionOnSet(f, P) \in Int  BY <2>3, <2>4, SumAny
    <2>6. U # P  BY <2>3, <2>5
    <2>7. PICK y \in U : y \notin P  BY <2>3, <2>6
    <2> DEFINE V == U \ {y}
    <2>8. V \in SUBSET S /\ P \subseteq V /\ V \notin Bad  BY <2>2, <2>3, <2>7
    <2>9. SumFunctionOnSet(f, P) <= SumFunctionOnSet(f, V)  BY <2>8
    <2>10. SumFunctionOnSet(f, U) = f[y] + SumFunctionOnSet(f, V)  BY <2>4, SumAny
    <2>11. SumFunctionOnSet(f, V) \in Int
      <3>1. IsFiniteSet(V) /\ \A x \in V : f[x] \in Int  BY <2>4, FS_Subset
      <3> HIDE DEF V
      <3> QED  BY <3>1, SumAny
    <2>12. f[y] \in Nat  BY <2>3
    <2> HIDE DEF V
    <2> QED  BY <2>3, <2>5, <2>9, <2>10, <2>11, <2>12
  <1>2. \A U \in SUBSET S : IsFiniteSet(U) /\ \A x \in U : f[x] \in Int  BY FS_Subset
  <1>3. \A U \in SUBSET S : SumFunctionOnSet(f, U) \in Int  BY <1>2, SumAny
  <1>4. SumFunctionOnSet(f, {}) = 0  BY <1>2, SumFirst
  <1>5. \A U \in SUBSET S : 0 <= SumFunctionOnSet(f, U)  BY <1>1, <1>4
  <1> QED  BY <1>1, <1>3, <1>5

\* What is covered by two sets adds up to no more than both.
LEMMA SumCover ==
    ASSUME NEW f, NEW S, IsFiniteSet(S), \A x \in S : f[x] \in Nat,
           NEW T \in SUBSET S, NEW U \in SUBSET S, NEW C \in SUBSET (T \cup U)
    PROVE  SumFunctionOnSet(f, C) <= SumFunctionOnSet(f, T) + SumFunctionOnSet(f, U)
  <1> DEFINE Sum(X) == SumFunctionOnSet(f, X)
             Bad == {X \in SUBSET C : ~(Sum(X) <= Sum(X \cap T) + Sum(X \cap U))}
  <1>1. \A X \in SUBSET S : Sum(X) \in Nat /\ IsFiniteSet(X)  BY SumSubset, FS_Subset
  <1>2. \A X \in SUBSET S : \A Y \in SUBSET X : Sum(Y) <= Sum(X)
    <2> SUFFICES ASSUME NEW X \in SUBSET S, NEW Y \in SUBSET X PROVE Sum(Y) <= Sum(X)
      OBVIOUS
    <2>1. IsFiniteSet(X) /\ \A x \in X : f[x] \in Nat  BY FS_Subset
    <2> QED  BY <2>1, SumSubset
  <1>3. \A X \in SUBSET S : \A y \in X : Sum(X) = f[y] + Sum(X \ {y})
    <2> SUFFICES ASSUME NEW X \in SUBSET S PROVE \A y \in X : Sum(X) = f[y] + Sum(X \ {y})
      OBVIOUS
    <2>1. IsFiniteSet(X) /\ \A x \in X : f[x] \in Int  BY FS_Subset
    <2> QED  BY <2>1, SumAny
  <1>4. Sum({}) = 0  BY FS_EmptySet, SumFirst
  <1> HIDE DEF Sum
  <1>5. ASSUME Bad # {} PROVE FALSE
    <2>1. PICK X \in Bad : \A V \in Bad : V \subseteq X => V = X
      <3>1. Bad \in SUBSET SUBSET C /\ IsFiniteSet(C)  BY <1>1
      <3> HIDE DEF Bad
      <3> QED  BY <1>5, <3>1, SmallestSet
    <2>2. X \in SUBSET C /\ X \in SUBSET S /\ ~(Sum(X) <= Sum(X \cap T) + Sum(X \cap U))  BY <2>1
    <2>3. X # {}
      <3> SUFFICES ASSUME X = {} PROVE FALSE
        OBVIOUS
      <3>1. X \cap T = {} /\ X \cap U = {}  OBVIOUS
      <3>2. Sum(X) = 0 /\ Sum(X \cap T) = 0 /\ Sum(X \cap U) = 0  BY <1>4, <3>1
      <3> QED  BY <2>2, <3>2
    <2>4. PICK y \in X : TRUE  BY <2>3
    <2> DEFINE Y == X \ {y}
    <2>5. Y \in SUBSET C /\ Y \in SUBSET S /\ Y \notin Bad  BY <2>1, <2>2
    <2>6. Sum(Y) <= Sum(Y \cap T) + Sum(Y \cap U)  BY <2>5
    <2>7. Sum(X) = f[y] + Sum(Y)  BY <1>3, <2>2
    <2>8. ASSUME NEW P \in {T, U}
          PROVE  /\ Sum(Y \cap P) <= Sum(X \cap P)
                 /\ y \in P => Sum(X \cap P) = f[y] + Sum(Y \cap P)
      <3>1. X \cap P \in SUBSET S /\ Y \cap P \in SUBSET (X \cap P)  BY <2>2
      <3>2. (X \cap P) \ {y} = Y \cap P  OBVIOUS
      <3> HIDE DEF Y
      <3> QED  BY <1>2, <1>3, <3>1, <3>2
    <2>9. y \in T \/ y \in U  BY <2>2
    <2>10. /\ Sum(X) \in Nat /\ Sum(Y) \in Nat /\ Sum(X \cap T) \in Nat /\ Sum(X \cap U) \in Nat
           /\ Sum(Y \cap T) \in Nat /\ Sum(Y \cap U) \in Nat /\ f[y] \in Nat
      BY <1>1, <2>2
    <2> HIDE DEF Y
    <2> QED  BY <2>2, <2>6, <2>7, <2>8, <2>9, <2>10
  <1>6. Sum(C) <= Sum(C \cap T) + Sum(C \cap U)  BY <1>5
  <1>7. Sum(C \cap T) <= Sum(T) /\ Sum(C \cap U) <= Sum(U)
    <2>1. C \cap T \in SUBSET T /\ C \cap U \in SUBSET U  OBVIOUS
    <2> QED  BY <1>2, <2>1
  <1>8. Sum(C) \in Nat /\ Sum(T) \in Nat /\ Sum(U) \in Nat /\ Sum(C \cap T) \in Nat /\ Sum(C \cap U) \in Nat
    BY <1>1
  <1> QED  BY <1>6, <1>7, <1>8 DEF Sum

\* One more for one of the arguments is one more in all.
LEMMA SumOneUp ==
    ASSUME NEW f, NEW g, NEW S, IsFiniteSet(S), \A x \in S : f[x] \in Nat, NEW y,
           g[y] = f[y] + 1, \A x \in S : x # y => g[x] = f[x]
    PROVE  \A T \in SUBSET S :
              /\ y \in T => SumFunctionOnSet(g, T) = SumFunctionOnSet(f, T) + 1
              /\ y \notin T => SumFunctionOnSet(g, T) = SumFunctionOnSet(f, T)
  <1> SUFFICES ASSUME NEW T \in SUBSET S
               PROVE  /\ y \in T => SumFunctionOnSet(g, T) = SumFunctionOnSet(f, T) + 1
                      /\ y \notin T => SumFunctionOnSet(g, T) = SumFunctionOnSet(f, T)
    OBVIOUS
  <1>0. IsFiniteSet(T)  BY FS_Subset
  <1>1. CASE y \notin T
    <2>1. \A x \in T : g[x] = f[x]  BY <1>1
    <2> QED  BY <1>0, <1>1, <2>1, SumSame
  <1>2. CASE y \in T
    <2> DEFINE R == T \ {y}
    <2>1. \A x \in T : g[x] \in Int /\ f[x] \in Int
      <3>1. \A x \in T : x = y \/ x # y  OBVIOUS
      <3> QED  BY <3>1
    <2>2. SumFunctionOnSet(g, T) = g[y] + SumFunctionOnSet(g, R) /\ SumFunctionOnSet(f, T) = f[y] + SumFunctionOnSet(f, R)
      BY <1>0, <1>2, <2>1, SumAny
    <2>3. IsFiniteSet(R) /\ (\A x \in R : g[x] = f[x]) /\ \A x \in R : f[x] \in Int  BY <1>0, <2>1, FS_Subset
    <2>4. f[y] \in Int  BY <1>2, <2>1
    <2> HIDE DEF R
    <2>5. SumFunctionOnSet(g, R) = SumFunctionOnSet(f, R)  BY <2>3, SumSame
    <2>6. SumFunctionOnSet(f, R) \in Int  BY <2>3, SumAny
    <2> QED  BY <1>2, <2>2, <2>4, <2>5, <2>6
  <1> QED  BY <1>1, <1>2

\* Nothings add up to nothing.
LEMMA SumZero ==
    ASSUME NEW f, NEW S, IsFiniteSet(S), \A x \in S : f[x] = 0
    PROVE  SumFunctionOnSet(f, S) = 0
  <1> DEFINE Bad == {T \in SUBSET S : SumFunctionOnSet(f, T) # 0}
  <1>1. SUFFICES ASSUME Bad # {} PROVE FALSE
    OBVIOUS
  <1>2. PICK T \in Bad : \A U \in Bad : U \subseteq T => U = T
    <2>1. Bad \in SUBSET SUBSET S  OBVIOUS
    <2> HIDE DEF Bad
    <2> QED  BY <1>1, <2>1, SmallestSet
  <1> DEFINE R == T \ {First(T)}
  <1>3. T \in SUBSET S /\ SumFunctionOnSet(f, T) # 0 /\ IsFiniteSet(T)  BY <1>2, FS_Subset
  <1>4. /\ T # {} /\ First(T) \in T
        /\ SumFunctionOnSet(f, T) = f[First(T)] + SumFunctionOnSet(f, R)
    BY <1>3, SumFirst
  <1>5. R \in SUBSET S /\ R \notin Bad  BY <1>2, <1>3, <1>4
  <1>6. SumFunctionOnSet(f, R) = 0  BY <1>5
  <1>7. f[First(T)] = 0  BY <1>3, <1>4
  <1> QED  BY <1>3, <1>4, <1>6, <1>7

\* A set of natural numbers up to N has a largest one.
LEMMA Largest ==
    ASSUME NEW N \in Nat, NEW R, R = 0 .. N, NEW L \in SUBSET R, NEW l \in L
    PROVE  \E n \in L : \A m \in L : m <= n
  <1> DEFINE Below(x) == 0 .. (N - x)
             Bad == {Below(x) : x \in L}
  <1>1. Bad \in SUBSET SUBSET (0 .. N) /\ Bad # {} /\ IsFiniteSet(0 .. N)
    <2>1. IsFiniteSet(0 .. N)  BY FS_Interval
    <2>2. \A x \in L : Below(x) \subseteq 0 .. N  OBVIOUS
    <2> HIDE DEF Below
    <2> QED  BY <2>1, <2>2
  <1>2. PICK T \in Bad : \A U \in Bad : U \subseteq T => U = T
    <2>1. PICK S : S = 0 .. N  OBVIOUS
    <2> HIDE DEF Bad
    <2>2. Bad \in SUBSET SUBSET S /\ Bad # {} /\ IsFiniteSet(S)  BY <1>1, <2>1
    <2> QED  BY <2>2, SmallestSet
  <1>3. PICK n \in L : T = Below(n)  BY <1>2
  <1>4. ASSUME NEW m \in L, n < m PROVE FALSE
    <2>1. m \in Int /\ n \in Int /\ m <= N /\ n <= N /\ 0 <= n  BY <1>4
    <2>2. Below(m) \subseteq Below(n)  BY <1>4, <2>1
    <2>3. (N - n) \in Below(n) /\ (N - n) \notin Below(m)  BY <1>4, <2>1
    <2>4. Below(m) \in Bad  OBVIOUS
    <2> HIDE DEF Below, Bad
    <2> QED  BY <1>2, <1>3, <2>2, <2>3, <2>4
  <1> QED  BY <1>4
===============================================================================
