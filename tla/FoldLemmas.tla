----------------------------- MODULE FoldLemmas -------------------------------
(***************************************************************************)
(* Folds over finite sets: that one exists, that it is the only one, and   *)
(* what it keeps; then the sums of the library and the loops, as such      *)
(* folds.  They are proved by a smallest counterexample, as the inclusion  *)
(* of finite sets is well founded.                                         *)
(***************************************************************************)
EXTENDS Loops, FiniteSetTheorems, TLAPS

\* Among sets of parts of a finite set, one has no smaller one beside it: a counterexample
\* that is smallest stands for induction on finite sets.
LEMMA SmallestSet ==
  ASSUME NEW S, IsFiniteSet(S), NEW Bad \in SUBSET SUBSET S, Bad # {}
  PROVE  \E T \in Bad : \A U \in Bad : U \subseteq T => U = T
<1>1. Bad \subseteq FiniteSubsetsOf(S)
  BY FS_FiniteSubsetsOfFinite
<1>2. PICK T \in Bad : \A U \in Bad : <<U, T>> \notin StrictSubsetOrdering(S)
  BY <1>1, FS_StrictSubsetOrderingWellFounded, WFMin
<1> QED BY <1>2 DEF StrictSubsetOrdering

\* A set of numbers has a smallest one.
LEMMA SmallestNumber ==
  ASSUME NEW T \in SUBSET Nat, T # {}
  PROVE  \E n \in T : \A m \in T : n <= m
<1> DEFINE R == {ss \in Nat \X Nat : ss[1] < ss[2]}
<1>1. IsWellFoundedOn(OpToRel(<, Nat), Nat)
  BY NatLessThanWellFounded
<1>2. OpToRel(<, Nat) = R
  BY DEF OpToRel
<1>3. IsWellFoundedOn(R, Nat)
  BY <1>1, <1>2
<1>4. PICK n \in T : \A m \in T : <<m, n>> \notin R
  <2> HIDE DEF R
  <2> QED BY <1>3, WFMin
<1>5. \A m \in T : ~ (m < n)
  <2> TAKE m \in T
  <2>1. <<m, n>> \in Nat \X Nat
    OBVIOUS
  <2> QED BY <1>4, <2>1
<1> QED BY <1>4, <1>5

-----------------------------------------------------------------------------
\* g folds step over the subsets of S, taking pick first.
Folds(g, S, pick, base, step) ==
  g = [s \in SUBSET S |->
         IF s = {} THEN base ELSE step[pick[s]][g[s \ {pick[s]}]]]

Picks(pick, S) == \A s \in SUBSET S : s # {} => pick[s] \in s

\* A choice from the parts of S is one from the parts of every part of S.
LEMMA PicksPart ==
  ASSUME NEW S, NEW pick, Picks(pick, S), NEW T, T \subseteq S
  PROVE  Picks(pick, T)
BY DEF Picks

\* A fold over S folds over every part of S.
LEMMA FoldRestricted ==
  ASSUME NEW S, NEW pick, Picks(pick, S), NEW base, NEW step, NEW g,
         Folds(g, S, pick, base, step), NEW T \in SUBSET S
  PROVE  Folds([s \in SUBSET T |-> g[s]], T, pick, base, step)
<1> DEFINE h == [s \in SUBSET T |-> g[s]]
<1>1. ASSUME NEW s \in SUBSET T
      PROVE  h[s] = IF s = {} THEN base ELSE step[pick[s]][h[s \ {pick[s]}]]
  <2>1. /\ s \in SUBSET S
        /\ s \ {pick[s]} \in SUBSET T
    OBVIOUS
  <2>2. g[s] = IF s = {} THEN base ELSE step[pick[s]][g[s \ {pick[s]}]]
    BY <2>1 DEF Folds
  <2> QED BY <2>1, <2>2
<1> QED BY <1>1 DEF Folds

\* A fold is determined by its step: CHOOSE can only find this one.
LEMMA FoldUnique ==
  ASSUME NEW S, IsFiniteSet(S), NEW pick, Picks(pick, S), NEW base, NEW step,
         NEW g, Folds(g, S, pick, base, step),
         NEW h, Folds(h, S, pick, base, step)
  PROVE  g = h
<1> DEFINE Bad == {s \in SUBSET S : g[s] # h[s]}
<1>1. ASSUME Bad # {} PROVE FALSE
  <2>1. PICK s \in Bad : \A u \in Bad : u \subseteq s => u = s
    <3>1. Bad \in SUBSET SUBSET S
      OBVIOUS
    <3> HIDE DEF Bad
    <3> QED BY <1>1, <3>1, SmallestSet
  <2>2. CASE s = {}
    BY <2>1, <2>2 DEF Folds
  <2>3. CASE s # {}
    <3> DEFINE u == s \ {pick[s]}
    <3>1. u \in SUBSET S /\ u # s /\ u \subseteq s
      BY <2>3 DEF Picks
    <3>2. g[u] = h[u]
      BY <3>1, <2>1
    <3>3. g[s] = step[pick[s]][g[u]] /\ h[s] = step[pick[s]][h[u]]
      BY <2>3 DEF Folds
    <3> QED BY <3>2, <3>3, <2>1
  <2> QED BY <2>2, <2>3
<1>2. \A s \in SUBSET S : g[s] = h[s]
  BY <1>1
<1> QED BY <1>2 DEF Folds

\* There is a fold over every finite set.
LEMMA FoldExists ==
  ASSUME NEW S, IsFiniteSet(S), NEW pick, Picks(pick, S), NEW base, NEW step
  PROVE  \E g : Folds(g, S, pick, base, step)
<1> DEFINE Good(T) == \E g : Folds(g, T, pick, base, step)
           Bad == {T \in SUBSET S : ~ Good(T)}
<1>1. ASSUME Bad # {} PROVE FALSE
  <2>1. PICK T \in Bad : \A U \in Bad : U \subseteq T => U = T
    <3>1. Bad \in SUBSET SUBSET S
      OBVIOUS
    <3> HIDE DEF Bad
    <3> QED BY <1>1, <3>1, SmallestSet
  <2> DEFINE G == [U \in SUBSET T |-> CHOOSE g : Folds(g, U, pick, base, step)]
             h == [s \in SUBSET T |-> IF s = {} THEN base
                     ELSE step[pick[s]][G[s \ {pick[s]}][s \ {pick[s]}]]]
  <2>2. \A U \in SUBSET T : U # T => Folds(G[U], U, pick, base, step)
    <3> TAKE U \in SUBSET T
    <3> HAVE U # T
    <3>1. Good(U)
      BY <2>1
    <3> QED BY <3>1
  <2> HIDE DEF G
  <2>3. ASSUME NEW v \in SUBSET T, v # T
        PROVE  h[v] = G[v][v]
    <3>1. Folds(G[v], v, pick, base, step)
      BY <2>2, <2>3
    <3>2. CASE v = {}
      BY <3>1, <3>2 DEF Folds
    <3>3. CASE v # {}
      <4> DEFINE u == v \ {pick[v]}
      <4>1. u \in SUBSET v /\ u # T /\ u \in SUBSET T
        BY <3>3, <2>3 DEF Picks
      <4>2. Folds(G[u], u, pick, base, step)
        BY <4>1, <2>2
      <4>3. Folds([s \in SUBSET u |-> G[v][s]], u, pick, base, step)
        <5>1. Picks(pick, v)
          <6>1. v \subseteq S
            BY <2>3
          <6> QED BY <6>1, PicksPart
        <5>2. u \subseteq v
          OBVIOUS
        <5> HIDE DEF u, h, Bad
        <5> QED BY <3>1, <5>1, <5>2, FoldRestricted
      <4>4. G[u] = [s \in SUBSET u |-> G[v][s]]
        <5>1. Picks(pick, u) /\ IsFiniteSet(u)
          BY FS_Subset, <4>1 DEF Picks
        <5> HIDE DEF u
        <5> QED BY <4>2, <4>3, <5>1, FoldUnique
      <4>5. G[u][u] = G[v][u]
        BY <4>4
      <4>6. G[v][v] = step[pick[v]][G[v][u]]
        BY <3>1, <3>3 DEF Folds
      <4> QED BY <4>5, <4>6, <3>3
    <3> QED BY <3>2, <3>3
  <2>4. ASSUME NEW s \in SUBSET T
        PROVE  h[s] = IF s = {} THEN base ELSE step[pick[s]][h[s \ {pick[s]}]]
    <3>1. CASE s = {}
      BY <3>1
    <3>2. CASE s # {}
      <4>1. s \ {pick[s]} \in SUBSET T /\ s \ {pick[s]} # T
        BY <3>2 DEF Picks
      <4>2. h[s \ {pick[s]}] = G[s \ {pick[s]}][s \ {pick[s]}]
        BY <4>1, <2>3
      <4> QED BY <3>2, <4>2
    <3> QED BY <3>1, <3>2
  <2>5. Folds(h, T, pick, base, step)
    BY <2>4 DEF Folds
  <2> QED BY <2>1, <2>5
<1> QED BY <1>1

\* What every step keeps, the fold keeps.
LEMMA FoldTyped ==
  ASSUME NEW S, IsFiniteSet(S), NEW pick, Picks(pick, S), NEW A, NEW base \in A,
         NEW step \in [S -> [A -> A]], NEW g, Folds(g, S, pick, base, step)
  PROVE  g \in [SUBSET S -> A]
<1> DEFINE Bad == {s \in SUBSET S : g[s] \notin A}
<1>1. ASSUME Bad # {} PROVE FALSE
  <2>1. PICK s \in Bad : \A u \in Bad : u \subseteq s => u = s
    <3>1. Bad \in SUBSET SUBSET S
      OBVIOUS
    <3> HIDE DEF Bad
    <3> QED BY <1>1, <3>1, SmallestSet
  <2>2. CASE s = {}
    BY <2>1, <2>2 DEF Folds
  <2>3. CASE s # {}
    <3> DEFINE u == s \ {pick[s]}
    <3>1. u \in SUBSET S /\ u # s /\ u \subseteq s /\ pick[s] \in S
      BY <2>3 DEF Picks
    <3>2. g[u] \in A
      BY <3>1, <2>1
    <3>3. g[s] = step[pick[s]][g[u]]
      BY <2>3 DEF Folds
    <3> QED BY <3>1, <3>2, <3>3, <2>1
  <2> QED BY <2>2, <2>3
<1>2. \A s \in SUBSET S : g[s] \in A
  BY <1>1
<1> QED BY <1>2 DEF Folds

-----------------------------------------------------------------------------
Sums(g, w, S) ==
  /\ g \in [SUBSET S -> Int]
  /\ g[{}] = 0
  /\ \A s \in SUBSET S : \A x \in s : g[s] = w[x] + g[s \ {x}]

\* SumFunctionOnSet of the library is such a fold.
LEMMA SumFold ==
  ASSUME NEW S, IsFiniteSet(S), NEW w, \A x \in S : w[x] \in Int
  PROVE  \E g : /\ Sums(g, w, S)
                /\ SumFunctionOnSet(w, S) = g[S]
<1> DEFINE pick == [s \in SUBSET S |-> CHOOSE x \in s : TRUE]
           step == [x \in S |-> [a \in Int |-> w[x] + a]]
<1>1. Picks(pick, S)
  BY DEF Picks
<1>2. step \in [S -> [Int -> Int]]
  OBVIOUS
<1>3. ASSUME NEW g, Folds(g, S, pick, 0, step)
      PROVE  Sums(g, w, S)
  <2>1. g \in [SUBSET S -> Int]
    <3>1. 0 \in Int
      OBVIOUS
    <3> HIDE DEF pick, step
    <3> QED BY <1>1, <1>2, <1>3, <3>1, FoldTyped
  <2>2. \A s \in SUBSET S : s # {} =>
          pick[s] \in s /\ g[s] = w[pick[s]] + g[s \ {pick[s]}]
    <3> TAKE s \in SUBSET S
    <3> HAVE s # {}
    <3>1. pick[s] \in s
      BY <1>1 DEF Picks
    <3>2. g[s] = step[pick[s]][g[s \ {pick[s]}]]
      <4> HIDE DEF pick, step
      <4> QED BY <1>3 DEF Folds
    <3>3. g[s \ {pick[s]}] \in Int
      <4> HIDE DEF pick
      <4> QED BY <2>1
    <3> QED BY <3>1, <3>2, <3>3
  <2>3. g[{}] = 0
    BY <1>3 DEF Folds
  <2> HIDE DEF pick, step
  <2> DEFINE Bad == {s \in SUBSET S : \E x \in s : g[s] # w[x] + g[s \ {x}]}
  <2>4. ASSUME Bad # {} PROVE FALSE
    <3>1. PICK s \in Bad : \A u \in Bad : u \subseteq s => u = s
      <4>1. Bad \in SUBSET SUBSET S
        OBVIOUS
      <4> HIDE DEF Bad
      <4> QED BY <2>4, <4>1, SmallestSet
    <3>2. PICK x \in s : g[s] # w[x] + g[s \ {x}]
      BY <3>1
    <3>3. PICK c \in s : g[s] = w[c] + g[s \ {c}]
      BY <2>2, <3>2
    <3>4. c # x
      BY <3>2, <3>3
    <3>5. g[s \ {c}] = w[x] + g[(s \ {c}) \ {x}]
      BY <3>1, <3>2, <3>3, <3>4
    <3>6. g[s \ {x}] = w[c] + g[(s \ {x}) \ {c}]
      BY <3>1, <3>2, <3>3, <3>4
    <3>7. g[(s \ {c}) \ {x}] = g[(s \ {x}) \ {c}]
      <4>1. (s \ {c}) \ {x} = (s \ {x}) \ {c}
        OBVIOUS
      <4> QED BY <4>1
    <3>8. g[(s \ {x}) \ {c}] \in Int /\ w[c] \in Int /\ w[x] \in Int
      BY <2>1, <3>2, <3>3
    <3> HIDE DEF Bad
    <3>9. g[s] = w[x] + g[s \ {x}]
      BY <3>3, <3>5, <3>6, <3>7, <3>8
    <3> QED BY <3>2, <3>9
  <2>5. \A s \in SUBSET S : \A x \in s : g[s] = w[x] + g[s \ {x}]
    BY <2>4
  <2> QED BY <2>1, <2>3, <2>5 DEF Sums
<1>4. \E g : Folds(g, S, pick, 0, step)
  <2> HIDE DEF pick, step
  <2> QED BY <1>1, FoldExists
<1> DEFINE Recursion(g) ==
      g = [s \in SUBSET S |->
             IF s = {} THEN 0
             ELSE w[CHOOSE x \in s : TRUE] + g[s \ {CHOOSE x \in s : TRUE}]]
<1>5. ASSUME NEW g, Folds(g, S, pick, 0, step)
      PROVE  Recursion(g)
  <2>1. g \in [SUBSET S -> Int]
    BY <1>3, <1>5 DEF Sums
  <2>2. ASSUME NEW s \in SUBSET S
        PROVE  g[s] = IF s = {} THEN 0
             ELSE w[CHOOSE x \in s : TRUE] + g[s \ {CHOOSE x \in s : TRUE}]
    <3>1. CASE s = {}
      BY <3>1, <1>5 DEF Folds
    <3>2. CASE s # {}
      <4>1. pick[s] = CHOOSE x \in s : TRUE
        OBVIOUS
      <4>2. g[s] = step[pick[s]][g[s \ {pick[s]}]]
        <5> HIDE DEF pick, step
        <5> QED BY <1>5, <3>2 DEF Folds
      <4>3. pick[s] \in S /\ g[s \ {pick[s]}] \in Int
        BY <1>1, <2>1, <3>2 DEF Picks
      <4>4. g[s] = w[pick[s]] + g[s \ {pick[s]}]
        BY <4>2, <4>3
      <4> QED BY <4>1, <4>4, <3>2
    <3> QED BY <3>1, <3>2
  <2> QED BY <2>1, <2>2
<1>6. ASSUME NEW g, Recursion(g)
      PROVE  Folds(g, S, pick, 0, step)
  <2>0. \A s \in SUBSET S : s = {} => g[s] = 0
    BY <1>6
  <2>1. \A s \in SUBSET S : s # {} => g[s] = w[pick[s]] + g[s \ {pick[s]}]
    BY <1>6
  <2> HIDE DEF pick, step, Recursion
  <2>2. \A s \in SUBSET S : g[s] \in Int
    <3> DEFINE Bad == {s \in SUBSET S : g[s] \notin Int}
    <3>1. ASSUME Bad # {} PROVE FALSE
      <4>1. PICK s \in Bad : \A u \in Bad : u \subseteq s => u = s
        <5>1. Bad \in SUBSET SUBSET S
          OBVIOUS
        <5> HIDE DEF Bad
        <5> QED BY <3>1, <5>1, SmallestSet
      <4>2. s # {}
        BY <2>0, <4>1
      <4>3. pick[s] \in s /\ w[pick[s]] \in Int
        BY <1>1, <4>2 DEF Picks
      <4>4. g[s \ {pick[s]}] \in Int
        BY <4>1, <4>3
      <4>5. g[s] = w[pick[s]] + g[s \ {pick[s]}]
        BY <2>1, <4>2
      <4> QED BY <4>1, <4>3, <4>4, <4>5
    <3> QED BY <3>1
  <2>3. ASSUME NEW s \in SUBSET S
        PROVE  g[s] = IF s = {} THEN 0 ELSE step[pick[s]][g[s \ {pick[s]}]]
    <3>1. CASE s = {}
      BY <3>1, <2>0
    <3>2. CASE s # {}
      <4>1. pick[s] \in S /\ g[s \ {pick[s]}] \in Int
        BY <1>1, <2>2, <3>2 DEF Picks
      <4>2. step[pick[s]][g[s \ {pick[s]}]] = w[pick[s]] + g[s \ {pick[s]}]
        BY <4>1 DEF step
      <4> QED BY <4>2, <2>1, <3>2
    <3> QED BY <3>1, <3>2
  <2>4. g = [s \in SUBSET S |-> g[s]]
    BY <1>6 DEF Recursion
  <2> QED BY <2>3, <2>4 DEF Folds
<1>7. SumFunctionOnSet(w, S) = (CHOOSE g : Recursion(g))[S]
  BY DEF SumFunctionOnSet, FoldFunctionOnSet, MapThenFoldSet
<1>8. Recursion(CHOOSE g : Recursion(g))
  <2> HIDE DEF pick, step, Recursion
  <2> QED BY <1>4, <1>5
<1> HIDE DEF pick, step, Recursion
<1> QED BY <1>3, <1>6, <1>7, <1>8

\* Sums of functions that agree on a set agree on its parts.
LEMMA SumsAgree ==
  ASSUME NEW S, IsFiniteSet(S), NEW T, NEW w, \A x \in S \cap T : w[x] \in Int,
         NEW v, \A x \in S \cap T : v[x] = w[x],
         NEW g, Sums(g, w, S), NEW h, Sums(h, v, T), NEW s \in SUBSET (S \cap T)
  PROVE  g[s] = h[s]
<1> DEFINE Bad == {u \in SUBSET (S \cap T) : g[u] # h[u]}
<1>1. ASSUME Bad # {} PROVE FALSE
  <2>1. PICK u \in Bad : \A r \in Bad : r \subseteq u => r = u
    <3>1. Bad \in SUBSET SUBSET S
      OBVIOUS
    <3> HIDE DEF Bad
    <3> QED BY <1>1, <3>1, SmallestSet
  <2>2. \A r \in SUBSET S : r = {} => g[r] = 0
    BY DEF Sums
  <2>3. \A r \in SUBSET T : r = {} => h[r] = 0
    BY DEF Sums
  <2>4. u # {}
    BY <2>1, <2>2, <2>3
  <2>5. PICK x : x \in u
    BY <2>4
  <2>6. g[u \ {x}] = h[u \ {x}]
    BY <2>1, <2>5
  <2>7. g[u] = w[x] + g[u \ {x}]
    BY <2>5 DEF Sums
  <2>8. h[u] = v[x] + h[u \ {x}]
    BY <2>5 DEF Sums
  <2> QED BY <2>1, <2>5, <2>6, <2>7, <2>8
<1> QED BY <1>1

\* Nothing adds up to nothing.
LEMMA SumEmpty == ASSUME NEW w PROVE SumFunctionOnSet(w, {}) = 0
<1>1. PICK g : Sums(g, w, {}) /\ SumFunctionOnSet(w, {}) = g[{}]
  BY SumFold, FS_EmptySet
<1> QED BY <1>1 DEF Sums

\* The sum of integers is an integer.
LEMMA SumType ==
  ASSUME NEW S, IsFiniteSet(S), NEW w, \A x \in S : w[x] \in Int
  PROVE  SumFunctionOnSet(w, S) \in Int
<1>1. PICK g : Sums(g, w, S) /\ SumFunctionOnSet(w, S) = g[S]
  BY SumFold
<1> QED BY <1>1 DEF Sums

\* Functions that agree on a set have the same sum on it.
LEMMA SumSame ==
  ASSUME NEW S, IsFiniteSet(S), NEW w, \A x \in S : w[x] \in Int,
         NEW v, \A x \in S : v[x] = w[x]
  PROVE  SumFunctionOnSet(v, S) = SumFunctionOnSet(w, S)
<1>1. PICK g : Sums(g, w, S) /\ SumFunctionOnSet(w, S) = g[S]
  BY SumFold
<1>2. PICK h : Sums(h, v, S) /\ SumFunctionOnSet(v, S) = h[S]
  BY SumFold
<1>3. S \in SUBSET (S \cap S)
  OBVIOUS
<1>4. /\ \A x \in S \cap S : w[x] \in Int
      /\ \A x \in S \cap S : v[x] = w[x]
  OBVIOUS
<1>5. g[S] = h[S]
  <2>1. Sums(g, w, S) /\ Sums(h, v, S)
    BY <1>1, <1>2
  <2> QED BY <1>3, <1>4, <2>1, SumsAgree
<1> QED BY <1>1, <1>2, <1>5

\* One member can be taken out of a sum ...
LEMMA SumRemove ==
  ASSUME NEW S, IsFiniteSet(S), NEW w, \A x \in S : w[x] \in Int, NEW x \in S
  PROVE  SumFunctionOnSet(w, S) = w[x] + SumFunctionOnSet(w, S \ {x})
<1> DEFINE T == S \ {x}
<1>1. PICK g : Sums(g, w, S) /\ SumFunctionOnSet(w, S) = g[S]
  BY SumFold
<1>2. IsFiniteSet(T) /\ T \in SUBSET S
  BY FS_Subset
<1>3. PICK h : Sums(h, w, T) /\ SumFunctionOnSet(w, T) = h[T]
  BY <1>2, SumFold
<1>4. g[T] = h[T]
  <2>1. T \in SUBSET (S \cap T) /\ \A y \in S \cap T : w[y] \in Int
    OBVIOUS
  <2> HIDE DEF T
  <2> QED BY <1>1, <1>3, <2>1, SumsAgree
<1>5. g[S] = w[x] + g[T]
  BY <1>1 DEF Sums
<1> QED BY <1>1, <1>3, <1>4, <1>5

\* ... or put into it.
LEMMA SumAdd ==
  ASSUME NEW S, IsFiniteSet(S), NEW x, x \notin S, NEW w,
         \A y \in S \cup {x} : w[y] \in Int
  PROVE  SumFunctionOnSet(w, S \cup {x}) = SumFunctionOnSet(w, S) + w[x]
<1>1. IsFiniteSet(S \cup {x})
  BY FS_AddElement
<1>2. SumFunctionOnSet(w, S \cup {x}) = w[x] + SumFunctionOnSet(w, (S \cup {x}) \ {x})
  BY <1>1, SumRemove
<1>3. SumFunctionOnSet(w, (S \cup {x}) \ {x}) = SumFunctionOnSet(w, S)
  <2>1. (S \cup {x}) \ {x} = S
    OBVIOUS
  <2> QED BY <2>1, Zenon
<1>4. SumFunctionOnSet(w, S) \in Int /\ w[x] \in Int
  BY SumType
<1> QED BY <1>2, <1>3, <1>4

\* Sums of sets that are apart add up.
LEMMA SumUnion ==
  ASSUME NEW S, IsFiniteSet(S), NEW T, IsFiniteSet(T), S \cap T = {},
         NEW w, \A x \in S \cup T : w[x] \in Int
  PROVE  SumFunctionOnSet(w, S \cup T) = SumFunctionOnSet(w, S) + SumFunctionOnSet(w, T)
<1> DEFINE Bad == {U \in SUBSET T : SumFunctionOnSet(w, S \cup U)
                                     # SumFunctionOnSet(w, S) + SumFunctionOnSet(w, U)}
<1>1. ASSUME Bad # {} PROVE FALSE
  <2>1. PICK U \in Bad : \A V \in Bad : V \subseteq U => V = U
    <3>1. Bad \in SUBSET SUBSET T
      OBVIOUS
    <3> HIDE DEF Bad
    <3> QED BY <1>1, <3>1, SmallestSet
  <2>2. U # {}
    <3>1. ASSUME U = {} PROVE FALSE
      <4>1. SumFunctionOnSet(w, S \cup U) = SumFunctionOnSet(w, S)
        <5>1. S \cup U = S
          BY <3>1
        <5> QED BY <5>1, Zenon
      <4>2. SumFunctionOnSet(w, U) = 0
        BY <3>1, SumEmpty
      <4>3. SumFunctionOnSet(w, S) \in Int
        BY SumType
      <4> QED BY <2>1, <4>1, <4>2, <4>3
    <3> QED BY <3>1
  <2>3. PICK x : x \in U
    BY <2>2
  <2> DEFINE V == U \ {x}
  <2>4. IsFiniteSet(U) /\ IsFiniteSet(V) /\ IsFiniteSet(S \cup V) /\ IsFiniteSet(S \cup U)
    BY FS_Subset, FS_Union, <2>1
  <2>5. SumFunctionOnSet(w, S \cup V) = SumFunctionOnSet(w, S) + SumFunctionOnSet(w, V)
    BY <2>1, <2>3
  <2>6. SumFunctionOnSet(w, U) = w[x] + SumFunctionOnSet(w, V)
    BY <2>3, <2>4, SumRemove
  <2>7. SumFunctionOnSet(w, S \cup U) = w[x] + SumFunctionOnSet(w, S \cup V)
    <3>1. S \cup V = (S \cup U) \ {x}
      BY <2>1, <2>3
    <3>2. x \in S \cup U /\ \A y \in S \cup U : w[y] \in Int
      BY <2>1, <2>3
    <3> HIDE DEF V
    <3> QED BY <2>4, <3>1, <3>2, SumRemove
  <2>8. SumFunctionOnSet(w, S) \in Int /\ SumFunctionOnSet(w, V) \in Int /\ w[x] \in Int
    BY <2>3, <2>4, SumType
  <2>9. SumFunctionOnSet(w, S \cup U) = SumFunctionOnSet(w, S) + SumFunctionOnSet(w, U)
    <3> HIDE DEF V, Bad
    <3> QED BY <2>5, <2>6, <2>7, <2>8
  <2> QED BY <2>1, <2>9
<1> QED BY <1>1

\* A finite set has a first member in a strict total order on it.
LEMMA FirstMember ==
  ASSUME NEW S, IsFiniteSet(S), S # {}, NEW R,
         \A x, y, z \in S : <<x, y>> \in R /\ <<y, z>> \in R => <<x, z>> \in R,
         \A x \in S : <<x, x>> \notin R,
         \A x, y \in S : x = y \/ <<x, y>> \in R \/ <<y, x>> \in R
  PROVE  \E x \in S : \A y \in S \ {x} : <<x, y>> \in R
<1> DEFINE Pred(x) == {y \in S : <<y, x>> \in R}
           Preds == {Pred(x) : x \in S}
<1>1. Preds \in SUBSET SUBSET S /\ Preds # {}
  <2>1. PICK x \in S : TRUE
    OBVIOUS
  <2>2. Pred(x) \in Preds
    BY <2>1
  <2>3. \A y \in S : Pred(y) \in SUBSET S
    OBVIOUS
  <2>4. Preds \in SUBSET SUBSET S
    <3> HIDE DEF Pred
    <3> QED BY <2>3
  <2> QED BY <2>2, <2>4
<1>2. PICK T \in Preds : \A U \in Preds : U \subseteq T => U = T
  <2> HIDE DEF Preds
  <2> QED BY <1>1, SmallestSet
<1>3. PICK x \in S : T = Pred(x)
  BY <1>2
<1>4. ASSUME NEW y \in S, <<y, x>> \in R
      PROVE  FALSE
  <2>1. Pred(y) \subseteq Pred(x)
    BY <1>4
  <2>2. Pred(y) = Pred(x)
    <3>1. Pred(y) \in Preds
      OBVIOUS
    <3> HIDE DEF Pred, Preds
    <3> QED BY <1>2, <1>3, <2>1, <3>1
  <2>3. y \in Pred(x) /\ y \notin Pred(y)
    BY <1>4
  <2> QED BY <2>2, <2>3
<1> QED BY <1>4

-----------------------------------------------------------------------------
(* Loops and orders *)

\* What the first number of a row has, and each has from the one before it, all have.
LEMMA StepByStep ==
  ASSUME NEW n \in Nat, NEW T, 0 \in T, \A k \in 1 .. n : k - 1 \in T => k \in T
  PROVE  \A k \in 0 .. n : k \in T
<1> DEFINE Bad == {k \in 0 .. n : k \notin T}
<1>1. ASSUME Bad # {} PROVE FALSE
  <2>1. PICK k \in Bad : \A m \in Bad : k <= m
    <3>1. Bad \in SUBSET Nat
      OBVIOUS
    <3> HIDE DEF Bad
    <3> QED BY <1>1, <3>1, SmallestNumber
  <2>2. k \in 1 .. n
    BY <2>1
  <2>3. k - 1 \notin Bad
    BY <2>1, <2>2
  <2> QED BY <2>1, <2>2, <2>3
<1> QED BY <1>1

\* The greatest member of a set of numbers up to n, in the sense of the library.
LEMMA MaxMember ==
  ASSUME NEW n \in Nat, NEW S \in SUBSET (1 .. n), S # {}
  PROVE  Max(S) \in S /\ \A m \in S : m <= Max(S)
<1> DEFINE T == {n - m : m \in S}
<1>1. PICK t \in T : \A u \in T : t <= u
  <2>1. \A m \in S : m \in Nat /\ n - m \in Nat
    OBVIOUS
  <2>2. T \in SUBSET Nat /\ T # {}
    BY <2>1
  <2> HIDE DEF T
  <2> QED BY <2>2, SmallestNumber
<1>2. PICK m \in S : t = n - m
  BY <1>1
<1>3. \A k \in S : m >= k
  <2> TAKE k \in S
  <2>1. n - m <= n - k
    BY <1>1, <1>2
  <2> QED BY <2>1
<1>4. \E x \in S : \A y \in S : x >= y
  BY <1>3
<1>5. Max(S) \in S /\ \A y \in S : Max(S) >= y
  BY <1>4, Zenon DEF Max
<1> QED BY <1>5

\* What holds before a loop, and after k items when it did after k - 1, holds at its end.
LEMMA ThroughKeeps ==
  ASSUME NEW B, NEW items \in Seq(B), NEW step, NEW A, NEW start \in A[0],
         \A k \in 1 .. Len(items) : \A acc \in A[k - 1] : step[items[k]][acc] \in A[k]
  PROVE  Through(step, items, start) \in A[Len(items)]
<1> DEFINE D == DOMAIN items
           n == Len(items)
           pick == [s \in SUBSET D |-> Max(s)]
           turn == [i \in D |-> step[items[i]]]
           Recursion(g) ==
             g = [s \in SUBSET D |->
                    IF s = {} THEN start ELSE step[items[Max(s)]][g[s \ {Max(s)}]]]
<1>1. n \in Nat /\ D = 1 .. n /\ IsFiniteSet(D)
  BY FS_Interval
<1>2. \A s \in SUBSET D : s # {} => Max(s) \in s
  BY <1>1, MaxMember
<1>3. Picks(pick, D)
  BY <1>2 DEF Picks
<1>4. \E g : Recursion(g)
  <2>1. PICK g : Folds(g, D, pick, start, turn)
    <3> HIDE DEF D, pick, turn
    <3> QED BY <1>1, <1>3, FoldExists
  <2>2. \A s \in SUBSET D : g[s] = IF s = {} THEN start ELSE turn[pick[s]][g[s \ {pick[s]}]]
    <3> HIDE DEF D, pick, turn
    <3> QED BY <2>1 DEF Folds
  <2>3. \A s \in SUBSET D : g[s] = IF s = {} THEN start ELSE step[items[Max(s)]][g[s \ {Max(s)}]]
    <3> TAKE s \in SUBSET D
    <3>1. CASE s = {}
      BY <2>2, <3>1
    <3>2. CASE s # {}
      <4>1. pick[s] = Max(s) /\ Max(s) \in D
        BY <1>2, <3>2
      <4>2. turn[Max(s)] = step[items[Max(s)]]
        BY <4>1
      <4> HIDE DEF D, pick, turn
      <4> QED BY <2>2, <3>2, <4>1, <4>2
    <3> QED BY <3>1, <3>2
  <2>4. g = [s \in SUBSET D |-> g[s]]
    <3> HIDE DEF D, pick, turn
    <3> QED BY <2>1 DEF Folds
  <2> HIDE DEF D, pick, turn
  <2> QED BY <2>3, <2>4
<1>5. Through(step, items, start) = (CHOOSE g : Recursion(g))[D]
  BY DEF Through, FoldLeft, MapThenFoldSet
<1>6. PICK g : Recursion(g) /\ Through(step, items, start) = g[D]
  <2> HIDE DEF Recursion
  <2> QED BY <1>4, <1>5
<1>7. \A s \in SUBSET D : g[s] = IF s = {} THEN start ELSE step[items[Max(s)]][g[s \ {Max(s)}]]
  BY <1>6
<1> HIDE DEF Recursion, D, pick, turn
<1> DEFINE h == [k \in 0 .. n |-> g[1 .. k]]
<1>8. h[0] = start
  <2>1. {} \in SUBSET D /\ 1 .. 0 = {}
    OBVIOUS
  <2>2. h[0] = g[1 .. 0]
    BY <1>1
  <2> QED BY <1>7, <2>1, <2>2
<1>9. ASSUME NEW k \in 1 .. n PROVE h[k] = step[items[k]][h[k - 1]]
  <2>1. 1 .. k \in SUBSET D /\ 1 .. k # {}
    <3>1. k \in Nat /\ k <= n /\ k >= 1
      BY <1>1
    <3> HIDE DEF n
    <3>2. 1 \in 1 .. k
      BY <3>1
    <3>3. \A i \in 1 .. k : i \in 1 .. n
      BY <1>1, <3>1
    <3> QED BY <1>1, <3>2, <3>3
  <2>2. Max(1 .. k) = k
    <3>1. k \in Nat /\ 1 .. k \in SUBSET (1 .. k) /\ k \in 1 .. k
      OBVIOUS
    <3>2. Max(1 .. k) \in 1 .. k /\ k <= Max(1 .. k)
      BY <2>1, <3>1, MaxMember
    <3> QED BY <3>2
  <2>3. (1 .. k) \ {k} = 1 .. k - 1
    OBVIOUS
  <2>4. g[1 .. k] = step[items[k]][g[1 .. k - 1]]
    BY <1>7, <2>1, <2>2, <2>3
  <2> QED BY <2>4
<1>10. \A k \in 0 .. n : h[k] \in A[k]
  <2> DEFINE T == {k \in 0 .. n : h[k] \in A[k]}
  <2>1. 0 \in T
    BY <1>1, <1>8
  <2>2. \A k \in 1 .. n : k - 1 \in T => k \in T
    <3> TAKE k \in 1 .. n
    <3> HAVE k - 1 \in T
    <3>1. h[k - 1] \in A[k - 1] /\ h[k] = step[items[k]][h[k - 1]]
      BY <1>9
    <3> HIDE DEF h
    <3>2. h[k] \in A[k]
      BY <3>1
    <3> QED BY <3>2
  <2> HIDE DEF T
  <2>3. \A k \in 0 .. n : k \in T
    BY <1>1, <2>1, <2>2, StepByStep
  <2> QED BY <2>3 DEF T
<1>11. h[n] = Through(step, items, start)
  BY <1>1, <1>6
<1> HIDE DEF h
<1> QED BY <1>1, <1>10, <1>11

\* A sorted set has each of its members, once, in order.
LEMMA SortedSeq ==
  ASSUME NEW S \in SUBSET Nat, IsFiniteSet(S), NEW w, \A x \in S : w[x] \in Int
  PROVE  /\ Sorted(S, w) \in Seq(S)
         /\ \A x \in S : \E i \in DOMAIN Sorted(S, w) : Sorted(S, w)[i] = x
         /\ \A i, j \in DOMAIN Sorted(S, w) :
              i < j => /\ Sorted(S, w)[i] # Sorted(S, w)[j]
                       /\ w[Sorted(S, w)[i]] <= w[Sorted(S, w)[j]]
<1> DEFINE n == Cardinality(S)
           Before == [x \in S |-> {y \in S : w[y] < w[x] \/ (w[y] = w[x] /\ y < x)}]
           rank == [x \in S |-> Cardinality(Before[x]) + 1]
           s == [i \in 1 .. n |-> CHOOSE x \in S : Cardinality(Before[x]) = i - 1]
<1>0. \A x, y \in S : x \in Before[y] <=> (w[x] < w[y] \/ (w[x] = w[y] /\ x < y))
  OBVIOUS
<1>a. \A y \in S : Before[y] \subseteq S
  OBVIOUS
<1>7. Sorted(S, w) = s
  <2>1. \A x \in S : Before[x] = {y \in S : w[y] < w[x] \/ (w[y] = w[x] /\ y < x)}
    OBVIOUS
  <2> HIDE DEF Before
  <2>2. Sorted(S, w) = [i \in 1 .. n |-> CHOOSE x \in S :
                          Cardinality({y \in S : w[y] < w[x] \/ (w[y] = w[x] /\ y < x)}) = i - 1]
    BY DEF Sorted
  <2>3. \A x \in S : Cardinality({y \in S : w[y] < w[x] \/ (w[y] = w[x] /\ y < x)}) = Cardinality(Before[x])
    BY <2>1
  <2> QED BY <2>2, <2>3
<1> HIDE DEF Before
<1>1. n \in Nat
  BY FS_CardinalityType
<1>2. \A x \in S : /\ IsFiniteSet(Before[x]) /\ Cardinality(Before[x]) \in Nat
                   /\ Cardinality(Before[x]) < n
  <2> TAKE x \in S
  <2>1. Before[x] \in SUBSET S /\ x \notin Before[x]
    BY <1>0, <1>a
  <2>2. /\ IsFiniteSet(Before[x]) /\ Cardinality(Before[x]) <= n
        /\ n = Cardinality(Before[x]) => S = Before[x]
    BY <2>1, FS_Subset
  <2>3. Cardinality(Before[x]) \in Nat
    BY <2>2, FS_CardinalityType
  <2> QED BY <1>1, <2>1, <2>2, <2>3
<1>3. ASSUME NEW x \in S, NEW y \in S, x \in Before[y]
      PROVE  Cardinality(Before[x]) < Cardinality(Before[y])
  <2>1. Before[x] \in SUBSET Before[y]
    <3> SUFFICES ASSUME NEW z \in Before[x] PROVE z \in Before[y]
      OBVIOUS
    <3>0. z \in S
      BY <1>a
    <3>1. z \in S /\ z \in Int /\ x \in Int /\ y \in Int
      BY <3>0
    <3>2. w[z] \in Int /\ w[x] \in Int /\ w[y] \in Int
      BY <3>1
    <3> QED BY <1>0, <1>3, <3>1, <3>2
  <2>2. x \in Before[y] /\ x \notin Before[x]
    BY <1>0, <1>3
  <2>3. IsFiniteSet(Before[y]) /\ Cardinality(Before[x]) \in Nat /\ Cardinality(Before[y]) \in Nat
    BY <1>2
  <2>4. /\ Cardinality(Before[x]) <= Cardinality(Before[y])
        /\ Cardinality(Before[y]) = Cardinality(Before[x]) => Before[y] = Before[x]
    BY <2>1, <2>3, FS_Subset
  <2> QED BY <2>2, <2>3, <2>4
<1>4. \A x, y \in S : x = y \/ x \in Before[y] \/ y \in Before[x]
  BY <1>0
<1>b. \A x, y \in S : Cardinality(Before[x]) = Cardinality(Before[y]) => x = y
  <2> TAKE x, y \in S
  <2>1. Cardinality(Before[x]) \in Nat /\ Cardinality(Before[y]) \in Nat
    BY <1>2
  <2> QED BY <1>3, <1>4, <2>1
<1>5. rank \in Surjection(S, 1 .. n)
  <2>1. rank \in [S -> 1 .. n]
    BY <1>1, <1>2
  <2>2. \A x, y \in S : rank[x] = rank[y] => x = y
    <3> TAKE x, y \in S
    <3>1. Cardinality(Before[x]) \in Nat /\ Cardinality(Before[y]) \in Nat
      BY <1>2
    <3>2. rank[x] = Cardinality(Before[x]) + 1 /\ rank[y] = Cardinality(Before[y]) + 1
      OBVIOUS
    <3>3. rank[x] = rank[y] => Cardinality(Before[x]) = Cardinality(Before[y])
      BY <3>1, <3>2
    <3> QED BY <1>b, <3>3
  <2> HIDE DEF rank
  <2>3. rank \in Injection(S, 1 .. n)
    BY <2>1, <2>2 DEF Injection, IsInjective
  <2>4. IsFiniteSet(1 .. n) /\ Cardinality(1 .. n) = n
    BY <1>1, FS_Interval
  <2> HIDE DEF n
  <2> QED BY <2>3, <2>4, FS_Injection DEF n
<1>6. \A i \in 1 .. n : s[i] \in S /\ Cardinality(Before[s[i]]) = i - 1
  <2> TAKE i \in 1 .. n
  <2>1. PICK x \in S : rank[x] = i
    <3> HIDE DEF rank
    <3> QED BY <1>5 DEF Surjection
  <2>2. Cardinality(Before[x]) = i - 1
    BY <1>1, <1>2, <2>1
  <2>3. s[i] = CHOOSE y \in S : Cardinality(Before[y]) = i - 1
    OBVIOUS
  <2> QED BY <2>2, <2>3
<1>8. s \in Seq(S)
  <2>1. s \in [1 .. n -> S]
    BY <1>6
  <2> HIDE DEF s
  <2> QED BY <1>1, <2>1
<1>c. DOMAIN s = 1 .. n
  OBVIOUS
<1> HIDE DEF s, n
<1>9. \A x \in S : \E i \in DOMAIN s : s[i] = x
  <2> TAKE x \in S
  <2>1. PICK c \in Nat : c = Cardinality(Before[x])
    BY <1>2
  <2>2. c + 1 \in 1 .. n
    BY <1>1, <1>2, <2>1
  <2>3. s[c + 1] \in S /\ Cardinality(Before[s[c + 1]]) = (c + 1) - 1
    BY <1>6, <2>2
  <2>4. Cardinality(Before[s[c + 1]]) = Cardinality(Before[x])
    BY <2>1, <2>3
  <2>5. s[c + 1] = x
    BY <1>b, <2>3, <2>4
  <2> QED BY <1>c, <2>2, <2>5
<1>10. \A i, j \in DOMAIN s : i < j => s[i] # s[j] /\ w[s[i]] <= w[s[j]]
  <2> TAKE i, j \in DOMAIN s
  <2> HAVE i < j
  <2>1. i \in 1 .. n /\ j \in 1 .. n /\ i \in Int /\ j \in Int
    BY <1>c
  <2>2. PICK x \in S : x = s[i] /\ Cardinality(Before[x]) = i - 1
    BY <1>6, <2>1
  <2>3. PICK y \in S : y = s[j] /\ Cardinality(Before[y]) = j - 1
    BY <1>6, <2>1
  <2>4. x # y
    BY <2>1, <2>2, <2>3
  <2>5. y \notin Before[x]
    BY <1>3, <2>1, <2>2, <2>3
  <2>6. x \in Before[y]
    BY <1>4, <2>4, <2>5
  <2>7. w[x] <= w[y]
    BY <1>0, <2>6
  <2> QED BY <2>2, <2>3, <2>4, <2>7
<1> QED BY <1>7, <1>8, <1>9, <1>10

\* The numbers of a finite set have ranks from 1 on, each its own.
Rank(S, i) == Cardinality({j \in S : j <= i})

LEMMA Ranks ==
  ASSUME NEW S \in SUBSET Nat, IsFiniteSet(S)
  PROVE  /\ \A i \in S : Rank(S, i) \in 1 .. Cardinality(S)
         /\ \A i, j \in S : Rank(S, i) = Rank(S, j) => i = j
         /\ \A k \in 1 .. Cardinality(S) : \E i \in S : Rank(S, i) = k
<1> DEFINE n == Cardinality(S)
           Upto == [i \in S |-> {j \in S : j <= i}]
           rank == [i \in S |-> Rank(S, i)]
<1>1. n \in Nat
  BY FS_CardinalityType
<1>2. \A i \in S : /\ Upto[i] \in SUBSET S /\ i \in Upto[i]
                   /\ \A j \in S : j \in Upto[i] <=> j <= i
  OBVIOUS
<1>3. \A i \in S : Rank(S, i) = Cardinality(Upto[i])
  BY DEF Rank
<1> HIDE DEF Upto
<1>4. \A i \in S : IsFiniteSet(Upto[i]) /\ Cardinality(Upto[i]) \in 1 .. n
  <2> TAKE i \in S
  <2>1. IsFiniteSet(Upto[i]) /\ Cardinality(Upto[i]) <= n
    BY <1>2, FS_Subset
  <2>2. Cardinality(Upto[i]) \in Nat
    BY <2>1, FS_CardinalityType
  <2>3. Cardinality(Upto[i]) # 0
    BY <1>2, <2>1, FS_EmptySet
  <2> HIDE DEF n
  <2> QED BY <1>1, <2>1, <2>2, <2>3
<1>5. ASSUME NEW i \in S, NEW j \in S, i < j
      PROVE  Cardinality(Upto[i]) # Cardinality(Upto[j])
  <2>1. Upto[i] \in SUBSET Upto[j] /\ j \in Upto[j] /\ j \notin Upto[i]
    <3>1. i \in Int /\ j \in Int /\ ~ (j <= i)
      BY <1>5
    <3>2. \A k \in S : k <= i => k <= j
      BY <1>5
    <3> QED BY <1>2, <3>1, <3>2
  <2>2. Upto[i] # Upto[j]
    BY <2>1
  <2> QED BY <1>4, <2>1, <2>2, FS_Subset
<1>6. \A i, j \in S : rank[i] = rank[j] => i = j
  <2> TAKE i, j \in S
  <2>1. i < j \/ j < i \/ i = j
    OBVIOUS
  <2>2. rank[i] = Cardinality(Upto[i]) /\ rank[j] = Cardinality(Upto[j])
    BY <1>3
  <2> QED BY <1>5, <2>1, <2>2
<1>7. rank \in [S -> 1 .. n]
  BY <1>3, <1>4
<1>8. \A i \in S : rank[i] = Rank(S, i)
  OBVIOUS
<1> HIDE DEF rank
<1>9. rank \in Injection(S, 1 .. n)
  BY <1>6, <1>7 DEF Injection, IsInjective
<1>10. IsFiniteSet(1 .. n) /\ Cardinality(1 .. n) = n
  BY <1>1, FS_Interval
<1>11. rank \in Surjection(S, 1 .. n)
  <2> HIDE DEF n
  <2> QED BY <1>9, <1>10, FS_Injection DEF n
<1>12. \A k \in 1 .. n : \E i \in S : rank[i] = k
  BY <1>11 DEF Surjection
<1> QED BY <1>6, <1>7, <1>8, <1>12

\* What a loop over a sorted set keeps, in whatever order: A says it of the members still
\* to come.
LEMMA ThroughEach ==
  ASSUME NEW S \in SUBSET Nat, IsFiniteSet(S), NEW w, \A x \in S : w[x] \in Int,
         NEW step, NEW A, NEW start \in A[S],
         \A T \in SUBSET S : \A x \in S \ T : \A acc \in A[T \cup {x}] : step[x][acc] \in A[T]
  PROVE  Through(step, Sorted(S, w), start) \in A[{}]
<1> DEFINE items == Sorted(S, w)
           U == [k \in 0 .. Len(items) |-> {x \in S : \A j \in 1 .. k : items[j] # x}]
           B == [k \in 0 .. Len(items) |-> A[U[k]]]
<1>1. /\ items \in Seq(S)
      /\ \A x \in S : \E i \in DOMAIN items : items[i] = x
      /\ \A i, j \in DOMAIN items : i < j => items[i] # items[j]
  BY SortedSeq
<1> HIDE DEF items
<1>2. Len(items) \in Nat /\ DOMAIN items = 1 .. Len(items)
  BY <1>1
<1>3. \A k \in 0 .. Len(items) : U[k] = {x \in S : \A j \in 1 .. k : items[j] # x}
  OBVIOUS
<1> HIDE DEF U
<1>4. U[0] = S /\ U[Len(items)] = {}
  <2>1. 0 \in 0 .. Len(items) /\ Len(items) \in 0 .. Len(items) /\ 1 .. 0 = {}
    BY <1>2
  <2>2. U[0] = S
    BY <1>3, <2>1
  <2>3. ASSUME NEW x \in U[Len(items)]
        PROVE  FALSE
    <3>1. x \in S /\ \A j \in 1 .. Len(items) : items[j] # x
      BY <1>3, <2>1
    <3> QED BY <1>1, <1>2, <3>1
  <2> QED BY <2>2, <2>3
<1>5. ASSUME NEW k \in 1 .. Len(items), NEW acc \in B[k - 1]
      PROVE  step[items[k]][acc] \in B[k]
  <2>1. k \in 0 .. Len(items) /\ k - 1 \in 0 .. Len(items) /\ k \in 1 .. k /\ k \in DOMAIN items
    BY <1>2
  <2>2. PICK T, x : T = U[k] /\ x = items[k]
    OBVIOUS
  <2>3. T = {y \in S : \A j \in 1 .. k : items[j] # y} /\ T \in SUBSET S
    BY <1>3, <2>1, <2>2
  <2>4. U[k - 1] = {y \in S : \A j \in 1 .. k - 1 : items[j] # y}
    BY <1>3, <2>1
  <2>5. x \in S \ T
    BY <1>1, <2>1, <2>2, <2>3
  <2>6. \A j \in 1 .. k - 1 : items[j] # x
    <3> TAKE j \in 1 .. k - 1
    <3>1. j \in DOMAIN items /\ j < k
      BY <1>2
    <3> QED BY <1>1, <2>1, <2>2, <3>1
  <2>7. \A j \in 1 .. k : j = k \/ j \in 1 .. k - 1
    OBVIOUS
  <2>8. \A j \in 1 .. k - 1 : j \in 1 .. k
    OBVIOUS
  <2>9. U[k - 1] = T \cup {x}
    BY <2>2, <2>3, <2>4, <2>5, <2>6, <2>7, <2>8
  <2>10. B[k] = A[U[k]] /\ B[k - 1] = A[U[k - 1]]
    BY <2>1
  <2> HIDE DEF B
  <2>11. acc \in A[T \cup {x}]
    BY <2>9, <2>10
  <2>12. step[x][acc] \in A[T]
    BY <2>3, <2>5, <2>11
  <2> QED BY <2>2, <2>10, <2>12
<1>6. start \in B[0] /\ B[Len(items)] = A[{}]
  <2>1. 0 \in 0 .. Len(items) /\ Len(items) \in 0 .. Len(items)
    BY <1>2
  <2>2. B[0] = A[U[0]] /\ B[Len(items)] = A[U[Len(items)]]
    BY <2>1
  <2> HIDE DEF B
  <2> QED BY <1>4, <2>2
<1> HIDE DEF B
<1>7. \A k \in 1 .. Len(items) : \A acc \in B[k - 1] : step[items[k]][acc] \in B[k]
  BY <1>5
<1>8. Through(step, items, start) \in B[Len(items)]
  BY <1>1, <1>6, <1>7, ThroughKeeps
<1> QED BY <1>6, <1>8 DEF items

\* A set in any order: each member once
LEMMA RowOfSet ==
  ASSUME NEW S, IsFiniteSet(S), NEW row \in SetToSeqs(S)
  PROVE  /\ row \in Seq(S)
         /\ \A i, j \in DOMAIN row : row[i] = row[j] => i = j
         /\ \A x \in S : \E i \in DOMAIN row : row[i] = x
<1> DEFINE n == Cardinality(S)
<1>1. n \in Nat
  BY FS_CardinalityType
<1>2. row \in [1 .. n -> S] /\ \A i, j \in 1 .. n : i # j => row[i] # row[j]
  BY DEF SetToSeqs
<1>3. ASSUME NEW x \in S, \A i \in 1 .. n : row[i] # x
      PROVE  FALSE
  <2> DEFINE T == S \ {x}
  <2>1. IsFiniteSet(T) /\ Cardinality(T) = n - 1
    BY FS_RemoveElement
  <2>2. IsFiniteSet(1 .. n) /\ Cardinality(1 .. n) = n
    <3>1. 1 \in Int /\ n \in Int
      BY <1>1
    <3>2. /\ IsFiniteSet(1 .. n)
          /\ Cardinality(1 .. n) = IF 1 > n THEN 0 ELSE n - 1 + 1
      BY <3>1, FS_Interval
    <3> QED BY <1>1, <3>2
  <2>3. row \in [1 .. n -> T]
    BY <1>2, <1>3
  <2>4. n - 1 < n
    BY <1>1
  <2> HIDE DEF T, n
  <2>5. \E i, j \in 1 .. n : i # j /\ row[i] = row[j]
    BY <2>1, <2>2, <2>3, <2>4, FS_PigeonHole
  <2> QED BY <1>2, <2>5
<1> HIDE DEF n
<1>4. row \in Seq(S) /\ DOMAIN row = 1 .. n
  BY <1>1, <1>2
<1> QED BY <1>2, <1>3, <1>4

-----------------------------------------------------------------------------
(* Sums along sequences *)

\* Of a row of things that have quantities, the quantity of those at the places S
QtyOf(row, S) == SumFunctionOnSet([i \in DOMAIN row |-> row[i].qty], S)

\* A sum does not depend on how its terms are numbered.
LEMMA SumOfImage ==
  ASSUME NEW S, IsFiniteSet(S), NEW w, \A x \in S : w[x] \in Int,
         NEW f, \A x, y \in S : f[x] = f[y] => x = y,
         NEW v, \A x \in S : v[f[x]] = w[x]
  PROVE  SumFunctionOnSet(v, {f[x] : x \in S}) = SumFunctionOnSet(w, S)
<1> DEFINE Img(U) == {f[x] : x \in U}
           Bad == {U \in SUBSET S : SumFunctionOnSet(v, Img(U)) # SumFunctionOnSet(w, U)}
<1>1. ASSUME Bad # {} PROVE FALSE
  <2>1. PICK U \in Bad : \A V \in Bad : V \subseteq U => V = U
    <3>1. Bad \in SUBSET SUBSET S
      OBVIOUS
    <3> HIDE DEF Bad
    <3> QED BY <1>1, <3>1, SmallestSet
  <2>2. U \in SUBSET S /\ IsFiniteSet(U)
    BY <2>1, FS_Subset
  <2>3. U # {}
    <3>1. Img({}) = {}
      OBVIOUS
    <3> HIDE DEF Img
    <3> QED BY <2>1, <3>1, SumEmpty
  <2>4. PICK x \in U : TRUE
    BY <2>3
  <2> DEFINE R == U \ {x}
  <2>5. SumFunctionOnSet(v, Img(R)) = SumFunctionOnSet(w, R)
    <3>1. R \in SUBSET S /\ R # U /\ R \subseteq U
      BY <2>2, <2>4
    <3> HIDE DEF R, Img
    <3> QED BY <2>1, <3>1
  <2>6. Img(U) = Img(R) \cup {f[x]} /\ f[x] \notin Img(R)
    BY <2>2, <2>4
  <2>7. IsFiniteSet(R) /\ IsFiniteSet(Img(R))
    <3>1. IsFiniteSet(R)
      BY <2>2, FS_Subset
    <3>2. IsFiniteSet(Img(R))
      <4> DEFINE g == [y \in R |-> f[y]]
      <4>1. g \in Surjection(R, Img(R))
        BY DEF Surjection
      <4> HIDE DEF g, R, Img
      <4> QED BY <3>1, <4>1, FS_Surjection
    <3> QED BY <3>1, <3>2
  <2>8. \A y \in Img(R) \cup {f[x]} : v[y] \in Int
    BY <2>2, <2>4
  <2>9. SumFunctionOnSet(v, Img(R) \cup {f[x]}) = SumFunctionOnSet(v, Img(R)) + v[f[x]]
    <3>1. PICK I : I = Img(R)
      OBVIOUS
    <3>2. PICK y : y = f[x]
      OBVIOUS
    <3>3. IsFiniteSet(I) /\ y \notin I /\ \A z \in I \cup {y} : v[z] \in Int
      BY <2>6, <2>7, <2>8, <3>1, <3>2
    <3>4. SumFunctionOnSet(v, I \cup {y}) = SumFunctionOnSet(v, I) + v[y]
      BY <3>3, SumAdd
    <3> QED BY <3>1, <3>2, <3>4
  <2>10. SumFunctionOnSet(w, U) = w[x] + SumFunctionOnSet(w, R)
    <3>1. \A y \in U : w[y] \in Int
      BY <2>2
    <3> QED BY <2>2, <3>1, SumRemove
  <2>11. v[f[x]] = w[x] /\ w[x] \in Int /\ SumFunctionOnSet(w, R) \in Int
    <3>1. \A y \in R : w[y] \in Int
      BY <2>2
    <3>2. SumFunctionOnSet(w, R) \in Int
      <4> HIDE DEF R
      <4> QED BY <2>7, <3>1, SumType
    <3> QED BY <2>2, <3>2
  <2>12. SumFunctionOnSet(v, Img(U)) = SumFunctionOnSet(w, U)
    <3> HIDE DEF R, Img
    <3> QED BY <2>5, <2>6, <2>9, <2>10, <2>11
  <2> QED BY <2>1, <2>12
<1>2. S \notin Bad
  BY <1>1
<1> QED BY <1>2

LEMMA SumRenamed ==
  ASSUME NEW S, IsFiniteSet(S), NEW w, \A x \in S : w[x] \in Int,
         NEW f, DOMAIN f = S, \A x, y \in S : f[x] = f[y] => x = y,
         NEW V, \A x \in S : f[x] \in V, \A y \in V : \E x \in S : y = f[x],
         NEW v, \A x \in S : v[f[x]] = w[x]
  PROVE  SumFunctionOnSet(v, V) = SumFunctionOnSet(w, S)
<1>1. V = {f[x] : x \in S}
  OBVIOUS
<1>2. SumFunctionOnSet(v, {f[x] : x \in S}) = SumFunctionOnSet(w, S)
  BY SumOfImage
<1> QED BY <1>1, <1>2, Zenon

\* Natural numbers add up to one, and each is within it.
LEMMA SumNat ==
  ASSUME NEW S, IsFiniteSet(S), NEW w, \A x \in S : w[x] \in Nat
  PROVE  /\ SumFunctionOnSet(w, S) \in Nat
         /\ \A x \in S : w[x] <= SumFunctionOnSet(w, S)
<1> DEFINE Bad == {U \in SUBSET S : SumFunctionOnSet(w, U) \notin Nat}
<1>1. ASSUME Bad # {} PROVE FALSE
  <2>1. PICK U \in Bad : \A V \in Bad : V \subseteq U => V = U
    <3>1. Bad \in SUBSET SUBSET S
      OBVIOUS
    <3> HIDE DEF Bad
    <3> QED BY <1>1, <3>1, SmallestSet
  <2>2. U \in SUBSET S /\ IsFiniteSet(U) /\ \A y \in U : w[y] \in Nat /\ w[y] \in Int
    BY <2>1, FS_Subset
  <2>3. U # {}
    BY <2>1, SumEmpty
  <2>4. PICK x \in U : TRUE
    BY <2>3
  <2>5. SumFunctionOnSet(w, U \ {x}) \in Nat
    <3>1. U \ {x} \in SUBSET S /\ U \ {x} # U /\ U \ {x} \subseteq U
      BY <2>2, <2>4
    <3> QED BY <2>1, <3>1
  <2>6. SumFunctionOnSet(w, U) = w[x] + SumFunctionOnSet(w, U \ {x})
    BY <2>2, SumRemove
  <2>7. SumFunctionOnSet(w, U) \in Nat
    BY <2>2, <2>5, <2>6
  <2> QED BY <2>1, <2>7
<1>2. \A U \in SUBSET S : SumFunctionOnSet(w, U) \in Nat
  BY <1>1
<1>3. \A x \in S : w[x] <= SumFunctionOnSet(w, S)
  <2> TAKE x \in S
  <2>1. \A y \in S : w[y] \in Int
    OBVIOUS
  <2>2. SumFunctionOnSet(w, S) = w[x] + SumFunctionOnSet(w, S \ {x})
    BY <2>1, SumRemove
  <2>3. SumFunctionOnSet(w, S \ {x}) \in Nat
    BY <1>2
  <2> QED BY <2>2, <2>3
<1> QED BY <1>2, <1>3

\* A sum of natural numbers that is zero has only zeros; parts sum up to at most the whole.
LEMMA SumPart ==
  ASSUME NEW S, IsFiniteSet(S), NEW w, \A x \in S : w[x] \in Nat, NEW T \in SUBSET S
  PROVE  /\ SumFunctionOnSet(w, T) \in Nat
         /\ SumFunctionOnSet(w, S) = SumFunctionOnSet(w, T) + SumFunctionOnSet(w, S \ T)
<1>1. /\ IsFiniteSet(T) /\ IsFiniteSet(S \ T) /\ T \cap (S \ T) = {} /\ T \cup (S \ T) = S
      /\ \A x \in T \cup (S \ T) : w[x] \in Int
  BY FS_Subset
<1>2. SumFunctionOnSet(w, T \cup (S \ T)) = SumFunctionOnSet(w, T) + SumFunctionOnSet(w, S \ T)
  BY <1>1, SumUnion
<1>3. SumFunctionOnSet(w, T) \in Nat
  BY <1>1, SumNat
<1> QED BY <1>1, <1>2, <1>3

-----------------------------------------------------------------------------
\* What satisfies the recursion of a sum is the sum.
LEMMA SumIs ==
  ASSUME NEW S, IsFiniteSet(S), NEW w, NEW h, Sums(h, w, S), \A x \in S : w[x] \in Int
  PROVE  SumFunctionOnSet(w, S) = h[S]
<1>1. PICK g : Sums(g, w, S) /\ SumFunctionOnSet(w, S) = g[S]
  BY SumFold
<1>2. g[S] = h[S]
  BY <1>1, SumsAgree
<1> QED BY <1>1, <1>2

\* Sums add up term by term.
LEMMA SumPlus ==
  ASSUME NEW S, IsFiniteSet(S), NEW a, NEW b, \A x \in S : a[x] \in Int /\ b[x] \in Int
  PROVE  SumFunctionOnSet([x \in S |-> a[x] + b[x]], S)
           = SumFunctionOnSet(a, S) + SumFunctionOnSet(b, S)
<1> DEFINE c == [x \in S |-> a[x] + b[x]]
<1>1. PICK g : Sums(g, a, S) /\ SumFunctionOnSet(a, S) = g[S]
  BY SumFold
<1>2. PICK h : Sums(h, b, S) /\ SumFunctionOnSet(b, S) = h[S]
  BY SumFold
<1> DEFINE k == [T \in SUBSET S |-> g[T] + h[T]]
<1>3. Sums(k, c, S)
  <2>1. g \in [SUBSET S -> Int] /\ h \in [SUBSET S -> Int]
    BY <1>1, <1>2 DEF Sums
  <2>2. k \in [SUBSET S -> Int]
    BY <2>1
  <2>3. k[{}] = 0
    BY <1>1, <1>2 DEF Sums
  <2>4. ASSUME NEW T \in SUBSET S, NEW x \in T
        PROVE  k[T] = c[x] + k[T \ {x}]
    <3>1. T \ {x} \in SUBSET S /\ x \in S
      OBVIOUS
    <3>2. g[T] = a[x] + g[T \ {x}] /\ h[T] = b[x] + h[T \ {x}]
      BY <1>1, <1>2 DEF Sums
    <3>3. g[T \ {x}] \in Int /\ h[T \ {x}] \in Int /\ a[x] \in Int /\ b[x] \in Int
      BY <2>1, <3>1
    <3>4. k[T] = g[T] + h[T] /\ k[T \ {x}] = g[T \ {x}] + h[T \ {x}] /\ c[x] = a[x] + b[x]
      BY <3>1
    <3> HIDE DEF k, c
    <3> QED BY <3>2, <3>3, <3>4
  <2> HIDE DEF k, c
  <2> QED BY <2>2, <2>3, <2>4 DEF Sums
<1>4. \A x \in S : c[x] \in Int
  OBVIOUS
<1>5. k[S] = g[S] + h[S]
  OBVIOUS
<1> HIDE DEF k, c
<1>6. SumFunctionOnSet(c, S) = k[S]
  BY <1>3, <1>4, SumIs
<1>7. SumFunctionOnSet(c, S) = SumFunctionOnSet(a, S) + SumFunctionOnSet(b, S)
  BY <1>1, <1>2, <1>5, <1>6
<1> QED BY <1>7 DEF c

\* Smaller terms have a smaller sum.
LEMMA SumBelow ==
  ASSUME NEW S, IsFiniteSet(S), NEW a, NEW b, \A x \in S : a[x] \in Int /\ b[x] \in Int,
         \A x \in S : a[x] <= b[x]
  PROVE  /\ SumFunctionOnSet(a, S) <= SumFunctionOnSet(b, S)
         /\ (\E x \in S : a[x] < b[x]) => SumFunctionOnSet(a, S) < SumFunctionOnSet(b, S)
<1> DEFINE c == [x \in S |-> b[x] - a[x]]
           d == [x \in S |-> a[x] + c[x]]
<1>1. \A x \in S : c[x] \in Nat /\ c[x] \in Int /\ a[x] \in Int
  OBVIOUS
<1>2. \A x \in S : d[x] = b[x] /\ b[x] \in Int
  OBVIOUS
<1>3. \A x \in S : a[x] < b[x] => c[x] > 0
  OBVIOUS
<1> HIDE DEF c
<1>4. SumFunctionOnSet(d, S) = SumFunctionOnSet(a, S) + SumFunctionOnSet(c, S)
  BY <1>1, SumPlus
<1> HIDE DEF d
<1>5. SumFunctionOnSet(d, S) = SumFunctionOnSet(b, S)
  BY <1>2, SumSame
<1>6. SumFunctionOnSet(c, S) \in Nat /\ \A x \in S : c[x] <= SumFunctionOnSet(c, S)
  BY <1>1, SumNat
<1>7. SumFunctionOnSet(a, S) \in Int
  BY SumType
<1>8. (\E x \in S : a[x] < b[x]) => SumFunctionOnSet(c, S) > 0
  BY <1>1, <1>3, <1>6
<1>9. PICK p \in Int, n \in Nat, t \in Int : p = SumFunctionOnSet(a, S) /\ n = SumFunctionOnSet(c, S)
                              /\ t = SumFunctionOnSet(b, S) /\ t = p + n
  BY <1>4, <1>5, <1>6, <1>7
<1> QED BY <1>8, <1>9

\* A sum of zeros but for one
LEMMA SumOne ==
  ASSUME NEW S, IsFiniteSet(S), NEW w, NEW z, \A x \in S \ {z} : w[x] = 0, w[z] \in Int
  PROVE  SumFunctionOnSet(w, S) = IF z \in S THEN w[z] ELSE 0
<1> DEFINE h == [T \in SUBSET S |-> IF z \in T THEN w[z] ELSE 0]
<1>1. \A x \in S : w[x] \in Int
  OBVIOUS
<1>2. Sums(h, w, S)
  <2>1. h \in [SUBSET S -> Int]
    OBVIOUS
  <2>2. h[{}] = 0
    OBVIOUS
  <2>3. ASSUME NEW T \in SUBSET S, NEW x \in T
        PROVE  h[T] = w[x] + h[T \ {x}]
    <3>1. T \ {x} \in SUBSET S /\ x \in S /\ (z \in T \ {x} <=> z \in T /\ x # z)
      OBVIOUS
    <3>2. h[T] = (IF z \in T THEN w[z] ELSE 0) /\ h[T \ {x}] = (IF z \in T \ {x} THEN w[z] ELSE 0)
      BY <3>1
    <3> HIDE DEF h
    <3>3. CASE x = z
      BY <3>1, <3>2, <3>3
    <3>4. CASE x # z
      BY <3>1, <3>2, <3>4
    <3> QED BY <3>3, <3>4
  <2> HIDE DEF h
  <2> QED BY <2>1, <2>2, <2>3 DEF Sums
<1>3. h[S] = IF z \in S THEN w[z] ELSE 0
  OBVIOUS
<1> HIDE DEF h
<1> QED BY <1>1, <1>2, <1>3, SumIs

\* The sums of parts that are apart add up to the sum of all.
LEMMA SumPartition ==
  ASSUME NEW I, IsFiniteSet(I), NEW S, IsFiniteSet(S), NEW w, \A x \in S : w[x] \in Int,
         NEW F, \A i \in I : F[i] \subseteq S,
         \A i, j \in I : i # j => F[i] \cap F[j] = {}
  PROVE  SumFunctionOnSet([i \in I |-> SumFunctionOnSet(w, F[i])], I)
           = SumFunctionOnSet(w, UNION {F[i] : i \in I})
<1> DEFINE v == [i \in I |-> SumFunctionOnSet(w, F[i])]
           All(T) == UNION {F[i] : i \in T}
           h == [T \in SUBSET I |-> SumFunctionOnSet(w, All(T))]
<1>1. \A i \in I : IsFiniteSet(F[i]) /\ \A x \in F[i] : w[x] \in Int
  BY FS_Subset
<1>2. \A T \in SUBSET I : IsFiniteSet(All(T)) /\ \A x \in All(T) : w[x] \in Int
  <2> TAKE T \in SUBSET I
  <2>1. All(T) \in SUBSET S
    OBVIOUS
  <2> HIDE DEF All
  <2> QED BY <2>1, FS_Subset
<1>3. \A i \in I : v[i] \in Int
  <2>1. \A i \in I : SumFunctionOnSet(w, F[i]) \in Int
    BY <1>1, SumType
  <2> QED BY <2>1
<1>4. Sums(h, v, I)
  <2>1. h \in [SUBSET I -> Int]
    <3>1. \A T \in SUBSET I : SumFunctionOnSet(w, All(T)) \in Int
      <4> HIDE DEF All
      <4> QED BY <1>2, SumType
    <3> QED BY <3>1
  <2>2. h[{}] = 0
    <3>1. All({}) = {}
      OBVIOUS
    <3>2. SumFunctionOnSet(w, All({})) = SumFunctionOnSet(w, {})
      BY <3>1, Zenon
    <3>3. h[{}] = SumFunctionOnSet(w, All({}))
      OBVIOUS
    <3> QED BY <3>2, <3>3, SumEmpty
  <2>3. ASSUME NEW T \in SUBSET I, NEW x \in T
        PROVE  h[T] = v[x] + h[T \ {x}]
    <3>1. PICK A, B : A = F[x] /\ B = All(T \ {x})
      OBVIOUS
    <3>2. All(T) = A \cup B
      BY <3>1
    <3>3. A \cap B = {}
      BY <3>1
    <3>4. T \ {x} \in SUBSET I /\ x \in I
      OBVIOUS
    <3>5. /\ h[T] = SumFunctionOnSet(w, All(T)) /\ h[T \ {x}] = SumFunctionOnSet(w, All(T \ {x}))
          /\ v[x] = SumFunctionOnSet(w, F[x])
      BY <3>4
    <3> HIDE DEF All, h, v
    <3>6. /\ IsFiniteSet(A) /\ IsFiniteSet(B)
          /\ \A y \in A : w[y] \in Int
          /\ \A y \in B : w[y] \in Int
      BY <1>1, <1>2, <3>1, <3>4
    <3>7. SumFunctionOnSet(w, A \cup B) = SumFunctionOnSet(w, A) + SumFunctionOnSet(w, B)
      BY <3>3, <3>6, SumUnion
    <3>8. SumFunctionOnSet(w, All(T)) = SumFunctionOnSet(w, A \cup B)
      BY <3>2, Zenon
    <3> QED BY <3>1, <3>5, <3>7, <3>8
  <2> HIDE DEF h, v
  <2> QED BY <2>1, <2>2, <2>3 DEF Sums
<1>5. h[I] = SumFunctionOnSet(w, All(I))
  OBVIOUS
<1> HIDE DEF h, v, All
<1>6. SumFunctionOnSet(v, I) = h[I]
  BY <1>3, <1>4, SumIs
<1>7. SumFunctionOnSet(v, I) = SumFunctionOnSet(w, All(I))
  BY <1>5, <1>6
<1> QED BY <1>7 DEF v, All

\* The quantities of a row that gets one thing more ...
LEMMA QtyAppend ==
  ASSUME NEW R, \A r \in R : r.qty \in Int, NEW row \in Seq(R), NEW x \in R,
         NEW S \in SUBSET DOMAIN row
  PROVE  /\ QtyOf(Append(row, x), S) = QtyOf(row, S)
         /\ QtyOf(Append(row, x), S \cup {Len(row) + 1}) = QtyOf(row, S) + x.qty
<1> DEFINE n == Len(row)
           w == [i \in DOMAIN row |-> row[i].qty]
           v == [i \in DOMAIN Append(row, x) |-> Append(row, x)[i].qty]
<1>1. n \in Nat /\ DOMAIN row = 1 .. n /\ DOMAIN Append(row, x) = 1 .. n + 1
  OBVIOUS
<1>2. \A i \in S : w[i] \in Int /\ v[i] = w[i]
  <2> TAKE i \in S
  <2>1. i \in 1 .. n /\ row[i] \in R /\ Append(row, x)[i] = row[i]
    OBVIOUS
  <2> QED BY <1>1, <2>1
<1>3. v[n + 1] = x.qty /\ n + 1 \notin S
  <2>1. n + 1 \in 1 .. n + 1 /\ Append(row, x)[n + 1] = x
    BY <1>1
  <2> QED BY <1>1, <2>1
<1>4. IsFiniteSet(S)
  <2>1. IsFiniteSet(1 .. n)
    BY <1>1, FS_Interval
  <2> QED BY <1>1, <2>1, FS_Subset
<1>5. x.qty \in Int
  OBVIOUS
<1> HIDE DEF w, v, n
<1>6. SumFunctionOnSet(v, S) = SumFunctionOnSet(w, S)
  BY <1>2, <1>4, SumSame
<1>7. \A i \in S \cup {n + 1} : v[i] \in Int
  BY <1>2, <1>3, <1>5
<1>8. SumFunctionOnSet(v, S \cup {n + 1}) = SumFunctionOnSet(v, S) + v[n + 1]
  BY <1>3, <1>4, <1>7, SumAdd
<1>9. SumFunctionOnSet(v, S \cup {n + 1}) = SumFunctionOnSet(w, S) + x.qty
  BY <1>3, <1>6, <1>8
<1> QED BY <1>6, <1>9 DEF QtyOf, w, v, n

\* ... or a row after it.
LEMMA QtyConcat ==
  ASSUME NEW R, \A r \in R : r.qty \in Int, NEW row \in Seq(R), NEW more \in Seq(R),
         NEW S \in SUBSET DOMAIN row, NEW U \in SUBSET DOMAIN more
  PROVE  QtyOf(row \o more, S \cup {Len(row) + i : i \in U}) = QtyOf(row, S) + QtyOf(more, U)
<1> DEFINE n == Len(row)
           w == [i \in DOMAIN row |-> row[i].qty]
           u == [i \in DOMAIN more |-> more[i].qty]
           v == [i \in DOMAIN (row \o more) |-> (row \o more)[i].qty]
           f == [i \in U |-> n + i]
           V == {f[i] : i \in U}
<1>1. /\ n \in Nat /\ DOMAIN row = 1 .. n /\ Len(more) \in Nat
      /\ DOMAIN more = 1 .. Len(more)
      /\ DOMAIN (row \o more) = 1 .. n + Len(more)
  OBVIOUS
<1>2. \A i \in S : w[i] \in Int /\ v[i] = w[i]
  <2> TAKE i \in S
  <2>1. i \in 1 .. n /\ row[i] \in R /\ (row \o more)[i] = row[i]
    OBVIOUS
  <2> QED BY <1>1, <2>1
<1>3. \A i \in U : u[i] \in Int /\ v[f[i]] = u[i]
  <2> TAKE i \in U
  <2>1. i \in 1 .. Len(more) /\ more[i] \in R /\ (row \o more)[n + i] = more[i]
    BY <1>1
  <2> QED BY <1>1, <2>1
<1>4. IsFiniteSet(S) /\ IsFiniteSet(U)
  <2>1. IsFiniteSet(1 .. n) /\ IsFiniteSet(1 .. Len(more))
    BY <1>1, FS_Interval
  <2> QED BY <1>1, <2>1, FS_Subset
<1>5. \A i, j \in U : f[i] = f[j] => i = j
  BY <1>1
<1>6. S \cap V = {}
  BY <1>1
<1>7. V = {n + i : i \in U}
  OBVIOUS
<1>8. IsFiniteSet(V)
  <2>1. f \in Surjection(U, V)
    BY DEF Surjection
  <2> HIDE DEF f, V
  <2> QED BY <1>4, <2>1, FS_Surjection
<1>9. \A i \in V : v[i] \in Int
  BY <1>3
<1> HIDE DEF w, v, u, f, n
<1>10. SumFunctionOnSet(v, V) = SumFunctionOnSet(u, U)
  <2>1. \A i \in U : u[i] \in Int
    BY <1>3
  <2>2. \A i \in U : v[f[i]] = u[i]
    BY <1>3
  <2>3. \A y \in V : \E i \in U : y = f[i]
    OBVIOUS
  <2>4. DOMAIN f = U
    BY DEF f
  <2>5. \A i \in U : f[i] \in V
    OBVIOUS
  <2>6. IsFiniteSet(U)
    BY <1>4
  <2> HIDE DEF V
  <2> QED BY <1>5, <2>1, <2>2, <2>3, <2>4, <2>5, <2>6, SumRenamed
<1> HIDE DEF V
<1>11. SumFunctionOnSet(v, S) = SumFunctionOnSet(w, S)
  BY <1>2, <1>4, SumSame
<1>12. \A i \in S \cup V : v[i] \in Int
  BY <1>2, <1>9
<1>13. SumFunctionOnSet(v, S \cup V) = SumFunctionOnSet(v, S) + SumFunctionOnSet(v, V)
  BY <1>4, <1>6, <1>8, <1>12, SumUnion
<1>14. SumFunctionOnSet(v, S \cup V) = SumFunctionOnSet(w, S) + SumFunctionOnSet(u, U)
  BY <1>10, <1>11, <1>13
<1> QED BY <1>7, <1>14 DEF QtyOf, w, v, u, n
=============================================================================
