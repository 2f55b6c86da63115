----------------------------- MODULE FoldLemmas -----------------------------
(***************************************************************************)
(* Folds and sums over finite sets, for the proofs about data.  The        *)
(* induction is by least counterexample: of the subsets that refute a      *)
(* claim, one is minimal, and the claim holds of all its smaller parts.    *)
(***************************************************************************)
EXTENDS Integers, FiniteSets, Functions, FiniteSetTheorems, WellFoundedInduction, TLAPS

(* A nonempty set of numbers has a least one.                              *)
LEMMA LeastNatural ==
  ASSUME NEW T, T \subseteq Nat, T # {}
  PROVE  \E n \in T : \A m \in T : n <= m
<1> DEFINE R == {ss \in Nat \X Nat : ss[1] < ss[2]}
<1>1. IsWellFoundedOn(R, Nat)
  BY NatLessThanWellFounded DEF OpToRel
<1>2. ASSUME NEW m \in Nat, NEW n \in Nat, m < n
      PROVE  <<m, n>> \in R
  BY <1>2
<1> HIDE DEF R
<1>3. PICK n \in T : \A m \in T : ~(<<m, n>> \in R)
  BY <1>1, WFMin
<1>4. ASSUME NEW m \in T
      PROVE  n <= m
  <2>1. m \in Nat /\ n \in Nat /\ ~(<<m, n>> \in R)
    BY <1>3
  <2>2. ~(m < n)
    BY <1>2, <2>1
  <2>3. QED
    BY <2>1, <2>2
<1>5. QED
  BY <1>4

(* Among some subsets of a finite set, one has no smaller one beside it.   *)
LEMMA MinimalSubset ==
  ASSUME NEW S, IsFiniteSet(S), NEW B, B \subseteq SUBSET S, B # {}
  PROVE  \E T \in B : \A x \in T : T \ {x} \notin B
<1> DEFINE N == {Cardinality(T) : T \in B}
<1>1. ASSUME NEW T \in SUBSET S
      PROVE  IsFiniteSet(T) /\ Cardinality(T) \in Nat
  BY FS_Subset, FS_CardinalityType
<1>2. PICK n \in N : \A m \in N : n <= m
  <2>1. N \subseteq Nat /\ N # {}
    BY <1>1
  <2> HIDE DEF N
  <2>2. QED
    BY <2>1, LeastNatural
<1>3. PICK T \in B : n = Cardinality(T)
  BY <1>2
<1>4. ASSUME NEW x \in T, T \ {x} \in B
      PROVE  FALSE
  <2>1. IsFiniteSet(T) /\ Cardinality(T) \in Nat
    BY <1>1, <1>3
  <2>2. Cardinality(T \ {x}) = Cardinality(T) - 1
    BY <2>1, FS_RemoveElement
  <2>3. Cardinality(T) <= Cardinality(T \ {x})
    BY <1>2, <1>3, <1>4
  <2>4. QED
    BY <2>1, <2>2, <2>3
<1>5. QED
  BY <1>3, <1>4

-----------------------------------------------------------------------------
(* The recursion of the folds, its step and its choice given as functions. *)
IsFold(g, S, base, step, pick) ==
  g = [s \in SUBSET S |-> IF s = {} THEN base ELSE step[<<pick[s], g[s \ {pick[s]}]>>]]

(* It has a solution over a finite set.                                    *)
LEMMA FoldExists ==
  ASSUME NEW S, IsFiniteSet(S), NEW X, NEW base \in X,
         NEW step \in [S \X X -> X],
         NEW pick, \A s \in SUBSET S : s # {} => pick[s] \in s
  PROVE  \E g \in [SUBSET S -> X] : IsFold(g, S, base, step, pick)
<1> DEFINE Small(n) == {s \in SUBSET S : Cardinality(s) <= n}
           Value(g, s) == IF s = {} THEN base ELSE step[<<pick[s], g[s \ {pick[s]}]>>]
           Solved(n) == \E g : g \in [Small(n) -> X] /\ \A s \in Small(n) : g[s] = Value(g, s)
           Unsolved == {n \in Nat : ~Solved(n)}
<1>1. ASSUME NEW s \in SUBSET S
      PROVE  IsFiniteSet(s) /\ Cardinality(s) \in Nat
  BY FS_Subset, FS_CardinalityType
<1>2. ASSUME NEW s \in SUBSET S, Cardinality(s) <= 0
      PROVE  s = {}
  <2>1. Cardinality(s) = 0
    BY <1>1, <1>2
  <2>2. QED
    BY <1>1, <2>1, FS_EmptySet
<1>3. ASSUME NEW n \in Nat, NEW s \in SUBSET S, Cardinality(s) <= n + 1, s # {}
      PROVE  /\ s \ {pick[s]} \in SUBSET S
             /\ Cardinality(s \ {pick[s]}) <= n
             /\ pick[s] \in S
  <2>1. pick[s] \in s
    BY <1>3
  <2>2. Cardinality(s \ {pick[s]}) = Cardinality(s) - 1
    BY <1>1, <2>1, FS_RemoveElement
  <2>3. QED
    BY <1>1, <1>3, <2>1, <2>2
<1>4. Solved(0)
  <2> DEFINE g == [s \in Small(0) |-> base]
  <2>1. \A s \in Small(0) : s = {}
    BY <1>2
  <2>2. g \in [Small(0) -> X] /\ \A s \in Small(0) : g[s] = Value(g, s)
    BY <2>1
  <2>3. QED
    BY <2>2
<1>5. ASSUME NEW n \in Nat, Solved(n)
      PROVE  Solved(n + 1)
  <2>1. PICK g : g \in [Small(n) -> X] /\ \A s \in Small(n) : g[s] = Value(g, s)
    BY <1>5
  <2> DEFINE h == [s \in Small(n + 1) |-> IF s \in Small(n) THEN g[s] ELSE Value(g, s)]
  <2>2. ASSUME NEW s \in Small(n + 1), s # {}
        PROVE  s \ {pick[s]} \in Small(n) /\ pick[s] \in S
    BY <1>3, <2>2
  <2>3. ASSUME NEW s \in Small(n + 1)
        PROVE  h[s] = Value(g, s) /\ Value(g, s) \in X
    BY <2>1, <2>2
  <2>4. ASSUME NEW s \in Small(n)
        PROVE  s \in Small(n + 1) /\ h[s] = g[s]
    <3>1. Cardinality(s) \in Nat /\ Cardinality(s) <= n
      BY <1>1
    <3>2. Cardinality(s) <= n + 1
      BY <3>1
    <3>3. QED
      BY <3>2
  <2>5. ASSUME NEW s \in Small(n + 1)
        PROVE  Value(g, s) = Value(h, s)
    BY <2>2, <2>4
  <2>6. h \in [Small(n + 1) -> X] /\ \A s \in Small(n + 1) : h[s] = Value(h, s)
    <3>1. h = [s \in Small(n + 1) |-> h[s]]
      OBVIOUS
    <3> HIDE DEF h, Value
    <3>2. \A s \in Small(n + 1) : h[s] \in X /\ h[s] = Value(h, s)
      BY <2>3, <2>5
    <3> HIDE DEF Small
    <3>3. h \in [Small(n + 1) -> X]
      BY <3>1, <3>2
    <3>4. QED
      BY <3>2, <3>3
  <2>7. QED
    BY <2>6
<1>6. \A n \in Nat : Solved(n)
  <2> HIDE DEF Solved
  <2>1. SUFFICES ASSUME Unsolved # {} PROVE FALSE
    OBVIOUS
  <2>2. PICK n \in Unsolved : \A m \in Unsolved : n <= m
    BY <2>1, LeastNatural
  <2>3. n # 0 /\ n \in Nat
    BY <1>4, <2>2
  <2>4. n - 1 \in Nat /\ Solved(n - 1)
    BY <2>2, <2>3
  <2>5. Solved((n - 1) + 1)
    BY <1>5, <2>4
  <2>6. (n - 1) + 1 = n
    BY <2>3
  <2>7. QED
    BY <2>2, <2>5, <2>6
<1>7. PICK g : /\ g \in [Small(Cardinality(S)) -> X]
               /\ \A s \in Small(Cardinality(S)) : g[s] = Value(g, s)
  BY <1>1, <1>6
<1>8. Small(Cardinality(S)) = SUBSET S
  BY <1>1, FS_Subset
<1>9. IsFold(g, S, base, step, pick)
  BY <1>7, <1>8 DEF IsFold
<1>10. QED
  BY <1>7, <1>8, <1>9

-----------------------------------------------------------------------------
(* Sums: SumFunctionOnSet takes out a chosen element at a time.            *)
Chosen(s) == CHOOSE x \in s : TRUE
Partial(g, w, S) ==
  g = [s \in SUBSET S |-> IF s = {} THEN 0 ELSE w[Chosen(s)] + g[s \ {Chosen(s)}]]

LEMMA ChosenIn ==
  ASSUME NEW s, s # {}
  PROVE  Chosen(s) \in s
  BY DEF Chosen

(* A sum is the last of the partial sums of some such recursion.           *)
LEMMA SumUnfold ==
  ASSUME NEW S, IsFiniteSet(S), NEW w, \A x \in S : w[x] \in Int
  PROVE  \E g : Partial(g, w, S) /\ SumFunctionOnSet(w, S) = g[S]
<1> DEFINE P(g) == Partial(g, w, S)
<1>1. SumFunctionOnSet(w, S) = (CHOOSE g : P(g))[S]
  BY DEF SumFunctionOnSet, FoldFunctionOnSet, MapThenFoldSet, Partial, Chosen
<1>2. \E g : P(g)
  <2> DEFINE step == [p \in S \X Int |-> w[p[1]] + p[2]]
             pick == [s \in SUBSET S |-> Chosen(s)]
  <2>1. step \in [S \X Int -> Int]
    OBVIOUS
  <2>2. \A s \in SUBSET S : s # {} => pick[s] \in s
    BY ChosenIn
  <2>3. \A x \in S, n \in Int : step[<<x, n>>] = w[x] + n
    OBVIOUS
  <2>4. \A s \in SUBSET S : pick[s] = Chosen(s)
    OBVIOUS
  <2> HIDE DEF step, pick
  <2>5. PICK g \in [SUBSET S -> Int] : IsFold(g, S, 0, step, pick)
    <3>1. 0 \in Int
      OBVIOUS
    <3>2. QED
      BY <2>1, <2>2, <3>1, FoldExists
  <2>6. ASSUME NEW s \in SUBSET S, s # {}
        PROVE  step[<<pick[s], g[s \ {pick[s]}]>>] = w[Chosen(s)] + g[s \ {Chosen(s)}]
    <3>1. pick[s] \in S /\ pick[s] = Chosen(s)
      BY <2>2, <2>4, <2>6
    <3>2. g[s \ {pick[s]}] \in Int
      OBVIOUS
    <3>3. QED
      BY <2>3, <3>1, <3>2
  <2>7. Partial(g, w, S)
    BY <2>5, <2>6 DEF IsFold, Partial
  <2>8. QED
    BY <2>7
<1> HIDE DEF P
<1>3. P(CHOOSE g : P(g))
  BY <1>2
<1>4. QED
  BY <1>1, <1>3 DEF P

(* Two such recursions agree where their summands do.                      *)
LEMMA PartialsAgree ==
  ASSUME NEW S, IsFiniteSet(S), NEW w, NEW g, Partial(g, w, S),
         NEW R, NEW v, NEW h, Partial(h, v, R),
         NEW T, T \subseteq S, T \subseteq R, \A x \in T : w[x] = v[x]
  PROVE  g[T] = h[T]
<1> DEFINE B == {s \in SUBSET T : g[s] # h[s]}
<1>1. SUFFICES ASSUME B # {} PROVE FALSE
  OBVIOUS
<1>2. IsFiniteSet(T)
  BY FS_Subset
<1>3. PICK s \in B : \A x \in s : s \ {x} \notin B
  <2> HIDE DEF B
  <2>1. B \subseteq SUBSET T
    BY DEF B
  <2>2. QED
    BY <1>1, <1>2, <2>1, MinimalSubset
<1>4. s \subseteq T /\ g[s] # h[s]
  BY <1>3
<1>5. /\ g[s] = IF s = {} THEN 0 ELSE w[Chosen(s)] + g[s \ {Chosen(s)}]
      /\ h[s] = IF s = {} THEN 0 ELSE v[Chosen(s)] + h[s \ {Chosen(s)}]
  BY <1>4 DEF Partial
<1>6. s # {}
  BY <1>4, <1>5
<1>7. Chosen(s) \in s
  BY <1>6, ChosenIn
<1>8. g[s \ {Chosen(s)}] = h[s \ {Chosen(s)}]
  BY <1>3, <1>4, <1>7
<1>9. w[Chosen(s)] = v[Chosen(s)]
  BY <1>4, <1>7
<1>10. QED
  BY <1>4, <1>5, <1>6, <1>8, <1>9

(* The partial sums are integers.                                          *)
LEMMA PartialsTyped ==
  ASSUME NEW S, IsFiniteSet(S), NEW w, \A x \in S : w[x] \in Int,
         NEW g, Partial(g, w, S), NEW T, T \subseteq S
  PROVE  g[T] \in Int
<1> DEFINE B == {s \in SUBSET S : g[s] \notin Int}
<1>1. SUFFICES ASSUME B # {} PROVE FALSE
  OBVIOUS
<1>2. PICK s \in B : \A x \in s : s \ {x} \notin B
  <2> HIDE DEF B
  <2>1. B \subseteq SUBSET S
    BY DEF B
  <2>2. QED
    BY <1>1, <2>1, MinimalSubset
<1>3. s \subseteq S /\ g[s] \notin Int
  BY <1>2
<1>4. g[s] = IF s = {} THEN 0 ELSE w[Chosen(s)] + g[s \ {Chosen(s)}]
  BY <1>3 DEF Partial
<1>5. s # {}
  BY <1>3, <1>4
<1>6. Chosen(s) \in s
  BY <1>5, ChosenIn
<1>7. g[s \ {Chosen(s)}] \in Int /\ w[Chosen(s)] \in Int
  BY <1>2, <1>3, <1>6
<1>8. QED
  BY <1>3, <1>4, <1>5, <1>7

Splits(g, w, s, z) == g[s] = w[z] + g[s \ {z}]

(* Any element may be the one that is taken out.                           *)
LEMMA PartialsSplit ==
  ASSUME NEW S, IsFiniteSet(S), NEW w, \A x \in S : w[x] \in Int,
         NEW g, Partial(g, w, S), NEW T, T \subseteq S, NEW y \in T
  PROVE  Splits(g, w, T, y)
<1> DEFINE Split(s) == \A z \in s : Splits(g, w, s, z)
           B == {s \in SUBSET S : ~Split(s)}
<1>1. SUFFICES ASSUME B # {} PROVE FALSE
  OBVIOUS
<1>2. PICK s \in B : \A x \in s : s \ {x} \notin B
  <2> HIDE DEF B
  <2>1. B \subseteq SUBSET S
    BY DEF B
  <2>2. QED
    BY <1>1, <2>1, MinimalSubset
<1>3. PICK z \in s : ~Splits(g, w, s, z)
  BY <1>2
<1> DEFINE x == Chosen(s)
<1>4. s \subseteq S /\ s # {}
  BY <1>2, <1>3
<1>5. x \in s /\ x \in S /\ z \in S
  BY <1>4, ChosenIn
<1>6. g[s] = w[x] + g[s \ {x}]
  BY <1>4 DEF Partial
<1> HIDE DEF x
<1>7. x # z
  BY <1>3, <1>6 DEF Splits
<1>8. Split(s \ {x}) /\ Split(s \ {z})
  BY <1>2, <1>3, <1>4, <1>5
<1> DEFINE rest == (s \ {x}) \ {z}
<1>9. rest = (s \ {z}) \ {x} /\ rest \subseteq S
  BY <1>4
<1>10. g[s \ {x}] = w[z] + g[rest] /\ g[s \ {z}] = w[x] + g[rest]
  BY <1>3, <1>5, <1>7, <1>8, <1>9 DEF Splits
<1> HIDE DEF rest
<1>11. w[x] \in Int /\ w[z] \in Int /\ g[rest] \in Int
  BY <1>5, <1>9, PartialsTyped
<1>12. QED
  BY <1>3, <1>6, <1>10, <1>11 DEF Splits

(* A sum of integers is an integer, and of nothing it is 0.                *)
LEMMA SumTyped ==
  ASSUME NEW S, IsFiniteSet(S), NEW w, \A x \in S : w[x] \in Int
  PROVE  SumFunctionOnSet(w, S) \in Int
  BY SumUnfold, PartialsTyped

LEMMA SumEmpty ==
  ASSUME NEW w
  PROVE  SumFunctionOnSet(w, {}) = 0
<1>1. IsFiniteSet({}) /\ \A x \in {} : w[x] \in Int
  BY FS_EmptySet
<1>2. PICK g : Partial(g, w, {}) /\ SumFunctionOnSet(w, {}) = g[{}]
  BY <1>1, SumUnfold
<1>3. QED
  BY <1>2 DEF Partial

(* Equal summands, equal sums.                                             *)
LEMMA SumEqual ==
  ASSUME NEW S, IsFiniteSet(S), NEW w, NEW v,
         \A x \in S : w[x] \in Int /\ w[x] = v[x]
  PROVE  SumFunctionOnSet(v, S) = SumFunctionOnSet(w, S)
<1>1. PICK g : Partial(g, w, S) /\ SumFunctionOnSet(w, S) = g[S]
  BY SumUnfold
<1>2. \A x \in S : v[x] \in Int
  OBVIOUS
<1>3. PICK h : Partial(h, v, S) /\ SumFunctionOnSet(v, S) = h[S]
  BY <1>2, SumUnfold
<1>4. QED
  BY <1>1, <1>3, PartialsAgree

(* The sum is that of any element and of the sum of the others.            *)
LEMMA SumSplit ==
  ASSUME NEW S, IsFiniteSet(S), NEW w, \A x \in S : w[x] \in Int, NEW y \in S
  PROVE  SumFunctionOnSet(w, S) = w[y] + SumFunctionOnSet(w, S \ {y})
<1>1. PICK g : Partial(g, w, S) /\ SumFunctionOnSet(w, S) = g[S]
  BY SumUnfold
<1>2. IsFiniteSet(S \ {y}) /\ \A x \in S \ {y} : w[x] \in Int
  BY FS_Subset
<1>3. PICK h : Partial(h, w, S \ {y}) /\ SumFunctionOnSet(w, S \ {y}) = h[S \ {y}]
  BY <1>2, SumUnfold
<1>4. g[S \ {y}] = h[S \ {y}]
  <2>1. S \ {y} \subseteq S /\ S \ {y} \subseteq S \ {y}
    OBVIOUS
  <2>2. QED
    BY <1>1, <1>2, <1>3, <2>1, PartialsAgree
<1>5. Splits(g, w, S, y)
  <2>1. S \subseteq S
    OBVIOUS
  <2>2. QED
    BY <1>1, <2>1, PartialsSplit
<1>6. QED
  BY <1>1, <1>3, <1>4, <1>5 DEF Splits

(* Where one summand changes, the sum changes by as much.                  *)
LEMMA SumChange ==
  ASSUME NEW S, IsFiniteSet(S), NEW w, NEW v, NEW y \in S,
         \A x \in S : w[x] \in Int /\ v[x] \in Int,
         \A x \in S \ {y} : w[x] = v[x]
  PROVE  SumFunctionOnSet(v, S) = SumFunctionOnSet(w, S) + v[y] - w[y]
<1>1. /\ SumFunctionOnSet(w, S) = w[y] + SumFunctionOnSet(w, S \ {y})
      /\ SumFunctionOnSet(v, S) = v[y] + SumFunctionOnSet(v, S \ {y})
  BY SumSplit
<1>2. IsFiniteSet(S \ {y})
  BY FS_Subset
<1>3. SumFunctionOnSet(v, S \ {y}) = SumFunctionOnSet(w, S \ {y})
  BY <1>2, SumEqual
<1>4. SumFunctionOnSet(w, S \ {y}) \in Int /\ w[y] \in Int /\ v[y] \in Int
  BY <1>2, SumTyped
<1>5. QED
  BY <1>1, <1>3, <1>4

(* One more summand.                                                       *)
IntegersOn(w, S) == \A x \in S : w[x] \in Int
AlikeOn(w, v, S) == \A x \in S : w[x] = v[x]

LEMMA SumAdd ==
  ASSUME NEW S, IsFiniteSet(S), NEW w, NEW v, NEW y, y \notin S,
         IntegersOn(w, S), AlikeOn(w, v, S), v[y] \in Int
  PROVE  SumFunctionOnSet(v, S \cup {y}) = SumFunctionOnSet(w, S) + v[y]
<1> DEFINE R == S \cup {y}
<1> USE DEF IntegersOn, AlikeOn
<1>1. IsFiniteSet(R) /\ \A x \in R : v[x] \in Int
  BY FS_AddElement
<1>2. y \in R /\ R \ {y} = S
  OBVIOUS
<1> HIDE DEF R
<1>3. SumFunctionOnSet(v, R) = v[y] + SumFunctionOnSet(v, R \ {y})
  BY <1>1, <1>2, SumSplit
<1>4. SumFunctionOnSet(v, S) = SumFunctionOnSet(w, S)
  BY SumEqual
<1>5. SumFunctionOnSet(w, S) \in Int
  BY SumTyped
<1>6. SumFunctionOnSet(v, R) = v[y] + SumFunctionOnSet(w, S)
  BY <1>2, <1>3, <1>4
<1>7. SumFunctionOnSet(v, R) = SumFunctionOnSet(w, S) + v[y]
  BY <1>5, <1>6
<1>8. QED
  BY <1>7 DEF R

(* A sum of natural numbers is one, and smaller summands make a smaller    *)
(* sum.                                                                    *)
LEMMA SumMonotone ==
  ASSUME NEW S, IsFiniteSet(S), NEW w, NEW v,
         \A x \in S : w[x] \in Int /\ v[x] \in Int /\ w[x] <= v[x]
  PROVE  SumFunctionOnSet(w, S) <= SumFunctionOnSet(v, S)
<1> DEFINE B == {s \in SUBSET S : ~(SumFunctionOnSet(w, s) <= SumFunctionOnSet(v, s))}
<1>1. SUFFICES ASSUME B # {} PROVE FALSE
  OBVIOUS
<1>2. PICK s \in B : \A x \in s : s \ {x} \notin B
  <2> HIDE DEF B
  <2>1. B \subseteq SUBSET S
    BY DEF B
  <2>2. QED
    BY <1>1, <2>1, MinimalSubset
<1>3. IsFiniteSet(s) /\ s \subseteq S
  BY <1>2, FS_Subset
<1>4. s # {}
  BY <1>2, SumEmpty
<1>5. PICK x \in s : TRUE
  BY <1>4
<1>6. /\ SumFunctionOnSet(w, s) = w[x] + SumFunctionOnSet(w, s \ {x})
      /\ SumFunctionOnSet(v, s) = v[x] + SumFunctionOnSet(v, s \ {x})
  BY <1>3, SumSplit
<1>7. SumFunctionOnSet(w, s \ {x}) <= SumFunctionOnSet(v, s \ {x})
  BY <1>2, <1>3
<1>8. IsFiniteSet(s \ {x}) /\ s \ {x} \subseteq S
  BY <1>3, FS_Subset
<1>9. SumFunctionOnSet(w, s \ {x}) \in Int /\ SumFunctionOnSet(v, s \ {x}) \in Int
  BY <1>8, SumTyped
<1>10. w[x] \in Int /\ v[x] \in Int /\ w[x] <= v[x]
  BY <1>3
<1>11. SumFunctionOnSet(w, s) <= SumFunctionOnSet(v, s)
  BY <1>6, <1>7, <1>9, <1>10
<1>12. QED
  BY <1>2, <1>11

LEMMA SumNatural ==
  ASSUME NEW S, IsFiniteSet(S), NEW w, \A x \in S : w[x] \in Nat
  PROVE  SumFunctionOnSet(w, S) \in Nat
<1> DEFINE B == {s \in SUBSET S : SumFunctionOnSet(w, s) \notin Nat}
<1>1. SUFFICES ASSUME B # {} PROVE FALSE
  OBVIOUS
<1>2. PICK s \in B : \A x \in s : s \ {x} \notin B
  <2> HIDE DEF B
  <2>1. B \subseteq SUBSET S
    BY DEF B
  <2>2. QED
    BY <1>1, <2>1, MinimalSubset
<1>3. IsFiniteSet(s) /\ s \subseteq S
  BY <1>2, FS_Subset
<1>4. s # {}
  BY <1>2, SumEmpty
<1>5. PICK x \in s : TRUE
  BY <1>4
<1>6. SumFunctionOnSet(w, s) = w[x] + SumFunctionOnSet(w, s \ {x})
  BY <1>3, SumSplit
<1>7. SumFunctionOnSet(w, s \ {x}) \in Nat /\ w[x] \in Nat
  BY <1>2, <1>3
<1>8. QED
  BY <1>2, <1>6, <1>7

(* Any solution of the recursion is the sum, and there is one.             *)
LEMMA PartialExists ==
  ASSUME NEW S, IsFiniteSet(S), NEW w, IntegersOn(w, S)
  PROVE  \E g : Partial(g, w, S)
  BY SumUnfold DEF IntegersOn

LEMMA PartialIsSum ==
  ASSUME NEW S, IsFiniteSet(S), NEW w, IntegersOn(w, S), NEW g, Partial(g, w, S)
  PROVE  g[S] = SumFunctionOnSet(w, S)
<1>1. PICK h : Partial(h, w, S) /\ SumFunctionOnSet(w, S) = h[S]
  BY SumUnfold DEF IntegersOn
<1>2. S \subseteq S /\ \A x \in S : w[x] = w[x]
  OBVIOUS
<1>3. QED
  BY <1>1, <1>2, PartialsAgree

-----------------------------------------------------------------------------
(* What a function makes of a finite set is finite, and has a greatest     *)
(* value.                                                                  *)
LEMMA ImageFinite ==
  ASSUME NEW S, IsFiniteSet(S), NEW f
  PROVE  IsFiniteSet({f[x] : x \in S})
<1> DEFINE T == {f[x] : x \in S}
           h == [x \in S |-> f[x]]
<1>1. h \in Surjection(S, T)
  BY DEF Surjection
<1>2. QED
  BY <1>1, FS_Surjection

LEMMA GreatestValue ==
  ASSUME NEW S, IsFiniteSet(S), S # {}, NEW f, IntegersOn(f, S)
  PROVE  \E x \in S : \A y \in S : f[x] >= f[y]
<1> DEFINE Greatest(x, T) == \A y \in T : f[x] >= f[y]
           B == {T \in SUBSET S : T # {} /\ \A x \in T : ~Greatest(x, T)}
<1>1. SUFFICES ASSUME B # {} PROVE FALSE
  OBVIOUS
<1>2. PICK T \in B : \A x \in T : T \ {x} \notin B
  <2> HIDE DEF B
  <2>1. B \subseteq SUBSET S
    BY DEF B
  <2>2. QED
    BY <1>1, <2>1, MinimalSubset
<1>3. \A x \in S : f[x] \in Int
  BY DEF IntegersOn
<1>4. PICK x \in T : TRUE
  BY <1>2
<1>5. CASE T \ {x} = {}
  <2>1. \A y \in T : y = x
    BY <1>5
  <2>2. Greatest(x, T)
    BY <1>2, <1>3, <1>4, <2>1
  <2>3. QED
    BY <1>2, <2>2
<1>6. CASE T \ {x} # {}
  <2>1. PICK m \in T \ {x} : Greatest(m, T \ {x})
    BY <1>2, <1>6
  <2>2. f[m] \in Int /\ f[x] \in Int
    BY <1>2, <1>3
  <2>3. CASE f[m] >= f[x]
    <3>1. Greatest(m, T)
      BY <2>1, <2>3
    <3>2. QED
      BY <1>2, <2>1, <3>1
  <2>4. CASE ~(f[m] >= f[x])
    <3>1. \A y \in T : f[y] \in Int
      BY <1>2, <1>3
    <3>2. Greatest(x, T)
      BY <2>1, <2>2, <2>4, <3>1
    <3>3. QED
      BY <1>2, <3>2
  <2>5. QED
    BY <2>3, <2>4
<1>7. QED
  BY <1>5, <1>6
=============================================================================
