--------------------------- MODULE Amounts_proofs ---------------------------
(***************************************************************************)
(* What holds of amounts, for every purse, every number of payments and    *)
(* refresh groups, every worth and fee, every throttle and every argument  *)
(* of a choice, proved with TLAPS.                                         *)
(***************************************************************************)
EXTENDS Money, RequestThrottler, Selection, FiniteSetTheorems, WellFoundedInduction, TLAPS
-----------------------------------------------------------------------------
(* Induction, with a set in the place of a predicate.                      *)
LEMMA SetOfNumbersInduction ==
    ASSUME NEW P, 0 \in P, \A n \in Nat : n \in P => n + 1 \in P
    PROVE  Nat \subseteq P
<1> SUFFICES ASSUME Nat \ P # {} PROVE FALSE OBVIOUS
<1>1. PICK m \in Nat \ P : \A n \in Nat \ P : ~ (<<n, m>> \in OpToRel(<, Nat))
  <2>1. Nat \ P \subseteq Nat OBVIOUS
  <2> QED BY <2>1, NatLessThanWellFounded, WFMin, Zenon
<1>2. \A n \in Nat \ P : ~ (n < m) BY <1>1 DEF OpToRel
<1>3. m - 1 \in Nat /\ m - 1 \in P BY <1>2
<1> QED BY <1>3

(* An element is taken out of a subset of a finite set.                    *)
LEMMA Smaller ==
    ASSUME NEW D, IsFiniteSet(D), NEW s \in SUBSET D
    PROVE  /\ IsFiniteSet(s) /\ Cardinality(s) \in Nat /\ (Cardinality(s) = 0 <=> s = {})
           /\ \A x \in s : /\ s \ {x} \in SUBSET D /\ Cardinality(s \ {x}) \in Nat
                           /\ Cardinality(s) = Cardinality(s \ {x}) + 1
<1>1. IsFiniteSet(s) /\ Cardinality(s) \in Nat BY FS_Subset, FS_CardinalityType
<1>2. Cardinality(s) = 0 <=> s = {} BY <1>1, FS_EmptySet
<1>3. ASSUME NEW x \in s
      PROVE  /\ s \ {x} \in SUBSET D /\ Cardinality(s \ {x}) \in Nat
             /\ Cardinality(s) = Cardinality(s \ {x}) + 1
  <2>1. IsFiniteSet(s \ {x}) /\ Cardinality(s \ {x}) = Cardinality(s) - 1
    BY <1>1, FS_RemoveElement
  <2>2. Cardinality(s \ {x}) \in Nat BY <2>1, FS_CardinalityType
  <2> QED BY <1>1, <2>1, <2>2
<1> QED BY <1>1, <1>2, <1>3

(* What holds of the empty set, and of a set with one more element if it   *)
(* holds without, holds of all finite sets.                                *)
LEMMA SetOfSetsInduction ==
    ASSUME NEW D, IsFiniteSet(D), NEW P, {} \in P,
           \A s \in SUBSET D : \A x \in D \ s : s \in P => s \cup {x} \in P
    PROVE  SUBSET D \subseteq P
<1> DEFINE Q == {n \in Nat : \A s \in SUBSET D : Cardinality(s) = n => s \in P}
<1>1. 0 \in Q BY Smaller
<1>2. ASSUME NEW n \in Nat, n \in Q PROVE n + 1 \in Q
  <2>1. ASSUME NEW s \in SUBSET D, Cardinality(s) = n + 1 PROVE s \in P
    <3>1. s # {} BY <2>1, Smaller
    <3>2. PICK x \in s : TRUE BY <3>1
    <3>3. s \ {x} \in SUBSET D /\ Cardinality(s \ {x}) = n BY <2>1, <3>2, Smaller
    <3>4. s \ {x} \in P BY <1>2, <3>3
    <3>5. s = (s \ {x}) \cup {x} /\ x \in D \ (s \ {x}) BY <3>2
    <3> QED BY <3>3, <3>4, <3>5
  <2> QED BY <2>1
<1> HIDE DEF Q
<1>3. Nat \subseteq Q BY <1>1, <1>2, SetOfNumbersInduction
<1> USE DEF Q
<1> QED BY <1>3, Smaller

(* A function on the subsets of D that is defined by taking one element    *)
(* out of a set.                                                           *)
WalkStep(w, s, base, pick, step) ==
    IF s = {} THEN base ELSE step[w[s \ {pick[s]}], pick[s]]
IsWalk(w, D, base, pick, step) == w = [s \in SUBSET D |-> WalkStep(w, s, base, pick, step)]

Small(D, n) == {s \in SUBSET D : Cardinality(s) <= n}
WalksTo(w, D, X, n, base, pick, step) ==
    /\ w \in [Small(D, n) -> X]
    /\ \A s \in Small(D, n) : w[s] = WalkStep(w, s, base, pick, step)

(* There is such a function, whichever element is taken out, and its       *)
(* values are in X.                                                        *)
LEMMA WalkExists ==
    ASSUME NEW D, IsFiniteSet(D), NEW X, NEW base \in X, NEW step \in [X \X D -> X],
           NEW pick, \A s \in SUBSET D : s # {} => pick[s] \in s
    PROVE  \E w \in [SUBSET D -> X] : IsWalk(w, D, base, pick, step)
<1> DEFINE Q == {n \in Nat : \E w : WalksTo(w, D, X, n, base, pick, step)}
<1>1. 0 \in Q
  <2>1. Small(D, 0) = {{}} BY Smaller DEF Small
  <2>2. WalksTo([s \in Small(D, 0) |-> base], D, X, 0, base, pick, step)
    BY <2>1 DEF WalksTo, WalkStep
  <2> QED BY <2>2
<1>2. ASSUME NEW n \in Nat, n \in Q PROVE n + 1 \in Q
  <2>1. PICK w : WalksTo(w, D, X, n, base, pick, step) BY <1>2
  <2> DEFINE v == [s \in Small(D, n + 1) |-> WalkStep(w, s, base, pick, step)]
  <2>2. ASSUME NEW s \in Small(D, n + 1), s # {}
        PROVE  s \ {pick[s]} \in Small(D, n) /\ pick[s] \in D
    <3>1. pick[s] \in s BY <2>2 DEF Small
    <3>2. Cardinality(s) = Cardinality(s \ {pick[s]}) + 1 /\ Cardinality(s \ {pick[s]}) \in Nat
      BY <3>1, Smaller DEF Small
    <3> QED BY <3>1, <3>2 DEF Small
  <2>3. ASSUME NEW s \in Small(D, n + 1) PROVE WalkStep(w, s, base, pick, step) \in X
    <3>1. CASE s = {} BY <3>1 DEF WalkStep
    <3>2. CASE s # {}
      <4>1. w[s \ {pick[s]}] \in X /\ pick[s] \in D BY <2>1, <2>2, <3>2 DEF WalksTo
      <4> QED BY <4>1, <3>2 DEF WalkStep
    <3> QED BY <3>1, <3>2
  <2>4. v \in [Small(D, n + 1) -> X] BY <2>3
  <2>5. Small(D, n) \subseteq Small(D, n + 1) BY Smaller DEF Small
  <2>6. ASSUME NEW s \in Small(D, n) PROVE v[s] = w[s]
    BY <2>1, <2>5 DEF WalksTo
  <2>7. ASSUME NEW s \in Small(D, n + 1) PROVE v[s] = WalkStep(v, s, base, pick, step)
    <3>1. v[s] = WalkStep(w, s, base, pick, step) OBVIOUS
    <3>2. CASE s = {} BY <3>1, <3>2 DEF WalkStep
    <3>3. CASE s # {}
      <4>1. v[s \ {pick[s]}] = w[s \ {pick[s]}] BY <2>2, <2>6, <3>3
      <4> HIDE DEF v
      <4> QED BY <3>1, <3>3, <4>1 DEF WalkStep
    <3> QED BY <3>2, <3>3
  <2> HIDE DEF v
  <2>8. WalksTo(v, D, X, n + 1, base, pick, step) BY <2>4, <2>7 DEF WalksTo
  <2> QED BY <2>8
<1> HIDE DEF Q
<1>3. Nat \subseteq Q BY <1>1, <1>2, SetOfNumbersInduction
<1> USE DEF Q
<1>4. D \in SUBSET D OBVIOUS
<1>5. PICK w : WalksTo(w, D, X, Cardinality(D), base, pick, step) BY <1>3, <1>4, Smaller
<1>6. Small(D, Cardinality(D)) = SUBSET D BY FS_Subset DEF Small
<1>7. IsWalk(w, D, base, pick, step)
  BY <1>5, <1>6 DEF IsWalk, WalksTo
<1> QED BY <1>5, <1>6, <1>7 DEF WalksTo

(* There is only one such function.                                        *)
LEMMA WalkIsUnique ==
    ASSUME NEW D, IsFiniteSet(D), NEW E \in SUBSET D, NEW base, NEW step,
           NEW pick, \A s \in SUBSET D : s # {} => pick[s] \in s,
           NEW w, NEW v, IsWalk(w, D, base, pick, step), IsWalk(v, E, base, pick, step)
    PROVE  \A s \in SUBSET E : w[s] = v[s]
<1> DEFINE Q == {n \in Nat : \A s \in SUBSET E : Cardinality(s) = n => w[s] = v[s]}
<1>1. ASSUME NEW s \in SUBSET E
      PROVE  w[s] = WalkStep(w, s, base, pick, step) /\ v[s] = WalkStep(v, s, base, pick, step)
  <2>1. s \in SUBSET D OBVIOUS
  <2> DEFINE ws == [t \in SUBSET D |-> WalkStep(w, t, base, pick, step)]
             vs == [t \in SUBSET E |-> WalkStep(v, t, base, pick, step)]
  <2>2. ws[s] = WalkStep(w, s, base, pick, step) /\ vs[s] = WalkStep(v, s, base, pick, step)
    BY <2>1
  <2>3. w = ws /\ v = vs BY DEF IsWalk
  <2> HIDE DEF ws, vs
  <2> QED BY <2>2, <2>3
<1>2. 0 \in Q
  <2>1. w[{}] = v[{}] BY <1>1 DEF WalkStep
  <2> QED BY <2>1, Smaller
<1>3. ASSUME NEW n \in Nat, n \in Q PROVE n + 1 \in Q
  <2>1. ASSUME NEW s \in SUBSET E, Cardinality(s) = n + 1 PROVE w[s] = v[s]
    <3>1. s # {} /\ s \in SUBSET D BY <2>1, Smaller
    <3>2. pick[s] \in s BY <3>1
    <3>3. Cardinality(s \ {pick[s]}) = n BY <2>1, <3>1, <3>2, Smaller
    <3>4. w[s \ {pick[s]}] = v[s \ {pick[s]}] BY <1>3, <3>3
    <3> QED BY <1>1, <3>1, <3>4 DEF WalkStep
  <2> QED BY <2>1
<1> HIDE DEF Q
<1>4. Nat \subseteq Q BY <1>2, <1>3, SetOfNumbersInduction
<1> USE DEF Q
<1> QED BY <1>4, Smaller
-----------------------------------------------------------------------------
(* Sums.                                                                   *)
Any(s) == CHOOSE x \in s : TRUE
IsSum(g, f, D) == g = [s \in SUBSET D |-> IF s = {} THEN 0 ELSE f[Any(s)] + g[s \ {Any(s)}]]

(* What SumOver and the fold below it say.                                 *)
LEMMA SumIsChosen ==
    ASSUME NEW f, NEW D
    PROVE  SumOver(f, D) = (CHOOSE g : IsSum(g, f, D))[D]
  BY Zenon DEF SumOver, MapThenSumSet, MapThenFoldSet, IsSum, Any

(* One unfolding of a sum.                                                 *)
LEMMA SumStep ==
    ASSUME NEW g, NEW f, NEW D, IsSum(g, f, D), NEW s \in SUBSET D
    PROVE  /\ s = {} => g[s] = 0
           /\ s # {} => Any(s) \in s /\ g[s] = f[Any(s)] + g[s \ {Any(s)}]
<1> DEFINE gs == [t \in SUBSET D |-> IF t = {} THEN 0 ELSE f[Any(t)] + g[t \ {Any(t)}]]
<1>1. gs[s] = IF s = {} THEN 0 ELSE f[Any(s)] + g[s \ {Any(s)}] OBVIOUS
<1>2. g = gs BY DEF IsSum
<1>3. s # {} => Any(s) \in s BY DEF Any
<1> HIDE DEF gs
<1> QED BY <1>1, <1>2, <1>3

(* The fold of a sum exists for every finite set of naturals.              *)
LEMMA SumExists ==
    ASSUME NEW D, IsFiniteSet(D), NEW f, \A x \in D : f[x] \in Nat
    PROVE  \E g : IsSum(g, f, D)
<1> DEFINE pick == [s \in SUBSET D |-> Any(s)]
           step == [p \in Nat \X D |-> f[p[2]] + p[1]]
<1>1. step \in [Nat \X D -> Nat] OBVIOUS
<1>2. \A s \in SUBSET D : s # {} => pick[s] \in s BY DEF Any
<1>3. \A n \in Nat, x \in D : step[n, x] = f[x] + n OBVIOUS
<1>4. \A s \in SUBSET D : pick[s] = Any(s) OBVIOUS
<1> HIDE DEF pick, step
<1>5. PICK g \in [SUBSET D -> Nat] : IsWalk(g, D, 0, pick, step) BY <1>1, <1>2, WalkExists
<1>6. ASSUME NEW s \in SUBSET D
      PROVE  WalkStep(g, s, 0, pick, step) = IF s = {} THEN 0 ELSE f[Any(s)] + g[s \ {Any(s)}]
  <2>1. CASE s = {} BY <2>1 DEF WalkStep
  <2>2. CASE s # {}
    <3>1. Any(s) \in s /\ Any(s) \in D BY <1>2, <1>4, <2>2
    <3>2. g[s \ {Any(s)}] \in Nat OBVIOUS
    <3> QED BY <1>3, <1>4, <2>2, <3>1, <3>2 DEF WalkStep
  <2> QED BY <2>1, <2>2
<1>7. IsSum(g, f, D) BY <1>5, <1>6, Zenon DEF IsWalk, IsSum
<1> QED BY <1>7

(* Sums of functions that agree on a set agree.                            *)
LEMMA SumsAgree ==
    ASSUME NEW D, IsFiniteSet(D), NEW E \in SUBSET D, NEW f, NEW h,
           \A x \in E : f[x] \in Nat /\ f[x] = h[x],
           NEW g, IsSum(g, f, D), NEW k, IsSum(k, h, E)
    PROVE  \A s \in SUBSET E : g[s] = k[s] /\ g[s] \in Nat
<1> DEFINE Q == {n \in Nat : \A s \in SUBSET E : Cardinality(s) = n => g[s] = k[s] /\ g[s] \in Nat}
<1>1. 0 \in Q
  <2>1. g[{}] = 0 /\ k[{}] = 0 BY SumStep
  <2>2. \A s \in SUBSET E : Cardinality(s) = 0 => s = {} BY Smaller
  <2> QED BY <2>1, <2>2
<1>2. ASSUME NEW n \in Nat, n \in Q PROVE n + 1 \in Q
  <2>1. ASSUME NEW s \in SUBSET E, Cardinality(s) = n + 1 PROVE g[s] = k[s] /\ g[s] \in Nat
    <3>1. s # {} /\ s \in SUBSET D BY <2>1, Smaller
    <3>2. Any(s) \in s /\ g[s] = f[Any(s)] + g[s \ {Any(s)}] BY <3>1, SumStep
    <3>5. k[s] = h[Any(s)] + k[s \ {Any(s)}] BY <3>1, SumStep
    <3>3. Cardinality(s \ {Any(s)}) = n BY <2>1, <3>1, <3>2, Smaller
    <3>4. g[s \ {Any(s)}] = k[s \ {Any(s)}] /\ g[s \ {Any(s)}] \in Nat BY <1>2, <3>3
    <3> QED BY <3>2, <3>4, <3>5
  <2> QED BY <2>1
<1> HIDE DEF Q
<1>3. Nat \subseteq Q BY <1>1, <1>2, SetOfNumbersInduction
<1> USE DEF Q
<1> QED BY <1>3, Smaller

(* Each element may be taken out first.                                    *)
LEMMA SumTakesAny ==
    ASSUME NEW D, IsFiniteSet(D), NEW f, \A x \in D : f[x] \in Nat, NEW g, IsSum(g, f, D)
    PROVE  \A s \in SUBSET D : \A x \in s : g[s] = f[x] + g[s \ {x}]
<1> DEFINE Q == {n \in Nat : \A s \in SUBSET D :
                    Cardinality(s) = n => \A x \in s : g[s] = f[x] + g[s \ {x}]}
<1>1. 0 \in Q BY Smaller
<1>2. \A s \in SUBSET D : g[s] \in Nat BY SumsAgree
<1>3. ASSUME NEW n \in Nat, n \in Q PROVE n + 1 \in Q
  <2>1. ASSUME NEW s \in SUBSET D, Cardinality(s) = n + 1, NEW x \in s
        PROVE  g[s] = f[x] + g[s \ {x}]
    <3>4. s \in SUBSET D /\ s # {} OBVIOUS
    <3>5. Any(s) \in s /\ g[s] = f[Any(s)] + g[s \ {Any(s)}] BY <3>4, SumStep
    <3>1. PICK y \in s : g[s] = f[y] + g[s \ {y}] BY <3>5
    <3>2. CASE x = y BY <3>1, <3>2
    <3>3. CASE x # y
      <4>1. Cardinality(s \ {y}) = n /\ Cardinality(s \ {x}) = n BY <2>1, <3>1, Smaller
      <4>2. g[s \ {y}] = f[x] + g[(s \ {y}) \ {x}] BY <1>3, <3>1, <3>3, <4>1
      <4>3. g[s \ {x}] = f[y] + g[(s \ {x}) \ {y}] BY <1>3, <3>1, <3>3, <4>1
      <4>4. (s \ {y}) \ {x} = (s \ {x}) \ {y} OBVIOUS
      <4>5. f[x] \in Nat /\ f[y] \in Nat BY <3>1
      <4>6. g[(s \ {x}) \ {y}] \in Nat BY <1>2
      <4>7. g[s] = f[y] + (f[x] + g[(s \ {x}) \ {y}]) BY <3>1, <4>2, <4>4
      <4> QED BY <4>3, <4>5, <4>6, <4>7
    <3> QED BY <3>2, <3>3
  <2> QED BY <2>1
<1> HIDE DEF Q
<1>4. Nat \subseteq Q BY <1>1, <1>3, SetOfNumbersInduction
<1>5. ASSUME NEW s \in SUBSET D, NEW x \in s PROVE g[s] = f[x] + g[s \ {x}]
  <2>1. Cardinality(s) \in Q BY <1>4, Smaller
  <2> QED BY <2>1 DEF Q
<1> QED BY <1>5

(* What the proofs cite: the sum over the empty set, over a set with one   *)
(* more element, and that it is a number.                                  *)
LEMMA SumOverNothing ==
    ASSUME NEW f PROVE SumOver(f, {}) = 0
<1>1. \E g : IsSum(g, f, {}) BY SumExists, FS_EmptySet
<1>2. IsSum(CHOOSE g : IsSum(g, f, {}), f, {}) BY <1>1
<1> QED BY <1>2, SumStep, SumIsChosen

(* Any element may be the one that is added last.                          *)
LEMMA SumOverOneMore ==
    ASSUME NEW D, IsFiniteSet(D), NEW f, \A x \in D : f[x] \in Nat, NEW x \in D
    PROVE  SumOver(f, D) \in Nat /\ SumOver(f, D) = f[x] + SumOver(f, D \ {x})
<1> DEFINE E == D \ {x}
           g == CHOOSE h : IsSum(h, f, D)
           k == CHOOSE h : IsSum(h, f, E)
<1>1. IsFiniteSet(E) /\ E \in SUBSET D BY FS_Subset
<1>2. IsSum(g, f, D) BY SumExists
<1>3. IsSum(k, f, E)
  <2>1. \E h : IsSum(h, f, E) BY <1>1, SumExists
  <2> QED BY <2>1
<1>4. SumOver(f, D) = g[D] /\ SumOver(f, E) = k[E] BY SumIsChosen
<1> HIDE DEF g, k
<1>5. g[E] = k[E] BY <1>1, <1>2, <1>3, SumsAgree
<1>6. g[D] = f[x] + g[E] BY <1>2, SumTakesAny
<1>7. g[D] \in Nat BY <1>2, SumsAgree
<1> QED BY <1>4, <1>5, <1>6, <1>7

(* A sum of naturals is a natural.                                         *)
LEMMA SumIsNat ==
    ASSUME NEW D, IsFiniteSet(D), NEW f, \A x \in D : f[x] \in Nat
    PROVE  SumOver(f, D) \in Nat
<1>1. CASE D = {} BY <1>1, SumOverNothing
<1>2. CASE D # {}
  <2>1. PICK x \in D : TRUE BY <1>2
  <2> QED BY <2>1, SumOverOneMore
<1> QED BY <1>1, <1>2

(* A sum depends on the values only.                                       *)
LEMMA SumsEqual ==
    ASSUME NEW D, IsFiniteSet(D), NEW f, NEW h, \A x \in D : f[x] \in Nat /\ f[x] = h[x]
    PROVE  SumOver(f, D) = SumOver(h, D)
<1> DEFINE g == CHOOSE k : IsSum(k, f, D)
           k == CHOOSE j : IsSum(j, h, D)
<1>1. IsSum(g, f, D)
  <2>1. \E j : IsSum(j, f, D) BY SumExists
  <2> QED BY <2>1
<1>2. IsSum(k, h, D)
  <2>1. \A x \in D : h[x] \in Nat OBVIOUS
  <2>2. \E j : IsSum(j, h, D) BY <2>1, SumExists
  <2> QED BY <2>2
<1>3. SumOver(f, D) = g[D] /\ SumOver(h, D) = k[D] BY SumIsChosen
<1> HIDE DEF g, k
<1>4. D \in SUBSET D OBVIOUS
<1>5. \A t \in SUBSET D : g[t] = k[t] /\ g[t] \in Nat BY <1>1, <1>2, <1>4, SumsAgree, Zenon
<1> QED BY <1>3, <1>4, <1>5

(* Only what x contributes changes.                                        *)
LEMMA SumChanges ==
    ASSUME NEW D, IsFiniteSet(D), NEW f, NEW h, NEW x \in D,
           \A y \in D : f[y] \in Nat /\ h[y] \in Nat /\ (y # x => f[y] = h[y])
    PROVE  SumOver(h, D) + f[x] = SumOver(f, D) + h[x]
<1> DEFINE E == D \ {x}
<1>1. IsFiniteSet(E) BY FS_RemoveElement
<1>2. SumOver(f, E) = SumOver(h, E) /\ SumOver(f, E) \in Nat BY <1>1, SumsEqual, SumIsNat
<1>3. SumOver(f, D) = f[x] + SumOver(f, E) BY SumOverOneMore
<1>4. SumOver(h, D) = h[x] + SumOver(h, E) BY SumOverOneMore
<1> QED BY <1>2, <1>3, <1>4

(* Where nobody has anything, the sum is nothing.                          *)
LEMMA SumOfZeros ==
    ASSUME NEW D, IsFiniteSet(D), NEW f, \A x \in D : f[x] = 0
    PROVE  SumOver(f, D) = 0
<1> DEFINE P == {s \in SUBSET D : SumOver(f, s) = 0}
<1>1. {} \in P BY SumOverNothing
<1>2. ASSUME NEW s \in SUBSET D, NEW x \in D \ s, s \in P PROVE s \cup {x} \in P
  <2>1. IsFiniteSet(s \cup {x}) /\ (s \cup {x}) \ {x} = s BY FS_Subset
  <2>2. SumOver(f, s \cup {x}) = f[x] + SumOver(f, s) BY <2>1, SumOverOneMore
  <2> QED BY <1>2, <2>2
<1> HIDE DEF P
<1>3. SUBSET D \subseteq P BY <1>1, <1>2, SetOfSetsInduction
<1> QED BY <1>3 DEF P

(* A sum is the sum of a part and of the rest.                             *)
LEMMA SumSplits ==
    ASSUME NEW D, IsFiniteSet(D), NEW f, \A x \in D : f[x] \in Nat, NEW E \in SUBSET D
    PROVE  SumOver(f, D) = SumOver(f, E) + SumOver(f, D \ E)
<1> DEFINE P == {s \in SUBSET E : SumOver(f, D) = SumOver(f, s) + SumOver(f, D \ s)}
<1>1. \A s \in SUBSET D : IsFiniteSet(s) /\ SumOver(f, s) \in Nat BY FS_Subset, SumIsNat
<1>2. {} \in P
  <2>1. D \ {} = D OBVIOUS
  <2>2. SumOver(f, {}) = 0 BY SumOverNothing
  <2> QED BY <1>1, <2>1, <2>2
<1>3. ASSUME NEW s \in SUBSET E, NEW x \in E \ s, s \in P PROVE s \cup {x} \in P
  <2>1. /\ s \in SUBSET D /\ s \cup {x} \in SUBSET D /\ D \ s \in SUBSET D
        /\ D \ (s \cup {x}) \in SUBSET D /\ x \in D \ s /\ f[x] \in Nat
    OBVIOUS
  <2>2. (s \cup {x}) \ {x} = s /\ (D \ s) \ {x} = D \ (s \cup {x}) OBVIOUS
  <2>3. SumOver(f, s \cup {x}) = f[x] + SumOver(f, s) BY <1>1, <2>1, <2>2, SumOverOneMore
  <2>4. SumOver(f, D \ s) = f[x] + SumOver(f, D \ (s \cup {x}))
    BY <1>1, <2>1, <2>2, SumOverOneMore
  <2>5. SumOver(f, D) = SumOver(f, s) + SumOver(f, D \ s) BY <1>3
  <2>6. /\ SumOver(f, s) \in Nat /\ SumOver(f, D \ s) \in Nat
        /\ SumOver(f, D \ (s \cup {x})) \in Nat /\ SumOver(f, s \cup {x}) \in Nat
    BY <1>1, <2>1
  <2>7. SumOver(f, D) = SumOver(f, s \cup {x}) + SumOver(f, D \ (s \cup {x}))
    BY <2>1, <2>3, <2>4, <2>5, <2>6
  <2> QED BY <2>7
<1>4. IsFiniteSet(E) BY FS_Subset
<1> HIDE DEF P
<1>5. SUBSET E \subseteq P BY <1>2, <1>3, <1>4, SetOfSetsInduction
<1> QED BY <1>5 DEF P

(* A sum of what is nowhere more is not more.                              *)
LEMMA SumIsLess ==
    ASSUME NEW D, IsFiniteSet(D), NEW f, NEW h,
           \A x \in D : f[x] \in Nat /\ h[x] \in Nat /\ f[x] <= h[x]
    PROVE  SumOver(f, D) <= SumOver(h, D)
<1> DEFINE P == {s \in SUBSET D : SumOver(f, s) <= SumOver(h, s)}
<1>1. {} \in P
  <2>1. SumOver(f, {}) = 0 /\ SumOver(h, {}) = 0 BY SumOverNothing
  <2> QED BY <2>1
<1>2. ASSUME NEW s \in SUBSET D, NEW x \in D \ s, s \in P PROVE s \cup {x} \in P
  <2>1. IsFiniteSet(s \cup {x}) /\ IsFiniteSet(s) /\ (s \cup {x}) \ {x} = s BY FS_Subset
  <2>2. SumOver(f, s \cup {x}) = f[x] + SumOver(f, s) /\ SumOver(h, s \cup {x}) = h[x] + SumOver(h, s)
    BY <2>1, SumOverOneMore
  <2>3. SumOver(f, s) \in Nat /\ SumOver(h, s) \in Nat BY <2>1, SumIsNat
  <2>4. SumOver(f, s \cup {x}) <= SumOver(h, s \cup {x}) BY <1>2, <2>2, <2>3
  <2> QED BY <2>4
<1> HIDE DEF P
<1>3. SUBSET D \subseteq P BY <1>1, <1>2, SetOfSetsInduction
<1> QED BY <1>3 DEF P

(* The sum of two kinds of values.                                         *)
LEMMA SumAdds ==
    ASSUME NEW D, IsFiniteSet(D), NEW f, NEW h, NEW k,
           \A x \in D : f[x] \in Nat /\ h[x] \in Nat /\ k[x] = f[x] + h[x]
    PROVE  SumOver(k, D) = SumOver(f, D) + SumOver(h, D)
<1> DEFINE P == {s \in SUBSET D : SumOver(k, s) = SumOver(f, s) + SumOver(h, s)}
<1>1. {} \in P
  <2>1. SumOver(f, {}) = 0 /\ SumOver(h, {}) = 0 /\ SumOver(k, {}) = 0 BY SumOverNothing
  <2> QED BY <2>1
<1>2. ASSUME NEW s \in SUBSET D, NEW x \in D \ s, s \in P PROVE s \cup {x} \in P
  <2>1. IsFiniteSet(s \cup {x}) /\ IsFiniteSet(s) /\ (s \cup {x}) \ {x} = s BY FS_Subset
  <2>2. \A y \in D : k[y] \in Nat OBVIOUS
  <2>3. /\ SumOver(f, s \cup {x}) = f[x] + SumOver(f, s)
        /\ SumOver(h, s \cup {x}) = h[x] + SumOver(h, s)
        /\ SumOver(k, s \cup {x}) = k[x] + SumOver(k, s)
    BY <2>1, <2>2, SumOverOneMore
  <2>4. SumOver(f, s) \in Nat /\ SumOver(h, s) \in Nat BY <2>1, SumIsNat
  <2>5. SumOver(k, s) = SumOver(f, s) + SumOver(h, s) BY <1>2
  <2>6. SumOver(k, s \cup {x}) = SumOver(f, s \cup {x}) + SumOver(h, s \cup {x})
    BY <2>3, <2>4, <2>5
  <2> QED BY <2>6
<1> HIDE DEF P
<1>3. SUBSET D \subseteq P BY <1>1, <1>2, SetOfSetsInduction
<1> QED BY <1>3 DEF P

(* The sums of the rows and of the columns of a table have one sum.        *)
LEMMA SumsSwap ==
    ASSUME NEW D, IsFiniteSet(D), NEW E, IsFiniteSet(E), NEW f,
           \A x \in D, y \in E : f[x][y] \in Nat
    PROVE  SumOver([x \in D |-> SumOver(f[x], E)], D)
               = SumOver([y \in E |-> SumOver([x \in D |-> f[x][y]], D)], E)
<1> DEFINE Row == [x \in D |-> SumOver(f[x], E)]
           Column(s) == [y \in E |-> SumOver([x \in D |-> f[x][y]], s)]
           P == {s \in SUBSET D : SumOver(Row, s) = SumOver(Column(s), E)}
<1>1. {} \in P
  <2>1. SumOver(Row, {}) = 0 BY SumOverNothing
  <2>2. \A y \in E : Column({})[y] = 0 BY SumOverNothing
  <2> HIDE DEF Row, Column
  <2>3. SumOver(Column({}), E) = 0 BY <2>2, SumOfZeros
  <2> QED BY <2>1, <2>3
<1>2. ASSUME NEW s \in SUBSET D, NEW x \in D \ s, s \in P PROVE s \cup {x} \in P
  <2>1. IsFiniteSet(s \cup {x}) /\ IsFiniteSet(s) /\ (s \cup {x}) \ {x} = s BY FS_Subset
  <2>2. \A z \in D : Row[z] \in Nat
    <3>1. \A z \in D : SumOver(f[z], E) \in Nat BY SumIsNat
    <3> QED BY <3>1
  <2>3. \A y \in E : /\ Column(s)[y] \in Nat /\ f[x][y] \in Nat
                     /\ Column(s \cup {x})[y] = f[x][y] + Column(s)[y]
    <3> SUFFICES ASSUME NEW y \in E
                 PROVE  /\ Column(s)[y] \in Nat /\ f[x][y] \in Nat
                        /\ Column(s \cup {x})[y] = f[x][y] + Column(s)[y]
      OBVIOUS
    <3> DEFINE c == [z \in D |-> f[z][y]]
    <3>1. \A z \in D : c[z] \in Nat /\ c[z] = f[z][y] OBVIOUS
    <3>2. Column(s)[y] = SumOver(c, s) /\ Column(s \cup {x})[y] = SumOver(c, s \cup {x})
      OBVIOUS
    <3> HIDE DEF c, Column
    <3>3. SumOver(c, s) \in Nat BY <2>1, <3>1, SumIsNat
    <3>4. SumOver(c, s \cup {x}) = c[x] + SumOver(c, s) BY <2>1, <3>1, SumOverOneMore
    <3> QED BY <3>1, <3>2, <3>3, <3>4
  <2>4. Row[x] = SumOver(f[x], E) OBVIOUS
  <2> HIDE DEF Row, Column
  <2>5. SumOver(Row, s \cup {x}) = Row[x] + SumOver(Row, s) BY <2>1, <2>2, SumOverOneMore
  <2>6. SumOver(Column(s \cup {x}), E) = SumOver(f[x], E) + SumOver(Column(s), E)
    BY <2>3, SumAdds
  <2>7. SumOver(Row, s) = SumOver(Column(s), E) BY <1>2
  <2> QED BY <2>4, <2>5, <2>6, <2>7
<1> HIDE DEF P
<1>3. SUBSET D \subseteq P BY <1>1, <1>2, SetOfSetsInduction
<1>4. D \in P BY <1>3
<1> QED BY <1>4 DEF P

-----------------------------------------------------------------------------
(* A session is only made for an input that exceeds the fee. *)
SessionPays ==
    \A g \in RefreshGroups, c \in PurseCoins :
        groupOf[g][c] \in {"session", "melted"} => input[g][c] > RefreshFee

(* The parts of the state, which few steps change together. *)
PurseOK == fresh \subseteq known /\ known \subseteq PurseCoins /\ amount \in [PurseCoins -> Nat]
PaymentsOK ==
    /\ selected \in [Payments -> Selections \cup {Nothing}]
    /\ pays \in [Payments -> Selections \cup {Nothing}]
    /\ payStatus \in [Payments -> {"none", "recorded", "aborting"}]
    /\ credited \in [Payments -> SUBSET PurseCoins]
RefreshesOK ==
    /\ groupOf \in [RefreshGroups -> [PurseCoins -> Stages]]
    /\ input \in [RefreshGroups -> [PurseCoins -> Nat]]
OutsideOK ==
    /\ left \in [PurseCoins -> Nat]
    /\ deposits \in [Payments -> SUBSET PurseCoins] /\ refunded \in [Payments -> SUBSET PurseCoins]

MoneyInv ==
    /\ PurseOK /\ DormantIsEmpty /\ PaymentsOK /\ RefreshesOK /\ SessionPays /\ OutsideOK
    /\ expired \subseteq PurseCoins /\ moneyTroubles \in 0..MaxMoneyTroubles

-----------------------------------------------------------------------------
(* What a payment takes of a coin is a natural number. *)
LEMMA SelectionIsNat ==
    ASSUME NEW s \in Selections \cup {Nothing}, NEW c \in PurseCoins
    PROVE  s[c] \in Nat
  BY MoneyAssumption DEF Selections, Nothing

(* createRefreshGroup takes up whole coins: if only they have a new amount *)
(* beside the fresh ones, no dormant coin has one afterwards.              *)
LEMMA GroupEmptiesCoins ==
    ASSUME PurseOK, RefreshesOK, SessionPays, NEW S \in SUBSET PurseCoins,
           NEW now \in [PurseCoins -> Nat],
           \A c \in PurseCoins \ S : c \notin fresh => now[c] = 0,
           CreateRefreshGroup(S, now)
    PROVE  PurseOK' /\ DormantIsEmpty' /\ RefreshesOK' /\ SessionPays'
  <1>1. PICK g \in RefreshGroups :
            /\ groupOf' = [groupOf EXCEPT ![g] = [c \in PurseCoins |->
                                                    IF c \in S THEN "waits" ELSE "out"]]
            /\ input' = [input EXCEPT ![g] = [c \in PurseCoins |->
                                                    IF c \in S THEN now[c] ELSE 0]]
            /\ amount' = [c \in PurseCoins |-> IF c \in S THEN 0 ELSE now[c]]
            /\ fresh' = fresh \ S /\ known' = known
    BY DEF CreateRefreshGroup, Unused
  <1>2. PurseOK'
    BY <1>1 DEF PurseOK
  <1>3. DormantIsEmpty'
    BY <1>1 DEF DormantIsEmpty
  <1>4. /\ [c \in PurseCoins |-> IF c \in S THEN "waits" ELSE "out"] \in [PurseCoins -> Stages]
        /\ [c \in PurseCoins |-> IF c \in S THEN now[c] ELSE 0] \in [PurseCoins -> Nat]
    BY DEF Stages
  <1>5. RefreshesOK'
    BY <1>1, <1>4 DEF RefreshesOK
  <1>6. SessionPays'
    BY <1>1 DEF RefreshesOK, SessionPays
  <1>7. QED
    BY <1>2, <1>3, <1>5, <1>6

(* A coin of a group comes to another stage. *)
LEMMA StageChanges ==
    ASSUME RefreshesOK, SessionPays, NEW g \in RefreshGroups, NEW c \in PurseCoins,
           NEW s \in Stages, Becomes(g, c, s), UNCHANGED input,
           s \in {"session", "melted"} => input[g][c] > RefreshFee
    PROVE  RefreshesOK' /\ SessionPays'
  <1>1. \A h \in RefreshGroups, d \in PurseCoins :
            groupOf'[h][d] = IF h = g /\ d = c THEN s ELSE groupOf[h][d]
    BY DEF Becomes, RefreshesOK
  <1>2. groupOf' \in [RefreshGroups -> [PurseCoins -> Stages]]
    BY DEF Becomes, RefreshesOK
  <1>3. QED
    BY <1>1, <1>2 DEF RefreshesOK, SessionPays

(* Every step keeps types, and what the records of payments and groups say *)
(* of one another.                                                         *)
LEMMA MoneyStepInv == MoneyInv /\ [MoneyNext]_moneyVars => MoneyInv'
  <1> SUFFICES ASSUME MoneyInv, [MoneyNext]_moneyVars PROVE MoneyInv'
    OBVIOUS
  <1> USE DEF purse, paymentVars, refreshes, atExchange
  <1>a. UNCHANGED purse => PurseOK' /\ DormantIsEmpty'
    BY DEF MoneyInv, PurseOK, DormantIsEmpty
  <1>b. UNCHANGED paymentVars => PaymentsOK'
    BY DEF MoneyInv, PaymentsOK
  <1>c. UNCHANGED refreshes => RefreshesOK' /\ SessionPays'
    BY DEF MoneyInv, RefreshesOK, SessionPays
  <1>d. UNCHANGED atExchange => OutsideOK'
    BY DEF MoneyInv, OutsideOK
  <1>e. UNCHANGED <<expired, moneyTroubles>> =>
            expired' \subseteq PurseCoins /\ moneyTroubles' \in 0..MaxMoneyTroubles
    BY DEF MoneyInv
  <1>f. ASSUME NEW p \in Payments
        PROVE  selected[p] \in Selections \cup {Nothing} /\ pays[p] \in Selections \cup {Nothing}
    BY DEF MoneyInv, PaymentsOK
  <1>1. ASSUME NEW p \in Payments, NEW s \in Selections, SelectForPayment(p, s) PROVE MoneyInv'
    <2>1. PaymentsOK'
      BY <1>1 DEF SelectForPayment, MoneyInv, PaymentsOK
    <2>2. QED
      BY <1>1, <1>a, <1>c, <1>d, <1>e, <2>1 DEF SelectForPayment, MoneyInv
  <1>2. ASSUME NEW p \in Payments, RecordPayment(p) PROVE MoneyInv'
    <2>1. PaymentsOK'
      <3>1. Nothing \in Selections \cup {Nothing}
        OBVIOUS
      <3>2. QED
        BY <1>2, <1>f, <3>1 DEF RecordPayment, MoneyInv, PaymentsOK
    <2>2. CASE \A c \in PurseCoins : selected[p][c] <= amount[c]
      <3> DEFINE now == [c \in PurseCoins |-> amount[c] - selected[p][c]]
      <3>1. now \in [PurseCoins -> Nat]
        BY <1>f, <2>2, SelectionIsNat DEF MoneyInv, PurseOK
      <3>2. \A c \in PurseCoins \ CoinsOf(selected[p]) : c \notin fresh => now[c] = 0
        BY <1>f, SelectionIsNat DEF CoinsOf, MoneyInv, DormantIsEmpty
      <3>3. CoinsOf(selected[p]) \in SUBSET PurseCoins
        BY DEF CoinsOf
      <3>4. CreateRefreshGroup(CoinsOf(selected[p]), now)
        BY <1>2, <2>2 DEF RecordPayment
      <3> HIDE DEF now
      <3>5. PurseOK' /\ DormantIsEmpty' /\ RefreshesOK' /\ SessionPays'
        BY <3>1, <3>2, <3>3, <3>4, GroupEmptiesCoins DEF MoneyInv
      <3>6. QED
        BY <1>2, <1>d, <1>e, <2>1, <3>5 DEF RecordPayment, MoneyInv
    <2>3. CASE ~\A c \in PurseCoins : selected[p][c] <= amount[c]
      BY <1>2, <1>a, <1>c, <1>d, <1>e, <2>1, <2>3 DEF RecordPayment, MoneyInv
    <2>4. QED
      BY <2>2, <2>3
  <1>3. ASSUME NEW p \in Payments, AbortPayment(p) PROVE MoneyInv'
    <2>1. PaymentsOK'
      BY <1>3 DEF AbortPayment, MoneyInv, PaymentsOK
    <2>2. QED
      BY <1>3, <1>a, <1>c, <1>d, <1>e, <2>1 DEF AbortPayment, MoneyInv
  <1>4. ASSUME NEW p \in Payments, NEW S \in SUBSET PurseCoins, ApplyRefunds(p, S)
        PROVE  MoneyInv'
    <2> DEFINE now == [c \in PurseCoins |-> IF c \in S THEN amount[c] + pays[p][c] ELSE amount[c]]
    <2>1. PaymentsOK'
      BY <1>4 DEF ApplyRefunds, MoneyInv, PaymentsOK
    <2>2. now \in [PurseCoins -> Nat]
      BY <1>f, SelectionIsNat DEF MoneyInv, PurseOK
    <2>3. \A c \in PurseCoins \ S : c \notin fresh => now[c] = 0
      BY DEF MoneyInv, DormantIsEmpty
    <2>4. CreateRefreshGroup(S, now)
      BY <1>4 DEF ApplyRefunds
    <2> HIDE DEF now
    <2>5. PurseOK' /\ DormantIsEmpty' /\ RefreshesOK' /\ SessionPays'
      BY <2>2, <2>3, <2>4, GroupEmptiesCoins DEF MoneyInv
    <2>6. QED
      BY <1>4, <1>d, <1>e, <2>1, <2>5 DEF ApplyRefunds, MoneyInv
  <1>5. ASSUME NEW c \in PurseCoins, DenominationExpires(c) PROVE MoneyInv'
    BY <1>5, <1>a, <1>b, <1>c, <1>d DEF DenominationExpires, MoneyInv, PurseOK
  <1>6. CASE AutoRefresh
    <2>1. /\ fresh \cap expired \in SUBSET PurseCoins /\ amount \in [PurseCoins -> Nat]
          /\ \A c \in PurseCoins \ (fresh \cap expired) : c \notin fresh => amount[c] = 0
      BY DEF MoneyInv, PurseOK, DormantIsEmpty
    <2>2. PurseOK' /\ DormantIsEmpty' /\ RefreshesOK' /\ SessionPays'
      BY <1>6, <2>1, GroupEmptiesCoins DEF AutoRefresh, MoneyInv
    <2>3. QED
      BY <1>6, <1>b, <1>d, <1>e, <2>2 DEF AutoRefresh, MoneyInv
  <1>7. ASSUME NEW g \in RefreshGroups, NEW c \in PurseCoins, CreateSession(g, c) PROVE MoneyInv'
    <2>1. input[g][c] \in Nat
      BY DEF MoneyInv, RefreshesOK
    <2>2. RefreshesOK' /\ SessionPays'
      <3>1. CASE input[g][c] <= RefreshFee
        BY <1>7, <3>1, StageChanges DEF CreateSession, MoneyInv, Stages
      <3>2. CASE ~(input[g][c] <= RefreshFee)
        BY <1>7, <2>1, <3>2, StageChanges, MoneyAssumption DEF CreateSession, MoneyInv, Stages
      <3>3. QED
        BY <3>1, <3>2
    <2>3. QED
      BY <1>7, <1>a, <1>b, <1>d, <1>e, <2>2 DEF CreateSession, MoneyInv
  <1>8. ASSUME NEW g \in RefreshGroups, NEW c \in PurseCoins, Melt(g, c) PROVE MoneyInv'
    <2>1. input[g][c] > RefreshFee /\ input[g][c] \in Nat
      BY <1>8 DEF Melt, MoneyInv, SessionPays, RefreshesOK
    <2>2. RefreshesOK' /\ SessionPays'
      BY <1>8, <2>1, StageChanges DEF Melt, MoneyInv, Stages
    <2>3. OutsideOK'
      BY <1>8, <2>1 DEF Melt, MoneyInv, OutsideOK
    <2>4. QED
      BY <1>8, <1>a, <1>b, <1>e, <2>2, <2>3 DEF Melt, MoneyInv
  <1>9. ASSUME NEW g \in RefreshGroups, NEW c \in PurseCoins, Reveal(g, c) PROVE MoneyInv'
    <2>1. PICK n \in PurseCoins :
              /\ n \notin known /\ Becomes(g, c, "done")
              /\ known' = known \cup {n} /\ fresh' = fresh \cup {n}
              /\ amount' = [amount EXCEPT ![n] = input[g][c] - RefreshFee]
              /\ left' = [left EXCEPT ![n] = input[g][c] - RefreshFee]
      BY <1>9 DEF Reveal
    <2>2. input[g][c] - RefreshFee \in Nat
      BY <1>9, MoneyAssumption DEF Reveal, MoneyInv, SessionPays, RefreshesOK
    <2>3. PurseOK'
      BY <2>1, <2>2 DEF MoneyInv, PurseOK
    <2>4. DormantIsEmpty'
      BY <2>1 DEF MoneyInv, PurseOK, DormantIsEmpty
    <2>5. RefreshesOK' /\ SessionPays'
      BY <1>9, <2>1, StageChanges DEF Reveal, MoneyInv, Stages
    <2>6. OutsideOK'
      BY <1>9, <2>1, <2>2 DEF Reveal, MoneyInv, OutsideOK
    <2>7. QED
      BY <1>9, <1>b, <1>e, <2>3, <2>4, <2>5, <2>6 DEF Reveal, MoneyInv
  <1>10. ASSUME NEW p \in Payments, NEW c \in PurseCoins, Deposit(p, c) PROVE MoneyInv'
    <2>1. pays[p][c] \in Nat
      BY <1>f, SelectionIsNat
    <2>2. OutsideOK'
      BY <1>10, <2>1 DEF Deposit, MoneyInv, OutsideOK
    <2>3. QED
      BY <1>10, <1>a, <1>b, <1>c, <1>e, <2>2 DEF Deposit, MoneyInv
  <1>11. ASSUME NEW p \in Payments, NEW c \in PurseCoins, Refund(p, c) PROVE MoneyInv'
    <2>1. pays[p][c] \in Nat
      BY <1>f, SelectionIsNat
    <2>2. OutsideOK'
      BY <1>11, <2>1 DEF Refund, MoneyInv, OutsideOK
    <2>3. QED
      BY <1>11, <1>a, <1>b, <1>c, <1>e, <2>2 DEF Refund, MoneyInv
  <1>12. CASE CrashMoney
    <2>1. PaymentsOK'
      BY <1>12 DEF CrashMoney, MoneyInv, PaymentsOK
    <2>2. expired' \subseteq PurseCoins /\ moneyTroubles' \in 0..MaxMoneyTroubles
      BY <1>12, MoneyAssumption DEF CrashMoney, MoneyInv
    <2>3. QED
      BY <1>12, <1>a, <1>c, <1>d, <2>1, <2>2 DEF CrashMoney, MoneyInv
  <1>13. CASE UNCHANGED moneyVars
    BY <1>13, <1>a, <1>b, <1>c, <1>d, <1>e DEF moneyVars, MoneyInv
  <1>14. QED
    BY <1>1, <1>2, <1>3, <1>4, <1>5, <1>6, <1>7, <1>8, <1>9, <1>10, <1>11, <1>12, <1>13
       DEF MoneyNext

(* The invariant holds of a wallet with fresh coins only.                  *)
LEMMA MoneyInitially == MoneyInit => MoneyInv
  <1> SUFFICES ASSUME MoneyInit PROVE MoneyInv
    OBVIOUS
  <1> USE MoneyAssumption DEF MoneyInit
  <1>1. PurseOK /\ DormantIsEmpty
    BY DEF PurseOK, DormantIsEmpty
  <1>2. PaymentsOK
    BY DEF PaymentsOK
  <1>3. RefreshesOK /\ SessionPays
    BY DEF RefreshesOK, SessionPays, Stages, Nothing
  <1>4. OutsideOK
    BY DEF OutsideOK
  <1>5. QED
    BY <1>1, <1>2, <1>3, <1>4 DEF MoneyInv

(* MoneyInv holds in every state of the wallet.                            *)
LEMMA MoneyInvariant == MoneySpec => []MoneyInv
  BY MoneyInitially, MoneyStepInv, PTL DEF MoneySpec

(* Amounts never get negative: nothing is melted, deposited or paid of a   *)
(* coin that does not have it, and no refresh makes a coin of less than    *)
(* its fee.                                                                *)
THEOREM MoneyTypeCorrect == MoneySpec => []MoneyTypeOK
  <1>1. MoneyInv => MoneyTypeOK
    BY DEF MoneyInv, PurseOK, PaymentsOK, RefreshesOK, OutsideOK, MoneyTypeOK
  <1>2. QED
    BY <1>1, MoneyInvariant, PTL

(* Nothing is left on a coin that is not fresh, whatever payments, refunds *)
(* and refreshes take it up and in whichever order.                        *)
THEOREM NothingLeftBehind == MoneySpec => []DormantIsEmpty
  <1>1. MoneyInv => DormantIsEmpty
    BY DEF MoneyInv
  <1>2. QED
    BY <1>1, MoneyInvariant, PTL

-----------------------------------------------------------------------------
(* Where a payment stands: nothing is entered before it is recorded, the   *)
(* exchange refunds what is deposited only, and what was deposited is      *)
(* credited after it was refunded.                                         *)
PaymentIsOrderly(p) ==
    /\ payStatus[p] = "none" => pays[p] = Nothing /\ deposits[p] = {} /\ credited[p] = {}
    /\ selected[p] # Nothing => payStatus[p] = "none"
    /\ refunded[p] \subseteq deposits[p]
    /\ credited[p] \cap deposits[p] \subseteq refunded[p]
    /\ payStatus[p] = "recorded" => credited[p] \subseteq refunded[p]

(* Only coins with a record are selected, paid and refreshed.              *)
OnlyKnown ==
    /\ \A p \in Payments : CoinsOf(selected[p]) \cup CoinsOf(pays[p]) \subseteq known
    /\ \A g \in RefreshGroups : Members(g) \subseteq known

Books == (\A p \in Payments : PaymentIsOrderly(p)) /\ OnlyKnown

(* What coin c has in payment p, in a refund of it, in refresh group g.    *)
PayPart(c, p) == IF c \in deposits[p] \cup credited[p] THEN 0 ELSE pays[p][c]
RefundPart(c, p) == IF c \in refunded[p] \ credited[p] THEN pays[p][c] ELSE 0
RefreshPart(c, g) ==
    IF groupOf[g][c] \in {"waits", "session", "small"} THEN input[g][c] ELSE 0

PartsOK ==
    \A c \in PurseCoins :
        /\ \A p \in Payments : PayPart(c, p) \in Nat /\ RefundPart(c, p) \in Nat
        /\ \A g \in RefreshGroups : RefreshPart(c, g) \in Nat
        /\ InPayments(c) \in Nat /\ InRefunds(c) \in Nat /\ InRefreshes(c) \in Nat

(* What a coin has in payments, refunds and refreshes are naturals.        *)
LEMMA PartsAreNat == MoneyInv => PartsOK
<1> SUFFICES ASSUME MoneyInv, NEW c \in PurseCoins
             PROVE  /\ \A p \in Payments : PayPart(c, p) \in Nat /\ RefundPart(c, p) \in Nat
                    /\ \A g \in RefreshGroups : RefreshPart(c, g) \in Nat
                    /\ InPayments(c) \in Nat /\ InRefunds(c) \in Nat /\ InRefreshes(c) \in Nat
  BY DEF PartsOK
<1> USE MoneyAssumption
<1>1. ASSUME NEW p \in Payments PROVE PayPart(c, p) \in Nat /\ RefundPart(c, p) \in Nat
  <2>1. pays[p] \in Selections \cup {Nothing} BY DEF MoneyInv, PaymentsOK
  <2> QED BY <2>1, SelectionIsNat DEF PayPart, RefundPart
<1>2. ASSUME NEW g \in RefreshGroups PROVE RefreshPart(c, g) \in Nat
  BY DEF RefreshPart, MoneyInv, RefreshesOK
<1>3. InPayments(c) \in Nat
  <2> DEFINE f == [p \in Payments |-> PayPart(c, p)]
  <2>1. \A p \in Payments : f[p] \in Nat BY <1>1
  <2>2. InPayments(c) = SumOver(f, Payments) BY DEF InPayments, PayPart
  <2> HIDE DEF f
  <2> QED BY <2>1, <2>2, SumIsNat
<1>4. InRefunds(c) \in Nat
  <2> DEFINE f == [p \in Payments |-> RefundPart(c, p)]
  <2>1. \A p \in Payments : f[p] \in Nat BY <1>1
  <2>2. InRefunds(c) = SumOver(f, Payments) BY DEF InRefunds, RefundPart
  <2> HIDE DEF f
  <2> QED BY <2>1, <2>2, SumIsNat
<1>5. InRefreshes(c) \in Nat
  <2> DEFINE f == [g \in RefreshGroups |-> RefreshPart(c, g)]
  <2>1. \A g \in RefreshGroups : f[g] \in Nat BY <1>2
  <2>2. InRefreshes(c) = SumOver(f, RefreshGroups) BY DEF InRefreshes, RefreshPart
  <2> HIDE DEF f
  <2> QED BY <2>1, <2>2, SumIsNat
<1> QED BY <1>1, <1>2, <1>3, <1>4, <1>5

(* The same after a step.                                                  *)
LEMMA PartsStayNat == MoneyInv' => PartsOK'
  BY PartsAreNat, PTL

(* A step that is about one payment changes the sums by what it changes of *)
(* this payment's part.                                                    *)
LEMMA PaymentChanges ==
    ASSUME MoneyInv, MoneyInv', NEW c \in PurseCoins, NEW p \in Payments,
           \A q \in Payments \ {p} : PayPart(c, q)' = PayPart(c, q) /\ RefundPart(c, q)' = RefundPart(c, q)
    PROVE  /\ InPayments(c)' + PayPart(c, p) = InPayments(c) + PayPart(c, p)'
           /\ InRefunds(c)' + RefundPart(c, p) = InRefunds(c) + RefundPart(c, p)'
<1>1. \A q \in Payments : /\ PayPart(c, q) \in Nat /\ PayPart(c, q)' \in Nat
                          /\ RefundPart(c, q) \in Nat /\ RefundPart(c, q)' \in Nat
  BY PartsAreNat, PartsStayNat DEF PartsOK
<1>2. IsFiniteSet(Payments) BY MoneyAssumption
<1>3. InPayments(c)' + PayPart(c, p) = InPayments(c) + PayPart(c, p)'
  <2> DEFINE f == [q \in Payments |-> PayPart(c, q)]
             h == [q \in Payments |-> PayPart(c, q)']
  <2>1. \A q \in Payments : f[q] \in Nat /\ h[q] \in Nat /\ (q # p => f[q] = h[q]) BY <1>1
  <2>2. InPayments(c) = SumOver(f, Payments) BY DEF InPayments, PayPart
  <2>3. InPayments(c)' = SumOver(h, Payments) BY DEF InPayments, PayPart
  <2>4. f[p] = PayPart(c, p) /\ h[p] = PayPart(c, p)' OBVIOUS
  <2> HIDE DEF f, h
  <2>5. SumOver(h, Payments) + f[p] = SumOver(f, Payments) + h[p] BY <1>2, <2>1, SumChanges
  <2> QED BY <2>2, <2>3, <2>4, <2>5
<1>4. InRefunds(c)' + RefundPart(c, p) = InRefunds(c) + RefundPart(c, p)'
  <2> DEFINE f == [q \in Payments |-> RefundPart(c, q)]
             h == [q \in Payments |-> RefundPart(c, q)']
  <2>1. \A q \in Payments : f[q] \in Nat /\ h[q] \in Nat /\ (q # p => f[q] = h[q]) BY <1>1
  <2>2. InRefunds(c) = SumOver(f, Payments) BY DEF InRefunds, RefundPart
  <2>3. InRefunds(c)' = SumOver(h, Payments) BY DEF InRefunds, RefundPart
  <2>4. f[p] = RefundPart(c, p) /\ h[p] = RefundPart(c, p)' OBVIOUS
  <2> HIDE DEF f, h
  <2>5. SumOver(h, Payments) + f[p] = SumOver(f, Payments) + h[p] BY <1>2, <2>1, SumChanges
  <2> QED BY <2>2, <2>3, <2>4, <2>5
<1> QED BY <1>3, <1>4

(* The same for a step that is about one refresh group.                    *)
LEMMA RefreshChanges ==
    ASSUME MoneyInv, MoneyInv', NEW c \in PurseCoins, NEW g \in RefreshGroups,
           \A h \in RefreshGroups \ {g} : RefreshPart(c, h)' = RefreshPart(c, h)
    PROVE  InRefreshes(c)' + RefreshPart(c, g) = InRefreshes(c) + RefreshPart(c, g)'
<1>1. \A h \in RefreshGroups : RefreshPart(c, h) \in Nat /\ RefreshPart(c, h)' \in Nat
  BY PartsAreNat, PartsStayNat DEF PartsOK
<1>2. IsFiniteSet(RefreshGroups) BY MoneyAssumption
<1> DEFINE f == [h \in RefreshGroups |-> RefreshPart(c, h)]
           k == [h \in RefreshGroups |-> RefreshPart(c, h)']
<1>3. \A h \in RefreshGroups : f[h] \in Nat /\ k[h] \in Nat /\ (h # g => f[h] = k[h]) BY <1>1
<1>4. InRefreshes(c) = SumOver(f, RefreshGroups) BY DEF InRefreshes, RefreshPart
<1>5. InRefreshes(c)' = SumOver(k, RefreshGroups) BY DEF InRefreshes, RefreshPart
<1>6. f[g] = RefreshPart(c, g) /\ k[g] = RefreshPart(c, g)' OBVIOUS
<1> HIDE DEF f, k
<1>7. SumOver(k, RefreshGroups) + f[g] = SumOver(f, RefreshGroups) + k[g]
  BY <1>2, <1>3, SumChanges
<1> QED BY <1>4, <1>5, <1>6, <1>7

(* A new group has what the amounts lose.                                  *)
LEMMA GroupTakesAmounts ==
    ASSUME MoneyInv, MoneyInv', NEW S \in SUBSET PurseCoins, NEW now \in [PurseCoins -> Nat],
           CreateRefreshGroup(S, now), NEW c \in PurseCoins
    PROVE  amount'[c] + InRefreshes(c)' = now[c] + InRefreshes(c)
<1>1. PICK g \in Unused :
          /\ groupOf' = [groupOf EXCEPT ![g] = [d \in PurseCoins |->
                                                  IF d \in S THEN "waits" ELSE "out"]]
          /\ input' = [input EXCEPT ![g] = [d \in PurseCoins |-> IF d \in S THEN now[d] ELSE 0]]
          /\ amount' = [d \in PurseCoins |-> IF d \in S THEN 0 ELSE now[d]]
  BY DEF CreateRefreshGroup
<1>2. g \in RefreshGroups /\ groupOf[g][c] = "out" BY <1>1 DEF Unused, Members
<1>3. RefreshPart(c, g) = 0 BY <1>2 DEF RefreshPart
<1>4. RefreshPart(c, g)' = IF c \in S THEN now[c] ELSE 0
  BY <1>1, <1>2 DEF RefreshPart, MoneyInv, RefreshesOK
<1>5. \A h \in RefreshGroups \ {g} : RefreshPart(c, h)' = RefreshPart(c, h)
  BY <1>1 DEF RefreshPart, MoneyInv, RefreshesOK
<1>6. InRefreshes(c)' + RefreshPart(c, g) = InRefreshes(c) + RefreshPart(c, g)'
  BY <1>2, <1>5, RefreshChanges
<1>7. amount'[c] = IF c \in S THEN 0 ELSE now[c] BY <1>1
<1>8. InRefreshes(c) \in Nat /\ InRefreshes(c)' \in Nat BY PartsAreNat, PartsStayNat DEF PartsOK
<1> QED BY <1>3, <1>4, <1>6, <1>7, <1>8

(* Every step keeps the books: a payment is orderly, and groups are of     *)
(* known coins only.                                                       *)
LEMMA BooksStep == MoneyInv /\ Books /\ [MoneyNext]_moneyVars => Books'
<1> SUFFICES ASSUME MoneyInv, Books, [MoneyNext]_moneyVars PROVE Books'
  OBVIOUS
<1> USE DEF purse, paymentVars, refreshes, atExchange
<1>a. UNCHANGED <<paymentVars, deposits, refunded>> => \A p \in Payments : PaymentIsOrderly(p)'
  BY DEF Books, PaymentIsOrderly
<1>b. UNCHANGED <<selected, pays, groupOf>> /\ known \subseteq known' => OnlyKnown'
  BY DEF Books, OnlyKnown, CoinsOf, Members
<1>c. ASSUME NEW S, NEW now, CreateRefreshGroup(S, now), S \subseteq known
      PROVE  known' = known /\ \A g \in RefreshGroups : Members(g)' \subseteq known'
  BY <1>c DEF CreateRefreshGroup, Books, OnlyKnown, Members, MoneyInv, RefreshesOK
<1>d. fresh \subseteq known BY DEF MoneyInv, PurseOK
<1>e. ASSUME NEW p \in Payments
      PROVE  /\ PaymentIsOrderly(p) /\ CoinsOf(selected[p]) \subseteq known
             /\ CoinsOf(pays[p]) \subseteq known
  BY DEF Books, OnlyKnown
<1> USE DEF MoneyInv, PaymentsOK, OutsideOK
<1>1. ASSUME NEW p \in Payments, NEW s \in Selections, SelectForPayment(p, s) PROVE Books'
  <2>1. \A q \in Payments : PaymentIsOrderly(q)'
    BY <1>1, <1>e DEF SelectForPayment, PaymentIsOrderly
  <2>2. OnlyKnown'
    BY <1>1, <1>d, <1>e DEF SelectForPayment, Books, OnlyKnown, CoinsOf, Members
  <2> QED BY <2>1, <2>2 DEF Books
<1>2. ASSUME NEW p \in Payments, RecordPayment(p) PROVE Books'
  <2>1. \A q \in Payments : PaymentIsOrderly(q)'
    BY <1>2, <1>e DEF RecordPayment, PaymentIsOrderly
  <2>2. OnlyKnown'
    <3>1. CoinsOf(Nothing) = {} BY DEF CoinsOf, Nothing
    <3>2. CASE \A c \in PurseCoins : selected[p][c] <= amount[c]
      <4>1. known' = known /\ \A g \in RefreshGroups : Members(g)' \subseteq known'
        BY <1>2, <1>c, <1>e, <3>2 DEF RecordPayment
      <4>2. \A q \in Payments : CoinsOf(selected[q])' \cup CoinsOf(pays[q])' \subseteq known
        BY <1>2, <1>e, <3>1, <3>2 DEF RecordPayment, CoinsOf
      <4> QED BY <4>1, <4>2 DEF OnlyKnown
    <3>3. CASE ~\A c \in PurseCoins : selected[p][c] <= amount[c]
      BY <1>2, <1>e, <3>1, <3>3 DEF RecordPayment, Books, OnlyKnown, CoinsOf, Members
    <3> QED BY <3>2, <3>3
  <2> QED BY <2>1, <2>2 DEF Books
<1>3. ASSUME NEW p \in Payments, AbortPayment(p) PROVE Books'
  <2>1. \A q \in Payments : PaymentIsOrderly(q)'
    BY <1>3, <1>e DEF AbortPayment, PaymentIsOrderly
  <2> QED BY <1>3, <1>b, <2>1 DEF AbortPayment, Books
<1>4. ASSUME NEW p \in Payments, NEW S \in SUBSET PurseCoins, ApplyRefunds(p, S) PROVE Books'
  <2>1. payStatus[p] # "none"
    BY <1>4, <1>e DEF ApplyRefunds, PaymentIsOrderly, CoinsOf, Nothing
  <2>2. \A q \in Payments : PaymentIsOrderly(q)'
    BY <1>4, <1>e, <2>1 DEF ApplyRefunds, PaymentIsOrderly
  <2>3. OnlyKnown'
    <3>1. S \subseteq known BY <1>4, <1>e DEF ApplyRefunds
    <3>2. known' = known /\ \A g \in RefreshGroups : Members(g)' \subseteq known'
      BY <1>4, <1>c, <3>1 DEF ApplyRefunds
    <3> QED BY <1>4, <1>e, <3>2 DEF ApplyRefunds, OnlyKnown, CoinsOf
  <2> QED BY <2>2, <2>3 DEF Books
<1>5. ASSUME NEW c \in PurseCoins, DenominationExpires(c) PROVE Books'
  BY <1>5, <1>a, <1>b DEF DenominationExpires, Books
<1>6. CASE AutoRefresh
  <2>1. known' = known /\ \A g \in RefreshGroups : Members(g)' \subseteq known'
    BY <1>6, <1>c, <1>d DEF AutoRefresh
  <2>2. OnlyKnown' BY <1>6, <1>e, <2>1 DEF AutoRefresh, OnlyKnown, CoinsOf
  <2> QED BY <1>6, <1>a, <2>2 DEF AutoRefresh, Books
<1>7. ASSUME NEW g \in RefreshGroups, NEW c \in PurseCoins, groupOf[g][c] # "out",
             NEW s, Becomes(g, c, s), known \subseteq known', UNCHANGED <<selected, pays>>
      PROVE  OnlyKnown'
  <2>1. \A h \in RefreshGroups : Members(h)' \subseteq Members(h)
    BY <1>7 DEF Becomes, Members, RefreshesOK
  <2> QED BY <1>7, <2>1 DEF Books, OnlyKnown, CoinsOf
<1>8. ASSUME NEW g \in RefreshGroups, NEW c \in PurseCoins,
             CreateSession(g, c) \/ Melt(g, c) \/ Reveal(g, c)
      PROVE  Books'
  <2>1. UNCHANGED <<paymentVars, deposits, refunded>> /\ known \subseteq known'
    BY <1>8 DEF CreateSession, Melt, Reveal
  <2>2. groupOf[g][c] # "out" /\ \E s : Becomes(g, c, s)
    BY <1>8 DEF CreateSession, Melt, Reveal
  <2> QED BY <1>7, <1>a, <2>1, <2>2 DEF Books
<1>9. ASSUME NEW p \in Payments, NEW c \in PurseCoins, Deposit(p, c) PROVE Books'
  <2>1. \A q \in Payments : PaymentIsOrderly(q)'
    BY <1>9, <1>e DEF Deposit, PaymentIsOrderly
  <2> QED BY <1>9, <1>b, <2>1 DEF Deposit, Books
<1>10. ASSUME NEW p \in Payments, NEW c \in PurseCoins, Refund(p, c) PROVE Books'
  <2>1. \A q \in Payments : PaymentIsOrderly(q)'
    BY <1>10, <1>e DEF Refund, PaymentIsOrderly
  <2> QED BY <1>10, <1>b, <2>1 DEF Refund, Books
<1>11. CASE CrashMoney
  <2>1. \A q \in Payments : PaymentIsOrderly(q)'
    BY <1>11, <1>e DEF CrashMoney, PaymentIsOrderly
  <2>2. OnlyKnown'
    BY <1>11, <1>e DEF CrashMoney, Books, OnlyKnown, CoinsOf, Nothing, Members
  <2> QED BY <2>1, <2>2 DEF Books
<1>12. CASE UNCHANGED moneyVars
  BY <1>12, <1>a, <1>b DEF moneyVars, Books
<1> QED
  BY <1>1, <1>2, <1>3, <1>4, <1>5, <1>6, <1>8, <1>9, <1>10, <1>11, <1>12 DEF MoneyNext

(* A payment moves s units from the coin to the payments. *)
LEMMA PaidFromTheCoin ==
  ASSUME NEW l \in Nat, NEW a \in Nat, NEW i \in Nat, NEW j \in Nat, NEW k \in Nat, NEW s \in Nat,
         NEW a2 \in Nat, NEW k2 \in Nat, l = a + i + j + k, a2 + k2 = (a - s) + k
  PROVE  l = a2 + (i + s) + j + k2
  OBVIOUS

(* Whatever a step takes away in one place it adds in another, or the      *)
(* exchange does the same with what it holds.                              *)
LEMMA UnitsStep == MoneyInv /\ Books /\ EveryUnitHasOnePlace /\ [MoneyNext]_moneyVars
                       => EveryUnitHasOnePlace'
<1> SUFFICES ASSUME MoneyInv, Books, EveryUnitHasOnePlace, [MoneyNext]_moneyVars,
                    NEW c \in PurseCoins
             PROVE  left'[c] = amount'[c] + InPayments(c)' + InRefunds(c)' + InRefreshes(c)'
  BY DEF EveryUnitHasOnePlace
<1> USE DEF purse, paymentVars, refreshes, atExchange
<1>a. MoneyInv' BY MoneyStepInv
<1>b. /\ InPayments(c) \in Nat /\ InRefunds(c) \in Nat /\ InRefreshes(c) \in Nat
      /\ InPayments(c)' \in Nat /\ InRefunds(c)' \in Nat /\ InRefreshes(c)' \in Nat
  BY <1>a, PartsAreNat, PartsStayNat DEF PartsOK
<1>c. left[c] = amount[c] + InPayments(c) + InRefunds(c) + InRefreshes(c)
  BY DEF EveryUnitHasOnePlace
<1>d. left[c] \in Nat /\ amount[c] \in Nat /\ left'[c] \in Nat /\ amount'[c] \in Nat
  BY <1>a DEF MoneyInv, PurseOK, OutsideOK
<1>e. /\ UNCHANGED <<pays, credited, deposits>> => InPayments(c)' = InPayments(c)
      /\ UNCHANGED <<pays, credited, refunded>> => InRefunds(c)' = InRefunds(c)
      /\ UNCHANGED refreshes => InRefreshes(c)' = InRefreshes(c)
  BY DEF InPayments, InRefunds, InRefreshes
<1>f. UNCHANGED <<pays, credited, deposits, refunded, refreshes, amount, left>> =>
          left'[c] = amount'[c] + InPayments(c)' + InRefunds(c)' + InRefreshes(c)'
  BY <1>c, <1>e
<1>g. ASSUME NEW p \in Payments
      PROVE  /\ PaymentIsOrderly(p) /\ pays[p] \in [PurseCoins -> Nat]
             /\ selected[p] \in [PurseCoins -> Nat] /\ pays[p][c] \in Nat
  <2>1. pays[p] \in Selections \cup {Nothing} /\ selected[p] \in Selections \cup {Nothing}
    BY DEF MoneyInv, PaymentsOK
  <2>2. \A s \in Selections \cup {Nothing} : s \in [PurseCoins -> Nat]
    BY MoneyAssumption DEF Selections, Nothing
  <2> QED BY <2>1, <2>2 DEF Books
<1>1. ASSUME NEW p \in Payments, NEW s \in Selections, SelectForPayment(p, s)
      PROVE  left'[c] = amount'[c] + InPayments(c)' + InRefunds(c)' + InRefreshes(c)'
  BY <1>1, <1>f DEF SelectForPayment
<1>2. ASSUME NEW p \in Payments, RecordPayment(p)
      PROVE  left'[c] = amount'[c] + InPayments(c)' + InRefunds(c)' + InRefreshes(c)'
  <2>1. CASE \A d \in PurseCoins : selected[p][d] <= amount[d]
    <3> DEFINE now == [d \in PurseCoins |-> amount[d] - selected[p][d]]
    <3>1. now \in [PurseCoins -> Nat] BY <1>g, <2>1 DEF MoneyInv, PurseOK
    <3>2. CreateRefreshGroup(CoinsOf(selected[p]), now) /\ UNCHANGED <<credited, deposits, refunded, left>>
      BY <1>2, <2>1 DEF RecordPayment
    <3>3. pays' = [pays EXCEPT ![p] = selected[p]] BY <1>2, <2>1 DEF RecordPayment
    <3>4. now[c] = amount[c] - selected[p][c] /\ CoinsOf(selected[p]) \in SUBSET PurseCoins
      BY DEF CoinsOf
    <3> HIDE DEF now
    <3>5. amount'[c] + InRefreshes(c)' = now[c] + InRefreshes(c)
      BY <1>a, <3>1, <3>2, <3>4, GroupTakesAmounts
    <3>6. /\ pays[p] = Nothing /\ deposits[p] = {} /\ credited[p] = {} /\ refunded[p] = {}
      BY <1>2, <1>g DEF RecordPayment, PaymentIsOrderly
    <3>7. \A q \in Payments \ {p} :
              PayPart(c, q)' = PayPart(c, q) /\ RefundPart(c, q)' = RefundPart(c, q)
      BY <3>2, <3>3 DEF PayPart, RefundPart, MoneyInv, PaymentsOK
    <3>8. PayPart(c, p) = 0 /\ RefundPart(c, p) = 0 /\ RefundPart(c, p)' = 0
      BY <3>2, <3>6 DEF PayPart, RefundPart, Nothing
    <3>9. PayPart(c, p)' = selected[p][c]
      BY <3>2, <3>3, <3>6 DEF PayPart, MoneyInv, PaymentsOK
    <3>10. /\ InPayments(c)' + PayPart(c, p) = InPayments(c) + PayPart(c, p)'
           /\ InRefunds(c)' + RefundPart(c, p) = InRefunds(c) + RefundPart(c, p)'
      BY <1>a, <3>7, PaymentChanges
    <3>11. selected[p][c] \in Nat /\ left'[c] = left[c] BY <1>g, <3>2
    <3>12. InPayments(c)' = InPayments(c) + selected[p][c] /\ InRefunds(c)' = InRefunds(c)
      BY <1>b, <3>8, <3>9, <3>10, <3>11
    <3>13. amount'[c] + InRefreshes(c)' = (amount[c] - selected[p][c]) + InRefreshes(c)
      BY <3>4, <3>5
    <3>14. left[c] = amount'[c] + (InPayments(c) + selected[p][c]) + InRefunds(c) + InRefreshes(c)'
      BY <1>b, <1>c, <1>d, <3>11, <3>13, PaidFromTheCoin
    <3> QED BY <3>11, <3>12, <3>14
  <2>2. CASE ~\A d \in PurseCoins : selected[p][d] <= amount[d]
    BY <1>2, <1>f, <2>2 DEF RecordPayment
  <2> QED BY <2>1, <2>2
<1>3. ASSUME NEW p \in Payments, AbortPayment(p)
      PROVE  left'[c] = amount'[c] + InPayments(c)' + InRefunds(c)' + InRefreshes(c)'
  BY <1>3, <1>f DEF AbortPayment
<1>4. ASSUME NEW p \in Payments, NEW S \in SUBSET PurseCoins, ApplyRefunds(p, S)
      PROVE  left'[c] = amount'[c] + InPayments(c)' + InRefunds(c)' + InRefreshes(c)'
  <2> DEFINE now == [d \in PurseCoins |-> IF d \in S THEN amount[d] + pays[p][d] ELSE amount[d]]
  <2>1. now \in [PurseCoins -> Nat] BY <1>g DEF MoneyInv, PurseOK
  <2>2. /\ CreateRefreshGroup(S, now) /\ UNCHANGED <<pays, deposits, refunded, left>>
        /\ credited' = [credited EXCEPT ![p] = @ \cup S]
    BY <1>4 DEF ApplyRefunds
  <2>3. now[c] = IF c \in S THEN amount[c] + pays[p][c] ELSE amount[c] OBVIOUS
  <2> HIDE DEF now
  <2>4. amount'[c] + InRefreshes(c)' = now[c] + InRefreshes(c)
    BY <1>a, <2>1, <2>2, GroupTakesAmounts
  <2>5. credited'[p] = credited[p] \cup S /\ \A q \in Payments \ {p} : credited'[q] = credited[q]
    BY <2>2 DEF MoneyInv, PaymentsOK
  <2>6. \A q \in Payments \ {p} :
            PayPart(c, q)' = PayPart(c, q) /\ RefundPart(c, q)' = RefundPart(c, q)
    BY <2>2, <2>5 DEF PayPart, RefundPart
  <2>7. /\ InPayments(c)' + PayPart(c, p) = InPayments(c) + PayPart(c, p)'
        /\ InRefunds(c)' + RefundPart(c, p) = InRefunds(c) + RefundPart(c, p)'
    BY <1>a, <2>6, PaymentChanges
  <2>8. left'[c] = left[c] /\ pays[p][c] \in Nat BY <1>g, <2>2
  <2>9. CASE c \notin S
    <3>1. PayPart(c, p)' = PayPart(c, p) /\ RefundPart(c, p)' = RefundPart(c, p)
      BY <2>2, <2>5, <2>9 DEF PayPart, RefundPart
    <3>2. PayPart(c, p) \in Nat /\ RefundPart(c, p) \in Nat BY PartsAreNat DEF PartsOK
    <3> QED BY <1>b, <1>c, <1>d, <2>3, <2>4, <2>7, <2>8, <2>9, <3>1, <3>2
  <2>10. CASE c \in S
    <3>1. PayPart(c, p)' = 0 /\ RefundPart(c, p)' = 0
      BY <2>5, <2>10 DEF PayPart, RefundPart
    <3>2. c \notin credited[p] /\ (c \in refunded[p] \/ c \notin deposits[p])
      BY <1>4, <2>10 DEF ApplyRefunds
    <3>3. refunded[p] \subseteq deposits[p] BY <1>g DEF PaymentIsOrderly
    <3>4. \/ PayPart(c, p) = 0 /\ RefundPart(c, p) = pays[p][c]
          \/ PayPart(c, p) = pays[p][c] /\ RefundPart(c, p) = 0
      BY <3>2, <3>3 DEF PayPart, RefundPart
    <3> QED BY <1>b, <1>c, <1>d, <2>3, <2>4, <2>7, <2>8, <2>10, <3>1, <3>4
  <2> QED BY <2>9, <2>10
<1>5. ASSUME NEW d \in PurseCoins, DenominationExpires(d)
      PROVE  left'[c] = amount'[c] + InPayments(c)' + InRefunds(c)' + InRefreshes(c)'
  BY <1>5, <1>f DEF DenominationExpires
<1>6. ASSUME AutoRefresh
      PROVE  left'[c] = amount'[c] + InPayments(c)' + InRefunds(c)' + InRefreshes(c)'
  <2>1. CreateRefreshGroup(fresh \cap expired, amount) BY <1>6 DEF AutoRefresh
  <2>2. fresh \cap expired \in SUBSET PurseCoins /\ amount \in [PurseCoins -> Nat]
    BY DEF MoneyInv, PurseOK
  <2>3. amount'[c] + InRefreshes(c)' = amount[c] + InRefreshes(c)
    BY <1>a, <2>1, <2>2, GroupTakesAmounts
  <2>4. left'[c] = left[c] /\ InPayments(c)' = InPayments(c) /\ InRefunds(c)' = InRefunds(c)
    BY <1>6, <1>e DEF AutoRefresh
  <2> QED BY <1>b, <1>c, <1>d, <2>3, <2>4
<1>7. ASSUME NEW g \in RefreshGroups, NEW d \in PurseCoins, NEW s, Becomes(g, d, s), UNCHANGED input
      PROVE  /\ \A h \in RefreshGroups \ {g} : RefreshPart(c, h)' = RefreshPart(c, h)
             /\ RefreshPart(c, g)' = IF c = d
                                     THEN IF s \in {"waits", "session", "small"} THEN input[g][c] ELSE 0
                                     ELSE RefreshPart(c, g)
             /\ input[g][c] \in Nat /\ RefreshPart(c, g) \in Nat
             /\ InRefreshes(c)' + RefreshPart(c, g) = InRefreshes(c) + RefreshPart(c, g)'
  <2>1. \A h \in RefreshGroups, e \in PurseCoins :
            groupOf'[h][e] = IF h = g /\ e = d THEN s ELSE groupOf[h][e]
    BY <1>7 DEF Becomes, MoneyInv, RefreshesOK
  <2>2. \A h \in RefreshGroups \ {g} : RefreshPart(c, h)' = RefreshPart(c, h)
    BY <1>7, <2>1 DEF RefreshPart
  <2>3. InRefreshes(c)' + RefreshPart(c, g) = InRefreshes(c) + RefreshPart(c, g)'
    BY <1>a, <2>2, RefreshChanges
  <2>4. input[g][c] \in Nat /\ RefreshPart(c, g) \in Nat
    BY PartsAreNat DEF PartsOK, MoneyInv, RefreshesOK
  <2>5. RefreshPart(c, g)' = IF c = d
                             THEN IF s \in {"waits", "session", "small"} THEN input[g][c] ELSE 0
                             ELSE RefreshPart(c, g)
    BY <1>7, <2>1 DEF RefreshPart
  <2> QED BY <2>2, <2>3, <2>4, <2>5
<1>8. ASSUME NEW g \in RefreshGroups, NEW d \in PurseCoins, CreateSession(g, d)
      PROVE  left'[c] = amount'[c] + InPayments(c)' + InRefunds(c)' + InRefreshes(c)'
  <2>1. PICK s \in {"small", "session"} : Becomes(g, d, s) BY <1>8 DEF CreateSession
  <2>2. UNCHANGED <<pays, credited, deposits, refunded, amount, left, input>>
    BY <1>8 DEF CreateSession
  <2>3. c = d => RefreshPart(c, g) = input[g][c] BY <1>8 DEF CreateSession, RefreshPart
  <2>4. RefreshPart(c, g)' = RefreshPart(c, g) BY <1>7, <2>1, <2>2, <2>3
  <2>5. InRefreshes(c)' + RefreshPart(c, g) = InRefreshes(c) + RefreshPart(c, g)'
    BY <1>7, <2>1, <2>2
  <2>6. RefreshPart(c, g) \in Nat BY <1>7, <2>1, <2>2
  <2> QED BY <1>b, <1>c, <1>e, <2>2, <2>4, <2>5, <2>6
<1>9. ASSUME NEW g \in RefreshGroups, NEW d \in PurseCoins, Melt(g, d)
      PROVE  left'[c] = amount'[c] + InPayments(c)' + InRefunds(c)' + InRefreshes(c)'
  <2>1. Becomes(g, d, "melted") /\ UNCHANGED <<pays, credited, deposits, refunded, amount, input>>
    BY <1>9 DEF Melt
  <2>2. left'[c] = IF c = d THEN left[c] - input[g][c] ELSE left[c]
    BY <1>9 DEF Melt, MoneyInv, OutsideOK
  <2>3. c = d => RefreshPart(c, g) = input[g][c] BY <1>9 DEF Melt, RefreshPart
  <2>4. /\ RefreshPart(c, g)' = IF c = d THEN 0 ELSE RefreshPart(c, g)
        /\ RefreshPart(c, g) \in Nat /\ input[g][c] \in Nat
        /\ InRefreshes(c)' + RefreshPart(c, g) = InRefreshes(c) + RefreshPart(c, g)'
    BY <1>7, <2>1
  <2> QED BY <1>b, <1>c, <1>d, <1>e, <2>1, <2>2, <2>3, <2>4
<1>10. ASSUME NEW g \in RefreshGroups, NEW d \in PurseCoins, Reveal(g, d)
       PROVE  left'[c] = amount'[c] + InPayments(c)' + InRefunds(c)' + InRefreshes(c)'
  <2>1. PICK n \in PurseCoins \ known :
            /\ Becomes(g, d, "done") /\ groupOf[g][d] = "melted"
            /\ amount' = [amount EXCEPT ![n] = input[g][d] - RefreshFee]
            /\ left' = [left EXCEPT ![n] = input[g][d] - RefreshFee]
            /\ UNCHANGED <<pays, credited, deposits, refunded, input>>
    BY <1>10 DEF Reveal
  <2>2. /\ RefreshPart(c, g)' = IF c = d THEN 0 ELSE RefreshPart(c, g)
        /\ RefreshPart(c, g) \in Nat
        /\ InRefreshes(c)' + RefreshPart(c, g) = InRefreshes(c) + RefreshPart(c, g)'
    BY <1>7, <2>1
  <2>3. c = d => RefreshPart(c, g) = 0 BY <2>1 DEF RefreshPart
  <2>4. InRefreshes(c)' = InRefreshes(c) BY <1>b, <2>2, <2>3
  <2>5. CASE c # n
    <3>1. left'[c] = left[c] /\ amount'[c] = amount[c]
      BY <2>1, <2>5 DEF MoneyInv, PurseOK, OutsideOK
    <3> QED BY <1>c, <1>e, <2>1, <2>4, <3>1
  <2>6. CASE c = n
    <3>1. left'[c] = amount'[c] BY <2>1, <2>6 DEF MoneyInv, PurseOK, OutsideOK
    <3>2. \A p \in Payments : pays[p][c] = 0
      BY <1>g, <2>1, <2>6 DEF Books, OnlyKnown, CoinsOf
    <3>3. \A h \in RefreshGroups : groupOf[h][c] = "out"
      BY <2>1, <2>6 DEF Books, OnlyKnown, Members
    <3> DEFINE f == [p \in Payments |-> IF c \in deposits[p] \cup credited[p] THEN 0 ELSE pays[p][c]]
               h == [p \in Payments |-> IF c \in refunded[p] \ credited[p] THEN pays[p][c] ELSE 0]
               k == [i \in RefreshGroups |->
                        IF groupOf[i][c] \in {"waits", "session", "small"} THEN input[i][c] ELSE 0]
    <3>4. (\A p \in Payments : f[p] = 0 /\ h[p] = 0) /\ \A i \in RefreshGroups : k[i] = 0
      BY <3>2, <3>3
    <3>5. /\ InPayments(c) = SumOver(f, Payments) /\ InRefunds(c) = SumOver(h, Payments)
          /\ InRefreshes(c) = SumOver(k, RefreshGroups)
      BY DEF InPayments, InRefunds, InRefreshes
    <3> HIDE DEF f, h, k
    <3>6. InPayments(c) = 0 /\ InRefunds(c) = 0 /\ InRefreshes(c) = 0
      BY <3>4, <3>5, SumOfZeros, MoneyAssumption
    <3> QED BY <1>d, <1>e, <2>1, <2>4, <3>1, <3>6
  <2> QED BY <2>5, <2>6
<1>11. ASSUME NEW p \in Payments, NEW d \in PurseCoins, Deposit(p, d)
       PROVE  left'[c] = amount'[c] + InPayments(c)' + InRefunds(c)' + InRefreshes(c)'
  <2>1. /\ UNCHANGED <<amount, pays, credited, refunded, refreshes>>
        /\ payStatus[p] = "recorded" /\ d \notin deposits[p]
    BY <1>11 DEF Deposit
  <2>2. deposits'[p] = deposits[p] \cup {d} /\ \A q \in Payments \ {p} : deposits'[q] = deposits[q]
    BY <1>11 DEF Deposit, MoneyInv, OutsideOK
  <2>3. left'[c] = IF c = d THEN left[c] - pays[p][c] ELSE left[c]
    BY <1>11 DEF Deposit, MoneyInv, OutsideOK
  <2>4. d \notin credited[p] /\ d \notin refunded[p] BY <1>g, <2>1 DEF PaymentIsOrderly
  <2>5. \A q \in Payments \ {p} :
            PayPart(c, q)' = PayPart(c, q) /\ RefundPart(c, q)' = RefundPart(c, q)
    BY <2>1, <2>2 DEF PayPart, RefundPart
  <2>6. InPayments(c)' + PayPart(c, p) = InPayments(c) + PayPart(c, p)'
    BY <1>a, <2>5, PaymentChanges
  <2>7. /\ c = d => PayPart(c, p) = pays[p][c] /\ PayPart(c, p)' = 0
        /\ c # d => PayPart(c, p)' = PayPart(c, p)
    BY <2>1, <2>2, <2>4 DEF PayPart
  <2>8. PayPart(c, p) \in Nat /\ pays[p][c] \in Nat BY <1>g, PartsAreNat DEF PartsOK
  <2> QED BY <1>b, <1>c, <1>d, <1>e, <2>1, <2>3, <2>6, <2>7, <2>8
<1>12. ASSUME NEW p \in Payments, NEW d \in PurseCoins, Refund(p, d)
       PROVE  left'[c] = amount'[c] + InPayments(c)' + InRefunds(c)' + InRefreshes(c)'
  <2>1. /\ UNCHANGED <<amount, pays, credited, deposits, refreshes>>
        /\ d \in deposits[p] /\ d \notin refunded[p]
    BY <1>12 DEF Refund
  <2>2. refunded'[p] = refunded[p] \cup {d} /\ \A q \in Payments \ {p} : refunded'[q] = refunded[q]
    BY <1>12 DEF Refund, MoneyInv, OutsideOK
  <2>3. left'[c] = IF c = d THEN left[c] + pays[p][c] ELSE left[c]
    BY <1>12 DEF Refund, MoneyInv, OutsideOK
  <2>4. d \notin credited[p] BY <1>g, <2>1 DEF PaymentIsOrderly
  <2>5. \A q \in Payments \ {p} :
            PayPart(c, q)' = PayPart(c, q) /\ RefundPart(c, q)' = RefundPart(c, q)
    BY <2>1, <2>2 DEF PayPart, RefundPart
  <2>6. InRefunds(c)' + RefundPart(c, p) = InRefunds(c) + RefundPart(c, p)'
    BY <1>a, <2>5, PaymentChanges
  <2>7. /\ c = d => RefundPart(c, p) = 0 /\ RefundPart(c, p)' = pays[p][c]
        /\ c # d => RefundPart(c, p)' = RefundPart(c, p)
    BY <2>1, <2>2, <2>4 DEF RefundPart
  <2>8. RefundPart(c, p) \in Nat /\ pays[p][c] \in Nat BY <1>g, PartsAreNat DEF PartsOK
  <2> QED BY <1>b, <1>c, <1>d, <1>e, <2>1, <2>3, <2>6, <2>7, <2>8
<1>13. ASSUME CrashMoney
       PROVE  left'[c] = amount'[c] + InPayments(c)' + InRefunds(c)' + InRefreshes(c)'
  BY <1>13, <1>f DEF CrashMoney
<1>14. ASSUME UNCHANGED moneyVars
       PROVE  left'[c] = amount'[c] + InPayments(c)' + InRefunds(c)' + InRefreshes(c)'
  BY <1>14, <1>f DEF moneyVars
<1> QED
  BY <1>1, <1>2, <1>3, <1>4, <1>5, <1>6, <1>8, <1>9, <1>10, <1>11, <1>12, <1>13, <1>14 DEF MoneyNext

(* Whatever payments, aborts, refunds and refreshes come in between, in    *)
(* whichever order and over whichever deaths of the wallet, each unit of   *)
(* value that the exchange holds for a coin has one place in the wallet.   *)
THEOREM EveryUnitIsAccounted == MoneySpec => []EveryUnitHasOnePlace
<1>1. MoneyInit => MoneyInv /\ Books /\ EveryUnitHasOnePlace
  <2> SUFFICES ASSUME MoneyInit PROVE MoneyInv /\ Books /\ EveryUnitHasOnePlace
    OBVIOUS
  <2>1. MoneyInv BY MoneyInitially
  <2>2. Books BY DEF MoneyInit, Books, PaymentIsOrderly, OnlyKnown, CoinsOf, Members, Nothing
  <2>3. ASSUME NEW c \in PurseCoins
        PROVE  InPayments(c) = 0 /\ InRefunds(c) = 0 /\ InRefreshes(c) = 0
    <3> DEFINE f == [p \in Payments |-> IF c \in deposits[p] \cup credited[p] THEN 0 ELSE pays[p][c]]
               h == [p \in Payments |-> IF c \in refunded[p] \ credited[p] THEN pays[p][c] ELSE 0]
               k == [i \in RefreshGroups |->
                        IF groupOf[i][c] \in {"waits", "session", "small"} THEN input[i][c] ELSE 0]
    <3>1. (\A p \in Payments : f[p] = 0 /\ h[p] = 0) /\ \A i \in RefreshGroups : k[i] = 0
      BY DEF MoneyInit, Nothing
    <3>2. /\ InPayments(c) = SumOver(f, Payments) /\ InRefunds(c) = SumOver(h, Payments)
          /\ InRefreshes(c) = SumOver(k, RefreshGroups)
      BY DEF InPayments, InRefunds, InRefreshes
    <3> HIDE DEF f, h, k
    <3> QED BY <3>1, <3>2, SumOfZeros, MoneyAssumption
  <2>4. EveryUnitHasOnePlace
    BY <2>1, <2>3 DEF EveryUnitHasOnePlace, MoneyInit, MoneyInv, PurseOK
  <2> QED BY <2>1, <2>2, <2>4
<1>2. QED
  BY <1>1, MoneyStepInv, BooksStep, UnitsStep, PTL DEF MoneySpec

(* A coin that is not in a group has nothing in it.                        *)
OutIsEmpty ==
    \A g \in RefreshGroups, c \in PurseCoins : groupOf[g][c] = "out" => input[g][c] = 0

(* Every step keeps that.                                                  *)
LEMMA OutStaysEmpty == MoneyInv /\ OutIsEmpty /\ [MoneyNext]_moneyVars => OutIsEmpty'
<1> SUFFICES ASSUME MoneyInv, OutIsEmpty, [MoneyNext]_moneyVars PROVE OutIsEmpty' OBVIOUS
<1> USE DEF purse, paymentVars, refreshes, atExchange
<1>a. RefreshesOK BY DEF MoneyInv
<1>b. UNCHANGED refreshes => OutIsEmpty' BY DEF OutIsEmpty
<1>c. ASSUME NEW S, NEW now, CreateRefreshGroup(S, now) PROVE OutIsEmpty'
  <2>1. PICK g \in RefreshGroups :
            /\ groupOf' = [groupOf EXCEPT ![g] = [c \in PurseCoins |->
                                                    IF c \in S THEN "waits" ELSE "out"]]
            /\ input' = [input EXCEPT ![g] = [c \in PurseCoins |->
                                                    IF c \in S THEN now[c] ELSE 0]]
    BY <1>c DEF CreateRefreshGroup, Unused
  <2> QED BY <1>a, <2>1 DEF OutIsEmpty, RefreshesOK
<1>d. ASSUME NEW g \in RefreshGroups, NEW c \in PurseCoins, NEW s, s # "out", Becomes(g, c, s),
             UNCHANGED input
      PROVE  OutIsEmpty'
  BY <1>a, <1>d DEF Becomes, OutIsEmpty, RefreshesOK
<1>1. ASSUME NEW p \in Payments, RecordPayment(p) PROVE OutIsEmpty'
  BY <1>1, <1>b, <1>c DEF RecordPayment
<1>2. ASSUME NEW p \in Payments, NEW S \in SUBSET PurseCoins, ApplyRefunds(p, S) PROVE OutIsEmpty'
  BY <1>2, <1>c DEF ApplyRefunds
<1>3. CASE AutoRefresh BY <1>3, <1>c DEF AutoRefresh
<1>4. ASSUME NEW g \in RefreshGroups, NEW c \in PurseCoins,
             CreateSession(g, c) \/ Melt(g, c) \/ Reveal(g, c)
      PROVE  OutIsEmpty'
  <2>1. CASE CreateSession(g, c) BY <2>1, <1>d DEF CreateSession
  <2>2. CASE Melt(g, c) BY <2>2, <1>d DEF Melt
  <2>3. CASE Reveal(g, c) BY <2>3, <1>d DEF Reveal
  <2> QED BY <1>4, <2>1, <2>2, <2>3
<1>5. ASSUME NEW p \in Payments,
             \/ \E s \in Selections : SelectForPayment(p, s)
             \/ AbortPayment(p) \/ \E c \in PurseCoins : Deposit(p, c) \/ Refund(p, c)
      PROVE  OutIsEmpty'
  BY <1>5, <1>b DEF SelectForPayment, AbortPayment, Deposit, Refund
<1>6. CASE CrashMoney \/ (\E c \in PurseCoins : DenominationExpires(c)) \/ UNCHANGED moneyVars
  BY <1>6, <1>b DEF CrashMoney, DenominationExpires, moneyVars
<1> QED BY <1>1, <1>2, <1>3, <1>4, <1>5, <1>6 DEF MoneyNext

(* What coin c of group g is to give, as far as it is at one of the stages.*)
Part(Stage, g, c) == IF groupOf[g][c] \in Stage THEN Output(g, c) ELSE 0
GroupGives(Stage, g) == Total([c \in PurseCoins |-> Part(Stage, g, c)])

(* If each unit has one place, the balance counts what the exchange has.   *)
LEMMA BalanceOfBooks == MoneyInv /\ OutIsEmpty /\ EveryUnitHasOnePlace => BalanceIsCovered
<1> SUFFICES ASSUME MoneyInv, OutIsEmpty, EveryUnitHasOnePlace PROVE BalanceIsCovered OBVIOUS
<1> USE MoneyAssumption
<1> DEFINE Late == {"melted", "done"}
           G == RefreshGroups
           U == Unfinished
<1>a. RefreshesOK /\ PurseOK /\ OutsideOK BY DEF MoneyInv
<1>b. IsFiniteSet(U) /\ U \in SUBSET G BY FS_Subset DEF Unfinished
(* 1. What comes is in refreshes, or late.                                 *)
<1>1. ASSUME NEW g \in G, NEW c \in PurseCoins
      PROVE  /\ Part(Stages, g, c) \in Nat /\ Part(Late, g, c) \in Nat /\ RefreshPart(c, g) \in Nat
             /\ Part(Stages, g, c) <= RefreshPart(c, g) + Part(Late, g, c)
  <2>1. input[g][c] \in Nat /\ groupOf[g][c] \in Stages BY <1>a DEF RefreshesOK
  <2>2. Output(g, c) \in Nat /\ Output(g, c) <= input[g][c] BY <2>1 DEF Output
  <2>3. groupOf[g][c] = "out" => input[g][c] = 0 BY DEF OutIsEmpty
  <2> QED BY <2>1, <2>2, <2>3 DEF Part, RefreshPart, Stages
<1> DEFINE kept == [g \in G |-> SumOver([c \in PurseCoins |-> RefreshPart(c, g)], PurseCoins)]
           late == [g \in U |-> GroupGives(Late, g)]
           all == [g \in U |-> GroupGives(Stages, g)]
           keptOrLate == [g \in U |-> kept[g] + late[g]]
<1>2. ASSUME NEW g \in G
      PROVE  /\ kept[g] \in Nat /\ GroupGives(Late, g) \in Nat /\ GroupGives(Stages, g) \in Nat
             /\ GroupGives(Stages, g) <= kept[g] + GroupGives(Late, g)
  <2> DEFINE r == [c \in PurseCoins |-> RefreshPart(c, g)]
             l == [c \in PurseCoins |-> Part(Late, g, c)]
             s == [c \in PurseCoins |-> Part(Stages, g, c)]
             rl == [c \in PurseCoins |-> r[c] + l[c]]
  <2>1. \A c \in PurseCoins : /\ r[c] \in Nat /\ l[c] \in Nat /\ s[c] \in Nat
                              /\ rl[c] = r[c] + l[c] /\ s[c] <= rl[c]
    BY <1>1
  <2>2. /\ kept[g] = SumOver(r, PurseCoins) /\ GroupGives(Late, g) = SumOver(l, PurseCoins)
        /\ GroupGives(Stages, g) = SumOver(s, PurseCoins)
    BY DEF GroupGives, Total
  <2> HIDE DEF r, l, s, rl
  <2>3. SumOver(rl, PurseCoins) = SumOver(r, PurseCoins) + SumOver(l, PurseCoins)
    BY <2>1, SumAdds
  <2>4. SumOver(s, PurseCoins) <= SumOver(rl, PurseCoins) BY <2>1, SumIsLess
  <2>5. /\ SumOver(r, PurseCoins) \in Nat /\ SumOver(l, PurseCoins) \in Nat
        /\ SumOver(s, PurseCoins) \in Nat
    BY <2>1, SumIsNat
  <2> HIDE DEF kept
  <2> QED BY <2>2, <2>3, <2>4, <2>5
<1>3. Coming(Stages) = SumOver(all, U) /\ Coming(Late) = SumOver(late, U)
  BY DEF Coming, GroupGives, Part
<1>4. \A g \in U : /\ kept[g] \in Nat /\ late[g] \in Nat /\ all[g] \in Nat
                   /\ keptOrLate[g] = kept[g] + late[g] /\ all[g] <= keptOrLate[g]
  BY <1>2, <1>b
<1>5. \A g \in G : kept[g] \in Nat BY <1>2
(* 2. What is kept in refreshes, the exchange holds.                       *)
<1> DEFINE InRefresh == [c \in PurseCoins |-> InRefreshes(c)]
           held == [c \in PurseCoins |-> amount[c] + InRefresh[c]]
           free == [c \in PurseCoins |-> IF c \in fresh THEN amount[c] ELSE 0]
<1>6. SumOver(kept, G) = SumOver(InRefresh, PurseCoins)
  <2> DEFINE f == [g \in G |-> [c \in PurseCoins |-> RefreshPart(c, g)]]
  <2>1. \A g \in G, c \in PurseCoins : f[g][c] \in Nat BY <1>1
  <2>2. SumOver([g \in G |-> SumOver(f[g], PurseCoins)], G)
            = SumOver([c \in PurseCoins |-> SumOver([g \in G |-> f[g][c]], G)], PurseCoins)
    <3> HIDE DEF f
    <3> QED BY <2>1, SumsSwap
  <2>3. kept = [g \in G |-> SumOver(f[g], PurseCoins)] OBVIOUS
  <2>4. ASSUME NEW c \in PurseCoins PROVE InRefreshes(c) = SumOver([g \in G |-> f[g][c]], G)
    <3>1. [g \in G |-> f[g][c]] = [g \in G |-> RefreshPart(c, g)] OBVIOUS
    <3> QED BY <3>1 DEF InRefreshes, RefreshPart
  <2>5. InRefresh = [c \in PurseCoins |-> SumOver([g \in G |-> f[g][c]], G)] BY <2>4
  <2> QED BY <2>2, <2>3, <2>5
<1>7. \A c \in PurseCoins : /\ amount[c] \in Nat /\ InRefresh[c] \in Nat /\ left[c] \in Nat
                            /\ held[c] = amount[c] + InRefresh[c] /\ held[c] <= left[c]
                            /\ free[c] \in Nat /\ free[c] <= amount[c]
  <2>1. PartsOK BY PartsAreNat
  <2> QED BY <1>a, <2>1 DEF PartsOK, PurseOK, OutsideOK, EveryUnitHasOnePlace
<1> HIDE DEF kept, late, all, keptOrLate, InRefresh, held, free, U
(* 3. The sums.                                                            *)
<1>8. /\ SumOver(all, U) \in Nat /\ SumOver(keptOrLate, U) \in Nat
      /\ SumOver(kept, U) \in Nat /\ SumOver(late, U) \in Nat
  <2>1. \A g \in U : keptOrLate[g] \in Nat BY <1>4
  <2> QED BY <1>4, <1>b, <2>1, SumIsNat
<1>9. SumOver(all, U) <= SumOver(kept, U) + SumOver(late, U)
  <2>1. SumOver(all, U) <= SumOver(keptOrLate, U)
    <3>1. \A g \in U : keptOrLate[g] \in Nat BY <1>4
    <3> QED BY <1>4, <1>b, <3>1, SumIsLess
  <2>2. SumOver(keptOrLate, U) = SumOver(kept, U) + SumOver(late, U) BY <1>4, <1>b, SumAdds
  <2> QED BY <2>1, <2>2
<1>10. SumOver(kept, U) <= SumOver(kept, G)
  <2>1. SumOver(kept, G) = SumOver(kept, U) + SumOver(kept, G \ U) BY <1>5, <1>b, SumSplits
  <2>2. SumOver(kept, G \ U) \in Nat BY <1>5, FS_Subset, SumIsNat
  <2> QED BY <1>8, <2>1, <2>2
<1>11. SumOver(amount, PurseCoins) + SumOver(InRefresh, PurseCoins) <= SumOver(left, PurseCoins)
  <2>1. SumOver(held, PurseCoins)
            = SumOver(amount, PurseCoins) + SumOver(InRefresh, PurseCoins)
    BY <1>7, SumAdds
  <2>2. SumOver(held, PurseCoins) <= SumOver(left, PurseCoins)
    <3>1. \A c \in PurseCoins : held[c] \in Nat BY <1>7
    <3> QED BY <1>7, <3>1, SumIsLess
  <2> QED BY <2>1, <2>2
<1>12. SumOver(free, PurseCoins) <= SumOver(amount, PurseCoins) BY <1>7, SumIsLess
<1>13. /\ SumOver(free, PurseCoins) \in Nat /\ SumOver(amount, PurseCoins) \in Nat
       /\ SumOver(InRefresh, PurseCoins) \in Nat /\ SumOver(left, PurseCoins) \in Nat
  BY <1>7, SumIsNat
<1>14. Available = SumOver(free, PurseCoins) + Coming(Stages) BY DEF Available, Total, free
<1>15. Total(left) = SumOver(left, PurseCoins) BY DEF Total
<1>16. SumOver(kept, G) \in Nat BY <1>5, SumIsNat
<1>17. Available <= Total(left) + Coming(Late)
  BY <1>3, <1>6, <1>8, <1>9, <1>10, <1>11, <1>12, <1>13, <1>14, <1>15, <1>16
<1> QED BY <1>17 DEF BalanceIsCovered

(* Whatever the wallet does, what its balance shows is covered, but for    *)
(* coins that are done in groups that are not: no other transaction makes  *)
(* it promise more.                                                        *)
THEOREM BalanceStaysCovered == MoneySpec => []BalanceIsCovered
<1>1. MoneyInit => OutIsEmpty BY DEF MoneyInit, OutIsEmpty, Nothing
<1> QED
  BY <1>1, MoneyInvariant, OutStaysEmpty, EveryUnitIsAccounted, BalanceOfBooks, PTL DEF MoneySpec

-----------------------------------------------------------------------------
(* The throttle.  What a bucket holds and what it has let through since    *)
(* any time do not exceed a full bucket and the time that has passed.      *)
Clocks ==
    /\ time \in 0..MaxTime /\ wallClock \in Int /\ lastUpdate \in Int /\ setBacks \in 0..MaxSetBacks
    /\ passed \in [0..MaxTime -> Nat] /\ \A u \in 0..MaxTime : u > time => passed[u] = 0
    /\ tokens \in [Limits -> Nat] /\ \A l \in Limits : tokens[l] <= Full(l)
Potential ==
    \A l \in Limits : \A t \in 0..time :
        Period[l] * SumOver(passed, t..time) + Refilled[l] <= Full(l) + (time - t)
Windows ==
    \A l \in Limits : \A s \in 0..time : \A t \in 0..s :
        Period[l] * SumOver(passed, t..s) <= Full(l) + (s - t)
ThrottleInv == Clocks /\ Potential /\ Windows

(* What a bucket holds once it is refilled.                                *)
LEMMA BucketHolds ==
    ASSUME Clocks, NEW l \in Limits
    PROVE  /\ Refilled[l] \in Nat /\ Refilled[l] <= Full(l) /\ Full(l) \in Nat
           /\ wallClock < lastUpdate => Refilled[l] = tokens[l]
           /\ wallClock >= lastUpdate =>
                Refilled[l] = Lesser(Full(l), tokens[l] + wallClock - lastUpdate)
<1>1. Full(l) \in Nat BY ThrottleAssumption DEF Full
<1>2. /\ wallClock < lastUpdate => Refilled[l] = tokens[l]
      /\ wallClock >= lastUpdate =>
            Refilled[l] = Lesser(Full(l), tokens[l] + wallClock - lastUpdate)
  BY DEF Clocks, Refilled
<1>3. Refilled[l] \in Nat /\ Refilled[l] <= Full(l) BY <1>1, <1>2 DEF Lesser, Clocks
<1> QED BY <1>1, <1>2, <1>3

(* refill gives every bucket a content.                                    *)
LEMMA RefilledIsFunction == ASSUME Clocks PROVE Refilled \in [Limits -> Nat]
<1>1. \A l \in Limits : Refilled[l] \in Nat BY BucketHolds
<1>2. Refilled = [l \in Limits |-> Refilled[l]] BY DEF Refilled, Clocks
<1> QED BY <1>1, <1>2

(* The sum of a window that ends later, and of one in which only the last  *)
(* time counts another request.                                            *)
LEMMA WindowGrows ==
    ASSUME NEW f, NEW s \in Nat, NEW t \in 0..s, \A u \in t..(s + 1) : f[u] \in Nat
    PROVE  SumOver(f, t..(s + 1)) = f[s + 1] + SumOver(f, t..s)
<1>1. IsFiniteSet(t..(s + 1)) BY FS_Interval
<1>2. (t..(s + 1)) \ {s + 1} = t..s /\ s + 1 \in t..(s + 1) OBVIOUS
<1> QED BY <1>1, <1>2, SumOverOneMore

(* How many requests passed is a number.                                   *)
LEMMA WindowIsNat ==
    ASSUME Clocks, NEW s \in 0..time, NEW t \in 0..s PROVE SumOver(passed, t..s) \in Nat
<1>0. t \in Int /\ s \in Int /\ t >= 0 /\ s <= MaxTime /\ MaxTime \in Nat
  BY ThrottleAssumption DEF Clocks
<1>1. IsFiniteSet(t..s) /\ t..s \subseteq 0..MaxTime BY <1>0, FS_Interval
<1>2. \A u \in t..s : passed[u] \in Nat BY <1>1 DEF Clocks
<1> QED BY <1>1, <1>2, SumIsNat

(* A product, with one more.                                               *)
LEMMA TimesOneMore ==
    ASSUME NEW p \in Nat, NEW n \in Nat PROVE p * (n + 1) = p * n + p /\ p * n \in Nat
  OBVIOUS

(* Every step keeps the potential and all windows below what a full bucket *)
(* and the time that has passed allow.                                     *)
LEMMA ThrottleStepInv == ThrottleInv /\ [ThrottleNext]_throttleVars => ThrottleInv'
<1> SUFFICES ASSUME ThrottleInv, [ThrottleNext]_throttleVars PROVE ThrottleInv' OBVIOUS
<1>a. Clocks /\ Potential /\ Windows BY DEF ThrottleInv
<1>b. Clocks'
  <2>1. CASE RequestPasses
    <3>1. \A l \in Limits : /\ Refilled[l] - Period[l] \in Nat
                            /\ Refilled[l] - Period[l] <= Full(l)
      BY <1>a, <2>1, BucketHolds, ThrottleAssumption DEF RequestPasses
    <3>2. passed' \in [0..MaxTime -> Nat] /\ \A u \in 0..MaxTime : u > time => passed'[u] = 0
      BY <1>a, <2>1 DEF RequestPasses, Clocks
    <3> QED BY <1>a, <2>1, <3>1, <3>2 DEF RequestPasses, Clocks
  <2>2. CASE RequestThrottled
    BY <1>a, <2>2, RefilledIsFunction, BucketHolds DEF RequestThrottled, Clocks
  <2>3. CASE Tick
    BY <1>a, <2>3, ThrottleAssumption DEF Tick, Clocks
  <2>4. CASE SetBack
    BY <1>a, <2>4, ThrottleAssumption DEF SetBack, Clocks
  <2>5. CASE UNCHANGED throttleVars BY <1>a, <2>5 DEF throttleVars, Clocks
  <2> QED BY <2>1, <2>2, <2>3, <2>4, <2>5 DEF ThrottleNext
<1>c. ASSUME NEW l \in Limits
      PROVE  /\ Refilled'[l] \in Nat /\ Full(l) \in Nat /\ Refilled'[l] <= Full(l)
             /\ Refilled[l] \in Nat /\ Refilled[l] <= Full(l)
             /\ wallClock' < lastUpdate' => Refilled'[l] = tokens'[l]
             /\ wallClock' >= lastUpdate' =>
                Refilled'[l] = Lesser(Full(l), tokens'[l] + wallClock' - lastUpdate')
  <2>1. Clocks /\ l \in Limits =>
            /\ Refilled[l] \in Nat /\ Refilled[l] <= Full(l) /\ Full(l) \in Nat
            /\ wallClock < lastUpdate => Refilled[l] = tokens[l]
            /\ wallClock >= lastUpdate =>
                Refilled[l] = Lesser(Full(l), tokens[l] + wallClock - lastUpdate)
    BY BucketHolds
  <2>2. (Clocks /\ l \in Limits =>
            /\ Refilled[l] \in Nat /\ Refilled[l] <= Full(l) /\ Full(l) \in Nat
            /\ wallClock < lastUpdate => Refilled[l] = tokens[l]
            /\ wallClock >= lastUpdate =>
                Refilled[l] = Lesser(Full(l), tokens[l] + wallClock - lastUpdate))'
    BY BucketHolds, PTL
  <2> QED BY <1>a, <1>b, <2>1, <2>2
<1>d. UNCHANGED <<time, passed>> /\ (\A l \in Limits : Refilled'[l] <= Refilled[l])
          => Potential' /\ Windows'
  <2> SUFFICES ASSUME UNCHANGED <<time, passed>>, \A l \in Limits : Refilled'[l] <= Refilled[l]
               PROVE  Potential' /\ Windows'
    OBVIOUS
  <2>1. Windows' BY <1>a DEF Windows
  <2>2. ASSUME NEW l \in Limits, NEW t \in 0..time
        PROVE  Period[l] * SumOver(passed, t..time) + Refilled'[l] <= Full(l) + (time - t)
    <3>1. Period[l] * SumOver(passed, t..time) + Refilled[l] <= Full(l) + (time - t)
      BY <1>a DEF Potential
    <3>2. time \in 0..time /\ time \in Nat BY <1>a DEF Clocks
    <3>3. SumOver(passed, t..time) \in Nat BY <1>a, <3>2, WindowIsNat
    <3>4. Period[l] * SumOver(passed, t..time) \in Nat BY <3>3, TimesOneMore, ThrottleAssumption
    <3> QED BY <1>c, <3>1, <3>2, <3>4
  <2> QED BY <2>1, <2>2 DEF Potential
<1>1. CASE RequestPasses
  <2>1. time \in Nat /\ time \in 0..time /\ time' = time BY <1>a, <1>1 DEF Clocks, RequestPasses
  <2>2. /\ passed'[time] = passed[time] + 1 /\ passed[time] \in Nat
        /\ \A u \in 0..MaxTime : passed'[u] \in Nat /\ (u # time => passed'[u] = passed[u])
    BY <1>a, <1>1 DEF Clocks, RequestPasses
  <2>3. ASSUME NEW s \in 0..time, NEW t \in 0..s
        PROVE  /\ SumOver(passed', t..s) = SumOver(passed, t..s) + (IF s = time THEN 1 ELSE 0)
               /\ SumOver(passed, t..s) \in Nat
    <3>0. t \in Int /\ s \in Int /\ t >= 0 /\ s <= MaxTime /\ MaxTime \in Nat
      BY <1>a, ThrottleAssumption DEF Clocks
    <3>1. IsFiniteSet(t..s) /\ \A u \in t..s : u \in 0..MaxTime BY <3>0, FS_Interval
    <3>2. SumOver(passed, t..s) \in Nat BY <1>a, WindowIsNat
    <3>3. \A u \in t..s : passed[u] \in Nat BY <1>a, <3>1 DEF Clocks
    <3>4. CASE s # time
      <4>1. \A u \in t..s : passed'[u] = passed[u] BY <2>2, <3>1, <3>4
      <4>2. SumOver(passed, t..s) = SumOver(passed', t..s) BY <3>1, <3>3, <4>1, SumsEqual
      <4> QED BY <3>2, <3>4, <4>2
    <3>5. CASE s = time
      <4>1. time \in t..s BY <3>5
      <4>2. SumOver(passed', t..s) + passed[time] = SumOver(passed, t..s) + passed'[time]
        BY <2>2, <3>1, <3>3, <4>1, SumChanges
      <4>3. SumOver(passed', t..s) \in Nat BY <2>2, <3>1, SumIsNat
      <4> QED BY <2>2, <3>2, <3>5, <4>2, <4>3
    <3> QED BY <3>4, <3>5
  <2>4. ASSUME NEW l \in Limits, NEW t \in 0..time
        PROVE  /\ Period[l] * SumOver(passed', t..time) + Refilled'[l]
                      <= Full(l) + (time - t)
               /\ Period[l] * SumOver(passed', t..time) \in Nat
    <3>4. /\ tokens'[l] = Refilled[l] - Period[l] /\ wallClock' = lastUpdate' /\ wallClock' \in Int
          /\ Period[l] \in Nat /\ Refilled[l] >= Period[l]
      BY <1>1, <1>a, ThrottleAssumption DEF RequestPasses, Clocks
    <3>1. Refilled'[l] = Refilled[l] - Period[l] /\ Period[l] \in Nat
      BY <1>c, <3>4 DEF Lesser
    <3>2. /\ Period[l] * SumOver(passed', t..time) = Period[l] * SumOver(passed, t..time) + Period[l]
          /\ Period[l] * SumOver(passed, t..time) \in Nat
      BY <2>1, <2>3, <3>1, TimesOneMore
    <3>3. Period[l] * SumOver(passed, t..time) + Refilled[l] <= Full(l) + (time - t)
      BY <1>a DEF Potential
    <3> QED BY <1>c, <2>1, <3>1, <3>2, <3>3
  <2>5. Potential' BY <2>1, <2>4 DEF Potential
  <2>6. ASSUME NEW l \in Limits, NEW s \in 0..time, NEW t \in 0..s
        PROVE  Period[l] * SumOver(passed', t..s) <= Full(l) + (s - t)
    <3>1. CASE s = time
      <4>1. t \in 0..time BY <3>1
      <4>2. Period[l] * SumOver(passed', t..time) + Refilled'[l] <= Full(l) + (time - t)
            /\ Period[l] * SumOver(passed', t..time) \in Nat
        BY <2>4, <4>1
      <4>3. Period[l] * SumOver(passed', t..time) <= Full(l) + (time - t) BY <1>c, <2>1, <4>1, <4>2
      <4> QED BY <3>1, <4>3
    <3>2. CASE s # time
      <4>1. SumOver(passed', t..s) = SumOver(passed, t..s) BY <2>3, <3>2
      <4> QED BY <1>a, <4>1 DEF Windows
    <3> QED BY <3>1, <3>2
  <2>7. Windows' BY <2>1, <2>6 DEF Windows
  <2> QED BY <1>b, <2>5, <2>7 DEF ThrottleInv
<1>2. CASE RequestThrottled
  <2>1. \A l \in Limits : Refilled'[l] <= Refilled[l]
    BY <1>2, <1>a, <1>c, ThrottleAssumption DEF RequestThrottled, Clocks, Lesser
  <2> QED BY <1>2, <1>b, <1>d, <2>1 DEF RequestThrottled, ThrottleInv
<1>3. CASE Tick
  <2>1. /\ time \in Nat /\ time' = time + 1 /\ passed' = passed /\ time' \in 0..MaxTime
        /\ passed[time + 1] = 0
    BY <1>3, <1>a, ThrottleAssumption DEF Clocks, Tick
  <2>2. ASSUME NEW t \in 0..time
        PROVE  SumOver(passed, t..(time + 1)) = SumOver(passed, t..time)
               /\ SumOver(passed, t..time) \in Nat
    <3>1. time \in 0..time /\ t..(time + 1) \subseteq 0..MaxTime
      BY <2>1, ThrottleAssumption
    <3>2. SumOver(passed, t..time) \in Nat BY <1>a, <3>1, WindowIsNat
    <3>3. \A u \in t..(time + 1) : passed[u] \in Nat BY <3>1, <1>a DEF Clocks
    <3>4. SumOver(passed, t..(time + 1)) = passed[time + 1] + SumOver(passed, t..time)
      BY <2>1, <3>3, WindowGrows
    <3> QED BY <2>1, <3>2, <3>4
  <2>3. SumOver(passed, (time + 1)..(time + 1)) = 0
    <3>1. time + 1 \in Int BY <2>1
    <3>3. IsFiniteSet((time + 1)..(time + 1)) BY <3>1, FS_Interval
    <3>2. \A u \in (time + 1)..(time + 1) : passed[u] = 0 BY <2>1
    <3> QED BY <3>2, <3>3, SumOfZeros
  <2>4. ASSUME NEW l \in Limits
        PROVE  Refilled'[l] <= Refilled[l] + 1
    <3>1. Full(l) \in Nat /\ tokens[l] \in Nat /\ tokens[l] <= Full(l) /\ tokens' = tokens
      BY <1>a, <1>c, <1>3 DEF Clocks, Tick
    <3>2. /\ wallClock < lastUpdate => Refilled[l] = tokens[l]
          /\ wallClock >= lastUpdate => Refilled[l] = Lesser(Full(l), tokens[l] + wallClock - lastUpdate)
      BY <1>a, BucketHolds
    <3>3. /\ wallClock' < lastUpdate' => Refilled'[l] = tokens'[l]
          /\ wallClock' >= lastUpdate' => Refilled'[l] = Lesser(Full(l), tokens'[l] + wallClock' - lastUpdate')
      BY <1>c
    <3>4. wallClock \in Int /\ lastUpdate \in Int /\ wallClock' = wallClock + 1 /\ lastUpdate' = lastUpdate
      BY <1>a, <1>3 DEF Clocks, Tick
    <3> QED BY <3>1, <3>2, <3>3, <3>4 DEF Lesser
  <2>5. ASSUME NEW l \in Limits, NEW t \in 0..(time + 1)
        PROVE  /\ Period[l] * SumOver(passed, t..(time + 1)) + Refilled'[l]
                      <= Full(l) + ((time + 1) - t)
               /\ Period[l] * SumOver(passed, t..(time + 1)) \in Nat
    <3>1. CASE t = time + 1
      <4>1. Period[l] * 0 = 0 BY ThrottleAssumption
      <4> QED BY <1>c, <2>1, <2>3, <3>1, <4>1
    <3>2. CASE t # time + 1
      <4>1. t \in 0..time BY <2>1, <3>2
      <4>2. Period[l] * SumOver(passed, t..time) + Refilled[l] <= Full(l) + (time - t)
        BY <1>a, <4>1 DEF Potential
      <4>3. Period[l] * SumOver(passed, t..time) \in Nat
        BY <2>2, <4>1, TimesOneMore, ThrottleAssumption
      <4>4. SumOver(passed, t..(time + 1)) = SumOver(passed, t..time) BY <2>2, <4>1
      <4> QED BY <1>c, <2>1, <2>4, <4>1, <4>2, <4>3, <4>4
    <3> QED BY <3>1, <3>2
  <2>6. Potential' BY <2>1, <2>5 DEF Potential
  <2>7. ASSUME NEW l \in Limits, NEW s \in 0..(time + 1), NEW t \in 0..s
        PROVE  Period[l] * SumOver(passed, t..s) <= Full(l) + (s - t)
    <3>1. CASE s = time + 1
      <4>1. t \in 0..(time + 1) BY <3>1
      <4>2. Period[l] * SumOver(passed, t..(time + 1)) + Refilled'[l] <= Full(l) + ((time + 1) - t)
            /\ Period[l] * SumOver(passed, t..(time + 1)) \in Nat
        BY <2>5, <4>1
      <4>3. Period[l] * SumOver(passed, t..(time + 1)) <= Full(l) + ((time + 1) - t)
        BY <1>c, <2>1, <4>1, <4>2
      <4> QED BY <3>1, <4>3
    <3>2. CASE s # time + 1
      <4>1. s \in 0..time BY <2>1, <3>2
      <4> QED BY <1>a, <4>1 DEF Windows
    <3> QED BY <3>1, <3>2
  <2>8. Windows' BY <2>1, <2>7 DEF Windows
  <2> QED BY <1>b, <2>6, <2>8 DEF ThrottleInv
<1>4. CASE SetBack
  <2>1. ASSUME NEW l \in Limits PROVE Refilled'[l] <= Refilled[l]
    <3>1. Full(l) \in Nat /\ tokens[l] \in Nat /\ tokens[l] <= Full(l) /\ tokens' = tokens
      BY <1>a, <1>c, <1>4 DEF Clocks, SetBack
    <3>2. /\ wallClock < lastUpdate => Refilled[l] = tokens[l]
          /\ wallClock >= lastUpdate => Refilled[l] = Lesser(Full(l), tokens[l] + wallClock - lastUpdate)
      BY <1>a, BucketHolds
    <3>3. /\ wallClock' < lastUpdate' => Refilled'[l] = tokens'[l]
          /\ wallClock' >= lastUpdate' => Refilled'[l] = Lesser(Full(l), tokens'[l] + wallClock' - lastUpdate')
      BY <1>c
    <3>4. wallClock \in Int /\ lastUpdate \in Int /\ wallClock' \in Int
          /\ wallClock' < wallClock /\ lastUpdate' = lastUpdate
      BY <1>a, <1>4, ThrottleAssumption DEF Clocks, SetBack
    <3> QED BY <3>1, <3>2, <3>3, <3>4 DEF Lesser
  <2> QED BY <1>4, <1>b, <1>d, <2>1 DEF SetBack, ThrottleInv
<1>5. CASE UNCHANGED throttleVars
  <2>1. \A l \in Limits : Refilled'[l] <= Refilled[l] BY <1>5, <1>c DEF throttleVars, Refilled
  <2> QED BY <1>5, <1>b, <1>d, <2>1 DEF throttleVars, ThrottleInv
<1> QED BY <1>1, <1>2, <1>3, <1>4, <1>5 DEF ThrottleNext

(* The invariant holds of full buckets.                                    *)
LEMMA ThrottleInitially == ThrottleInit => ThrottleInv
<1> SUFFICES ASSUME ThrottleInit PROVE ThrottleInv OBVIOUS
<1> USE ThrottleAssumption
<1>0. \A l \in Limits : Full(l) \in Nat BY DEF Full
<1>1. Clocks BY <1>0 DEF ThrottleInit, Clocks
<1>2. SumOver(passed, 0..0) = 0
  <2>1. IsFiniteSet(0..0)
    <3>1. 0 \in Int OBVIOUS
    <3> QED BY <3>1, FS_Interval
  <2>2. \A u \in 0..0 : passed[u] = 0 BY DEF ThrottleInit
  <2> QED BY <2>1, <2>2, SumOfZeros
<1>3. time = 0 BY DEF ThrottleInit
<1>4. ASSUME NEW l \in Limits
      PROVE  /\ Period[l] * 0 = 0 /\ Refilled[l] \in Nat /\ Refilled[l] <= Full(l)
             /\ Full(l) \in Nat
  BY <1>1, BucketHolds
<1>5. Potential
  <2> SUFFICES ASSUME NEW l \in Limits, NEW t \in 0..0
               PROVE  Period[l] * SumOver(passed, t..0) + Refilled[l] <= Full(l) + (0 - t)
    BY <1>3 DEF Potential
  <2>1. t = 0 OBVIOUS
  <2> QED BY <1>2, <1>4, <2>1
<1>6. Windows
  <2> SUFFICES ASSUME NEW l \in Limits, NEW s \in 0..0, NEW t \in 0..s
               PROVE  Period[l] * SumOver(passed, t..s) <= Full(l) + (s - t)
    BY <1>3 DEF Windows
  <2>1. t = 0 /\ s = 0 OBVIOUS
  <2> QED BY <1>2, <1>4, <2>1
<1> QED BY <1>1, <1>5, <1>6 DEF ThrottleInv

(* What fits into p times c and one more p is not more than c + 1.         *)
LEMMA FitsTimes ==
    ASSUME NEW p \in Nat \ {0}, NEW n \in Nat, NEW c \in Nat, p * n <= p * (c + 1)
    PROVE  n <= c + 1
<1> SUFFICES ASSUME n >= c + 2 PROVE FALSE OBVIOUS
<1>1. PICK d \in Nat : n = (c + 1) + (d + 1) 
  <2>1. n = (c + 1) + ((n - c - 2) + 1) /\ n - c - 2 \in Nat OBVIOUS
  <2> QED BY <2>1
<1>2. p * n = p * (c + 1) + p * (d + 1) BY <1>1
<1>3. p * (d + 1) = p * d + p /\ p * d \in Nat BY TimesOneMore
<1>4. p * (c + 1) \in Nat OBVIOUS
<1> QED BY <1>2, <1>3, <1>4

(* A window of one period has room for a full bucket and one more token.   *)
LEMMA ThrottleInvLimits == ThrottleInv => RateIsLimited
<1> SUFFICES ASSUME ThrottleInv, NEW l \in Limits, NEW t \in 0..time
             PROVE  SumOver(passed, t..Lesser(time, t + Period[l])) <= Cap[l] + 1
  BY DEF RateIsLimited
<1> DEFINE s == Lesser(time, t + Period[l])
<1>1. Clocks /\ Windows BY DEF ThrottleInv
<1>2. time \in Nat /\ Period[l] \in Nat \ {0} /\ Cap[l] \in Nat BY <1>1, ThrottleAssumption DEF Clocks
<1>3. s \in 0..time /\ t \in 0..s /\ s - t <= Period[l] BY <1>2 DEF Lesser
<1> HIDE DEF s
<1>4. Period[l] * SumOver(passed, t..s) <= Full(l) + (s - t) BY <1>1, <1>3 DEF Windows
<1>5. SumOver(passed, t..s) \in Nat BY <1>1, <1>3, WindowIsNat
<1>6. Period[l] * (Cap[l] + 1) = Full(l) + Period[l] /\ Full(l) \in Nat
  BY <1>2 DEF Full
<1>7. Period[l] * SumOver(passed, t..s) \in Nat BY <1>2, <1>5, TimesOneMore
<1>8. Period[l] * SumOver(passed, t..s) <= Period[l] * (Cap[l] + 1)
  BY <1>2, <1>3, <1>4, <1>6, <1>7
<1> QED BY <1>2, <1>5, <1>8, FitsTimes DEF s

(* RateIsLimited holds for every number of buckets, whatever they hold and *)
(* however long their periods are, for as long as the wallet runs.         *)
THEOREM RequestsAreLimited == ThrottleSpec => []RateIsLimited
  BY ThrottleInitially, ThrottleStepInv, ThrottleInvLimits, PTL DEF ThrottleSpec
-----------------------------------------------------------------------------
(* Withdrawals.  First, what is needed of a recursion over sets of coins   *)
(* or denominations: an order has a first element, and what holds of a set *)
(* if it holds without any of its elements holds of all sets.              *)
LEMMA FirstExists ==
    ASSUME NEW D, IsFiniteSet(D), NEW order,
           \A i, j \in D : i # j => <<i, j>> \in order \/ <<j, i>> \in order,
           \A i, j, k \in D : <<i, j>> \in order /\ <<j, k>> \in order => <<i, k>> \in order
    PROVE  \A s \in SUBSET D : s # {} => \E i \in s : \A j \in s \ {i} : <<i, j>> \in order
<1> DEFINE P == {s \in SUBSET D : s # {} => \E i \in s : \A j \in s \ {i} : <<i, j>> \in order}
<1>1. {} \in P OBVIOUS
<1>2. ASSUME NEW s \in SUBSET D, NEW x \in D \ s, s \in P PROVE s \cup {x} \in P
  <2>1. CASE s = {} BY <2>1
  <2>2. CASE s # {}
    <3>1. PICK i \in s : \A j \in s \ {i} : <<i, j>> \in order BY <1>2, <2>2
    <3>2. CASE <<i, x>> \in order
      <4>1. \A j \in (s \cup {x}) \ {i} : <<i, j>> \in order BY <3>1, <3>2
      <4> QED BY <4>1
    <3>3. CASE <<x, i>> \in order
      <4>1. \A j \in (s \cup {x}) \ {x} : <<x, j>> \in order BY <3>1, <3>3
      <4> QED BY <4>1
    <3> QED BY <3>2, <3>3
  <2> QED BY <2>1, <2>2
<1> HIDE DEF P
<1>3. SUBSET D \subseteq P BY <1>1, <1>2, SetOfSetsInduction
<1> QED BY <1>3 DEF P

(* Induction over a finite set, with all sets that lack one element.       *)
LEMMA SmallerSetsInduction ==
    ASSUME NEW D, IsFiniteSet(D), NEW P, {} \in P,
           \A s \in SUBSET D : s # {} /\ (\A x \in s : s \ {x} \in P) => s \in P
    PROVE  SUBSET D \subseteq P
<1> DEFINE Q == {n \in Nat : \A s \in SUBSET D : Cardinality(s) = n => s \in P}
<1>1. 0 \in Q BY Smaller
<1>2. ASSUME NEW n \in Nat, n \in Q PROVE n + 1 \in Q
  <2>1. ASSUME NEW s \in SUBSET D, Cardinality(s) = n + 1 PROVE s \in P
    <3>1. s # {} BY <2>1, Smaller
    <3>2. \A x \in s : s \ {x} \in SUBSET D /\ Cardinality(s \ {x}) = n BY <2>1, Smaller
    <3>3. \A x \in s : s \ {x} \in P BY <1>2, <3>2
    <3> QED BY <3>1, <3>3
  <2> QED BY <2>1
<1> HIDE DEF Q
<1>3. Nat \subseteq Q BY <1>1, <1>2, SetOfNumbersInduction
<1> USE DEF Q
<1> QED BY <1>3, Smaller

(* Arithmetic: a quotient, and what times something else is.               *)
LEMMA Quotient ==
    ASSUME NEW b \in Nat, NEW c \in Nat \ {0}
    PROVE  /\ b \div c \in Nat /\ (b \div c) * c \in Nat
           /\ (b \div c) * c <= b /\ b < (b \div c) * c + c
           /\ b - (b \div c) * c \in Nat /\ b - (b \div c) * c < c
  OBVIOUS

(* A quotient is known by its bounds.                                      *)
LEMMA QuotientIs ==
    ASSUME NEW b \in Nat, NEW c \in Nat \ {0}, NEW q \in Nat, q * c <= b, b < q * c + c
    PROVE  b \div c = q
  OBVIOUS

(* A larger number makes a larger product.                                 *)
LEMMA ProductGrows ==
    ASSUME NEW m \in Nat, NEW n \in Nat, NEW c \in Nat, m <= n PROVE m * c <= n * c
<1>1. n * c = m * c + (n - m) * c /\ m * c \in Nat /\ (n - m) * c \in Nat
  <2>1. n - m \in Nat /\ n = m + (n - m) OBVIOUS
  <2>2. \A d \in Nat : (m + d) * c = m * c + d * c /\ d * c \in Nat /\ m * c \in Nat OBVIOUS
  <2> QED BY <2>1, <2>2
<1> QED BY <1>1

(* A product is a natural.                                                 *)
LEMMA ProductIsNat == ASSUME NEW m \in Nat, NEW n \in Nat PROVE m * n \in Nat OBVIOUS

(* A smaller product has the smaller number.                               *)
LEMMA ProductIsLess ==
    ASSUME NEW m \in Nat, NEW n \in Nat, NEW c \in Nat, m * c < n * c PROVE m < n /\ m + 1 <= n
<1> SUFFICES ASSUME n <= m PROVE FALSE OBVIOUS
<1> QED BY ProductGrows, ProductIsNat

(* What a choice is worth that takes of the largest as much as fits, then  *)
(* goes on with the rest; all fees are f.                                  *)
TakesFirst(G, S, v, f, i) ==
    /\ i \in S /\ \A j \in S : v[j] <= v[i]
    /\ \A b \in Nat :
          G[S][b] = (b \div (v[i] + f)) * v[i] + G[S \ {i}][b - (b \div (v[i] + f)) * (v[i] + f)]
IsGreedy(G, D, v, f) ==
    \A S \in SUBSET D : /\ S = {} => \A b \in Nat : G[S][b] = 0
                        /\ S # {} => \E i \in S : TakesFirst(G, S, v, f, i)
Greedy(G, D, v, f) ==
    /\ IsFiniteSet(D) /\ v \in [D -> Nat \ {0}] /\ f \in Nat
    /\ \A S \in SUBSET D, b \in Nat : G[S][b] \in Nat
    /\ \A i, j \in D : v[i] <= v[j] => \E m \in Nat \ {0} : v[j] = m * v[i]
    /\ IsGreedy(G, D, v, f)

(* A coin that does not fit is worth more than what is taken instead.      *)
LEMMA NoMoreThanTheNext ==
    ASSUME NEW G, NEW D, NEW v, NEW f, Greedy(G, D, v, f)
    PROVE  \A S \in SUBSET D : \A k \in D : (\A j \in S : v[j] <= v[k]) =>
               \A b \in Nat : b < v[k] + f => G[S][b] <= v[k]
<1> USE DEF Greedy
<1> DEFINE P == {S \in SUBSET D : \A k \in D : (\A j \in S : v[j] <= v[k]) =>
                                     \A b \in Nat : b < v[k] + f => G[S][b] <= v[k]}
<1>1. {} \in P BY DEF IsGreedy
<1>2. ASSUME NEW S \in SUBSET D, S # {}, \A x \in S : S \ {x} \in P PROVE S \in P
  <2> SUFFICES ASSUME NEW k \in D, \A j \in S : v[j] <= v[k], NEW b \in Nat, b < v[k] + f
               PROVE  G[S][b] <= v[k]
    OBVIOUS
  <2>1. PICK i \in S : TakesFirst(G, S, v, f, i) BY <1>2 DEF IsGreedy
  <2>2. v[i] \in Nat \ {0} /\ v[k] \in Nat /\ i \in D OBVIOUS
  <2>3. PICK m \in Nat \ {0} : v[k] = m * v[i] BY <2>2
  <2> DEFINE c == v[i] + f
             q == b \div c
             rest == b - q * c
  <2>4. c \in Nat \ {0} BY <2>2
  <2>5. q \in Nat /\ q * c <= b /\ rest \in Nat /\ rest < c BY <2>4, Quotient
  <2>6. G[S][b] = q * v[i] + G[S \ {i}][rest] BY <2>1 DEF TakesFirst
  <2>7. \A j \in S \ {i} : v[j] <= v[i] BY <2>1 DEF TakesFirst
  <2>8. c = v[i] + f OBVIOUS
  <2> HIDE DEF c, q, rest
  <2>9. G[S \ {i}][rest] <= v[i] /\ G[S \ {i}][rest] \in Nat
    <3>1. S \ {i} \in P BY <1>2
    <3> QED BY <2>2, <2>5, <2>7, <2>8, <3>1
  <2>10. q + 1 <= m
    <3>1. m * c = m * v[i] + m * f BY <2>2, <2>8
    <3>2. 1 * f <= m * f /\ 1 * f = f /\ m * f \in Nat BY ProductGrows, ProductIsNat
    <3>3. q * c \in Nat /\ m * c \in Nat BY <2>4, <2>5, ProductIsNat
    <3>4. m * v[i] \in Nat BY <2>2, ProductIsNat
    <3>5. q * c < m * c BY <2>3, <2>5, <3>1, <3>2, <3>3, <3>4
    <3> QED BY <2>4, <2>5, <3>5, ProductIsLess
  <2>11. (q + 1) * v[i] = q * v[i] + v[i] /\ q * v[i] \in Nat BY <2>2, <2>5
  <2>12. (q + 1) * v[i] <= v[k]
    <3>1. q + 1 \in Nat BY <2>5
    <3>2. (q + 1) * v[i] <= m * v[i] BY <2>2, <2>10, <3>1, ProductGrows
    <3> QED BY <2>3, <3>2
  <2> QED BY <2>2, <2>6, <2>9, <2>11, <2>12
<1> HIDE DEF P
<1>3. SUBSET D \subseteq P BY <1>1, <1>2, SmallerSetsInduction
<1> QED BY <1>3 DEF P

(* With m coins of the first less to pay, m of them less are taken.        *)
LEMMA TakesFewer ==
    ASSUME NEW G, NEW D, NEW v, NEW f, Greedy(G, D, v, f), NEW S \in SUBSET D,
           NEW i \in S, TakesFirst(G, S, v, f, i), NEW m \in Nat, NEW b \in Nat,
           m * (v[i] + f) <= b
    PROVE  /\ b - m * (v[i] + f) \in Nat
           /\ G[S][b] = m * v[i] + G[S][b - m * (v[i] + f)]
<1> USE DEF Greedy
<1> DEFINE c == v[i] + f
           a == b - m * c
           q == a \div c
<1>1. v[i] \in Nat \ {0} /\ c \in Nat \ {0} OBVIOUS
<1>2. m * c \in Nat /\ a \in Nat BY <1>1, ProductIsNat
<1>3. q \in Nat /\ q * c \in Nat /\ q * c <= a /\ a < q * c + c /\ a - q * c \in Nat
  BY <1>1, <1>2, Quotient
<1>4. (q + m) * c = q * c + m * c BY <1>1, <1>3
<1> HIDE DEF q
<1>5. q + m \in Nat /\ (q + m) * c <= b /\ b < (q + m) * c + c BY <1>1, <1>2, <1>3, <1>4
<1> HIDE DEF c
<1>6. b \div c = q + m BY <1>1, <1>5, QuotientIs
<1>7. b - (b \div c) * c = a - q * c BY <1>2, <1>3, <1>4, <1>6
<1>8. G[S][b] = (b \div c) * v[i] + G[S \ {i}][b - (b \div c) * c] BY DEF TakesFirst, c
<1>9. G[S][a] = q * v[i] + G[S \ {i}][a - q * c]
  <2> HIDE DEF a
  <2> QED BY <1>2 DEF TakesFirst, c, q
<1>10. (q + m) * v[i] = q * v[i] + m * v[i] /\ q * v[i] \in Nat /\ m * v[i] \in Nat BY <1>1, <1>3
<1>11. G[S \ {i}][a - q * c] \in Nat BY <1>3
<1>12. G[S][b] = m * v[i] + G[S][a] BY <1>6, <1>7, <1>8, <1>9, <1>10, <1>11
<1> QED BY <1>2, <1>12 DEF c

(* A larger amount is not worth less.                                      *)
LEMMA MoreGivesMore ==
    ASSUME NEW G, NEW D, NEW v, NEW f, Greedy(G, D, v, f)
    PROVE  \A S \in SUBSET D : \A a \in Nat, b \in Nat : a <= b => G[S][a] <= G[S][b]
<1> USE DEF Greedy
<1> DEFINE P == {S \in SUBSET D : \A a \in Nat, b \in Nat : a <= b => G[S][a] <= G[S][b]}
<1>1. {} \in P BY DEF IsGreedy
<1>2. ASSUME NEW S \in SUBSET D, S # {}, \A x \in S : S \ {x} \in P PROVE S \in P
  <2> SUFFICES ASSUME NEW a \in Nat, NEW b \in Nat, a <= b PROVE G[S][a] <= G[S][b] OBVIOUS
  <2>1. PICK i \in S : TakesFirst(G, S, v, f, i) BY <1>2 DEF IsGreedy
  <2>2. v[i] \in Nat \ {0} /\ i \in D OBVIOUS
  <2> DEFINE c == v[i] + f
             p == a \div c
             q == b \div c
             T == S \ {i}
  <2>3. c \in Nat \ {0} BY <2>2
  <2>4. /\ p \in Nat /\ p * c \in Nat /\ p * c <= a /\ a - p * c \in Nat /\ a - p * c < c
        /\ q \in Nat /\ q * c \in Nat /\ q * c <= b /\ b < q * c + c /\ b - q * c \in Nat
    BY <2>3, Quotient
  <2>5. G[S][a] = p * v[i] + G[T][a - p * c] /\ G[S][b] = q * v[i] + G[T][b - q * c]
    BY <2>1 DEF TakesFirst
  <2>6. T \in SUBSET D /\ T \in P /\ \A j \in T : v[j] <= v[i] BY <1>2, <2>1 DEF TakesFirst
  <2>7. c = v[i] + f OBVIOUS
  <2> HIDE DEF c, p, q, T
  <2>8. G[T][a - p * c] \in Nat /\ G[T][b - q * c] \in Nat BY <2>4, <2>6
  <2>9. p <= q
    <3>1. (q + 1) * c = q * c + c BY <2>3, <2>4
    <3>2. p * c < (q + 1) * c BY <2>3, <2>4, <3>1
    <3>3. q + 1 \in Nat BY <2>4
    <3>4. p < q + 1 BY <2>3, <2>4, <3>2, <3>3, ProductIsLess
    <3> QED BY <2>4, <3>4
  <2>10. CASE p = q
    <3>1. a - p * c <= b - q * c BY <2>4, <2>10
    <3>2. G[T][a - p * c] <= G[T][b - q * c] BY <2>4, <2>6, <3>1
    <3>3. p * v[i] \in Nat BY <2>2, <2>4, ProductIsNat
    <3> QED BY <2>5, <2>8, <2>10, <3>2, <3>3
  <2>11. CASE p < q
    <3>1. G[T][a - p * c] <= v[i] BY <2>2, <2>4, <2>6, <2>7, NoMoreThanTheNext
    <3>2. (p + 1) * v[i] = p * v[i] + v[i] /\ p * v[i] \in Nat /\ q * v[i] \in Nat
      BY <2>2, <2>4
    <3>3. (p + 1) * v[i] <= q * v[i]
      <4>1. p + 1 \in Nat /\ p + 1 <= q BY <2>4, <2>11
      <4> QED BY <2>2, <2>4, <4>1, ProductGrows
    <3> QED BY <2>2, <2>5, <2>8, <3>1, <3>2, <3>3
  <2> QED BY <2>4, <2>9, <2>10, <2>11
<1> HIDE DEF P
<1>3. SUBSET D \subseteq P BY <1>1, <1>2, SmallerSetsInduction
<1> QED BY <1>3 DEF P

(* Without its first, a set of denominations is not worth more.            *)
LEMMA TheFirstHelps ==
    ASSUME NEW G, NEW D, NEW v, NEW f, Greedy(G, D, v, f), NEW S \in SUBSET D,
           NEW i \in S, TakesFirst(G, S, v, f, i)
    PROVE  \A b \in Nat : G[S \ {i}][b] <= G[S][b]
<1> USE DEF Greedy
<1> DEFINE T == S \ {i}
           c == v[i] + f
           Q == {n \in Nat : \A b \in 0..n : G[T][b] <= G[S][b]}
<1>1. v[i] \in Nat \ {0} /\ c \in Nat \ {0} /\ i \in D OBVIOUS
<1>2. T \in SUBSET D /\ \A j \in T : v[j] <= v[i] BY DEF TakesFirst
<1>3. \A b \in Nat : G[T][b] \in Nat /\ G[S][b] \in Nat BY <1>2
<1>4. ASSUME NEW b \in Nat, b < c PROVE G[T][b] <= G[S][b]
  <2>0. 0 * c = 0 /\ 0 \in Nat /\ c \in Nat BY <1>1
  <2>4. 0 * c <= b /\ b < 0 * c + c BY <1>1, <1>4, <2>0
  <2> HIDE DEF c
  <2>1. b \div c = 0 BY <1>1, <2>0, <2>4, QuotientIs
  <2> USE DEF c
  <2>2. G[S][b] = 0 * v[i] + G[T][b - 0 * c] BY <2>1 DEF TakesFirst
  <2>3. 0 * v[i] = 0 /\ b - 0 * c = b BY <1>1
  <2> QED BY <1>3, <2>2, <2>3
<1>5. ASSUME NEW b \in Nat, c <= b, G[T][b - c] <= G[S][b - c]
      PROVE  G[T][b] <= G[S][b]
  <2>1. b - c \in Nat BY <1>1, <1>5
  <2>2. G[S][b] = v[i] + G[S][b - c]
    <3>1. 1 * (v[i] + f) = c /\ 1 * v[i] = v[i] BY <1>1
    <3>2. 1 * (v[i] + f) <= b BY <1>5, <3>1
    <3>3. G[S][b] = 1 * v[i] + G[S][b - 1 * (v[i] + f)] BY <3>2, TakesFewer
    <3> QED BY <3>1, <3>3
  <2>3. CASE T = {}
    <3>1. G[T][b] = 0 BY <1>2, <2>3 DEF IsGreedy
    <3> QED BY <1>3, <3>1
  <2>4. CASE T # {}
    <3>1. PICK j \in T : TakesFirst(G, T, v, f, j) BY <1>2, <2>4 DEF IsGreedy
    <3>2. v[j] \in Nat \ {0} /\ j \in D /\ v[j] <= v[i] BY <1>2
    <3>3. PICK m \in Nat \ {0} : v[i] = m * v[j] BY <1>1, <3>2
    <3> DEFINE d == v[j] + f
    <3>4. d \in Nat \ {0} BY <3>2
    <3>5. m * d \in Nat /\ c <= m * d
      <4>1. m * d = m * v[j] + m * f BY <3>2
      <4>2. 1 * f <= m * f /\ 1 * f = f /\ m * f \in Nat BY ProductGrows, ProductIsNat
      <4>3. m * v[j] \in Nat BY <3>2, ProductIsNat
      <4> HIDE DEF d
      <4> QED BY <3>3, <4>1, <4>2, <4>3
    <3> HIDE DEF c
    <3>6. CASE m * d <= b
      <4>1. b - m * d \in Nat /\ G[T][b] = m * v[j] + G[T][b - m * d]
        BY <1>2, <3>1, <3>6, TakesFewer
      <4> HIDE DEF d
      <4>2. b - m * d <= b - c BY <1>1, <3>5
      <4>3. G[T][b - m * d] <= G[T][b - c] BY <1>2, <2>1, <4>1, <4>2, MoreGivesMore
      <4>4. G[T][b - m * d] \in Nat /\ G[T][b - c] \in Nat /\ G[S][b - c] \in Nat
        BY <1>3, <2>1, <4>1
      <4> QED BY <1>1, <1>5, <2>2, <3>3, <4>1, <4>3, <4>4
    <3>7. CASE b < m * d
      <4> DEFINE q == b \div d
      <4>1. q \in Nat /\ q * d \in Nat /\ q * d <= b /\ b - q * d \in Nat /\ b - q * d < d
        BY <3>4, Quotient
      <4>2. G[T][b] = q * v[j] + G[T \ {j}][b - q * d] BY <3>1 DEF TakesFirst
      <4>3. \A k \in T \ {j} : v[k] <= v[j] BY <3>1 DEF TakesFirst
      <4>4. T \ {j} \in SUBSET D BY <1>2
      <4>5. d = v[j] + f OBVIOUS
      <4> HIDE DEF q, d
      <4>6. G[T \ {j}][b - q * d] <= v[j] /\ G[T \ {j}][b - q * d] \in Nat
        BY <3>2, <4>1, <4>3, <4>4, <4>5, NoMoreThanTheNext
      <4>7. q * d < m * d BY <3>5, <3>7, <4>1
      <4>8. q + 1 \in Nat /\ q + 1 <= m BY <3>4, <4>1, <4>7, ProductIsLess
      <4>9. (q + 1) * v[j] <= m * v[j] BY <3>2, <4>8, ProductGrows
      <4>10. (q + 1) * v[j] = q * v[j] + v[j] /\ q * v[j] \in Nat BY <3>2, <4>1
      <4>11. G[T][b] <= v[i] BY <1>1, <3>2, <3>3, <4>2, <4>6, <4>9, <4>10
      <4> QED BY <1>1, <1>3, <2>1, <2>2, <4>11
    <3> QED BY <3>5, <3>6, <3>7
  <2> QED BY <2>3, <2>4
<1> HIDE DEF c, T
<1>6. 0 \in Q BY <1>1, <1>4
<1>7. ASSUME NEW n \in Nat, n \in Q PROVE n + 1 \in Q
  <2>1. G[T][n + 1] <= G[S][n + 1]
    <3>1. CASE n + 1 < c BY <1>4, <3>1
    <3>2. CASE c <= n + 1
      <4>1. (n + 1) - c \in 0..n BY <1>1, <3>2
      <4>2. G[T][(n + 1) - c] <= G[S][(n + 1) - c] BY <1>7, <4>1
      <4> QED BY <1>5, <3>2, <4>2
    <3> QED BY <1>1, <3>1, <3>2
  <2>2. \A b \in 0..(n + 1) : b \in 0..n \/ b = n + 1 OBVIOUS
  <2> QED BY <1>7, <2>1, <2>2
<1> HIDE DEF Q
<1>8. Nat \subseteq Q BY <1>6, <1>7, SetOfNumbersInduction
<1>9. \A n \in Nat : \A b \in 0..n : G[T][b] <= G[S][b] BY <1>8 DEF Q
<1>10. \A n \in Nat : n \in 0..n OBVIOUS
<1> QED BY <1>9, <1>10 DEF T

(* What counts[i] coins of each denomination are worth, and their fees.    *)
Worths(counts, v) == [i \in DOMAIN counts |-> counts[i] * v[i]]
Charges(counts, f) == [i \in DOMAIN counts |-> counts[i] * f]

(* No counts of coins that the amount covers, of any set of denominations, *)
(* are worth more than what the greedy choice gives.                       *)
LEMMA GreedyIsBest ==
    ASSUME NEW G, NEW D, NEW v, NEW f, Greedy(G, D, v, f), NEW counts \in [D -> Nat]
    PROVE  \A S \in SUBSET D : \A b \in Nat :
               SumOver(Worths(counts, v), S) + SumOver(Charges(counts, f), S) <= b
               => SumOver(Worths(counts, v), S) <= G[S][b]
<1> USE DEF Greedy
<1> DEFINE W == Worths(counts, v)
           C == Charges(counts, f)
           P == {S \in SUBSET D : \A b \in Nat :
                    SumOver(W, S) + SumOver(C, S) <= b => SumOver(W, S) <= G[S][b]}
<1>1. \A i \in D : /\ W[i] = counts[i] * v[i] /\ C[i] = counts[i] * f
                   /\ W[i] \in Nat /\ C[i] \in Nat
  BY ProductIsNat DEF Worths, Charges
<1> HIDE DEF W, C
<1>2. \A S \in SUBSET D : SumOver(W, S) \in Nat /\ SumOver(C, S) \in Nat
  BY <1>1, FS_Subset, SumIsNat
<1>3. {} \in P BY SumOverNothing
<1>4. ASSUME NEW S \in SUBSET D, S # {}, \A x \in S : S \ {x} \in P PROVE S \in P
  <2> SUFFICES ASSUME NEW b \in Nat, SumOver(W, S) + SumOver(C, S) <= b
               PROVE  SumOver(W, S) <= G[S][b]
    OBVIOUS
  <2>1. PICK i \in S : TakesFirst(G, S, v, f, i) BY <1>4 DEF IsGreedy
  <2>2. v[i] \in Nat \ {0} /\ i \in D /\ counts[i] \in Nat OBVIOUS
  <2> DEFINE T == S \ {i}
             x == counts[i]
             c == v[i] + f
  <2>3. IsFiniteSet(S) BY FS_Subset
  <2>4. /\ SumOver(W, S) = x * v[i] + SumOver(W, T) /\ SumOver(C, S) = x * f + SumOver(C, T)
        /\ SumOver(W, T) \in Nat /\ SumOver(C, T) \in Nat
    BY <1>1, <1>2, <2>3, SumOverOneMore
  <2>5. x * c = x * v[i] + x * f /\ x * v[i] \in Nat /\ x * f \in Nat /\ x * c \in Nat BY <2>2
  <2> HIDE DEF c, x, T
  <2>6. x * c <= b BY <2>4, <2>5
  <2>7. b - x * c \in Nat /\ G[S][b] = x * v[i] + G[S][b - x * c]
    BY <2>1, <2>2, <2>6, TakesFewer DEF c, x
  <2>8. SumOver(W, T) + SumOver(C, T) <= b - x * c BY <2>4, <2>5
  <2>9. SumOver(W, T) <= G[T][b - x * c] BY <1>4, <2>7, <2>8 DEF T
  <2>10. G[T][b - x * c] <= G[S][b - x * c] BY <2>1, <2>7, TheFirstHelps DEF T
  <2>11. G[T][b - x * c] \in Nat /\ G[S][b - x * c] \in Nat BY <2>7 DEF T
  <2> QED BY <2>4, <2>5, <2>7, <2>9, <2>10, <2>11
<1> HIDE DEF P
<1>5. SUBSET D \subseteq P BY <1>3, <1>4, SmallerSetsInduction
<1> QED BY <1>5 DEF P, W, C

(* What the recursion of selectWithdrawalDenominations computes.           *)
DenomsOK(r) ==
    /\ IsFiniteSet(DOMAIN r.denoms) /\ DOMAIN r.denoms \subseteq Nat
    /\ \A i \in DOMAIN r.denoms : r.denoms[i].value \in Nat \ {0} /\ r.denoms[i].fee \in Nat

(* The indices of a list are finitely many.                                *)
LEMMA UpToIsFinite == ASSUME NEW n \in Nat PROVE IsFiniteSet(1..n)
<1>1. 1 \in Int /\ n \in Int OBVIOUS
<1> QED BY <1>1, FS_Interval

(* What the elements of a list are.                                        *)
LEMMA InSequence ==
    ASSUME NEW X, NEW s \in Seq(X)
    PROVE  DOMAIN s = 1..Len(s) /\ IsFiniteSet(DOMAIN s) /\ \A i \in DOMAIN s : i \in Nat /\ s[i] \in X
<1>1. DOMAIN s = 1..Len(s) /\ Len(s) \in Nat /\ \A i \in 1..Len(s) : s[i] \in X OBVIOUS
<1> QED BY <1>1, UpToIsFinite

(* Types of what is asked of selectWithdrawalDenominations.                *)
LEMMA RequestIsTyped ==
    ASSUME NEW r \in WithdrawRequests PROVE DenomsOK(r) /\ r.amount \in Nat
<1>1. r.denoms \in Seq([value : Nat \ {0}, fee : Nat]) /\ r.amount \in Nat
  BY SelectionAssumption
<1> DEFINE denoms == r.denoms
<1> HIDE DEF denoms
<1>2. denoms \in Seq([value : Nat \ {0}, fee : Nat]) BY <1>1 DEF denoms
<1>3. /\ IsFiniteSet(DOMAIN denoms)
      /\ \A i \in DOMAIN denoms : i \in Nat /\ denoms[i] \in [value : Nat \ {0}, fee : Nat]
  BY <1>2, InSequence
<1> QED BY <1>1, <1>3 DEF DenomsOK, denoms

(* A set of denominations has a largest one.                               *)
LEMMA LargestExists ==
    ASSUME NEW r, DenomsOK(r)
    PROVE  \A S \in SUBSET DOMAIN r.denoms : S # {} =>
               /\ LargestOf(r, S) \in S
               /\ \A j \in S : r.denoms[j].value <= r.denoms[LargestOf(r, S)].value
<1> DEFINE D == DOMAIN r.denoms
           order == {p \in D \X D : LargerFirst(r, p[1], p[2])}
<1>1. \A i, j \in D : <<i, j>> \in order <=> LargerFirst(r, i, j) OBVIOUS
<1>2. \A i, j \in D : i # j => LargerFirst(r, i, j) \/ LargerFirst(r, j, i)
  BY DEF DenomsOK, LargerFirst
<1>3. \A i, j, k \in D : LargerFirst(r, i, j) /\ LargerFirst(r, j, k) => LargerFirst(r, i, k)
  BY DEF DenomsOK, LargerFirst
<1>4. IsFiniteSet(D) BY DEF DenomsOK
<1> HIDE DEF order
<1> SUFFICES ASSUME NEW S \in SUBSET D, S # {}
             PROVE  /\ LargestOf(r, S) \in S
                    /\ \A j \in S : r.denoms[j].value <= r.denoms[LargestOf(r, S)].value
  OBVIOUS
<1>5. \E i \in S : \A j \in S \ {i} : <<i, j>> \in order
  BY <1>1, <1>2, <1>3, <1>4, FirstExists
<1>6. \E i \in S : \A j \in S \ {i} : LargerFirst(r, i, j) BY <1>1, <1>5
<1>7. LargestOf(r, S) \in S /\ \A j \in S \ {LargestOf(r, S)} : LargerFirst(r, LargestOf(r, S), j)
  BY <1>6 DEF LargestOf
<1>8. ASSUME NEW j \in S PROVE r.denoms[j].value <= r.denoms[LargestOf(r, S)].value
  <2>1. CASE j = LargestOf(r, S) BY <2>1 DEF DenomsOK
  <2>2. CASE j # LargestOf(r, S) BY <1>7, <2>2 DEF DenomsOK, LargerFirst
  <2> QED BY <2>1, <2>2
<1> QED BY <1>7, <1>8

Offers == [Nat -> [totalCoinValue : Nat, totalWithdrawCost : Nat]]

(* One round gives a value and a cost for every amount.                    *)
LEMMA AsManyAsFitOffers ==
    ASSUME NEW r, DenomsOK(r), NEW rest \in Offers, NEW i \in DOMAIN r.denoms
    PROVE  AsManyAsFit(r, rest, i) \in Offers
<1> DEFINE v == r.denoms[i].value
           c == r.denoms[i].value + r.denoms[i].fee
<1>1. v \in Nat \ {0} /\ c \in Nat \ {0} BY DEF DenomsOK
<1> SUFFICES ASSUME NEW b \in Nat
             PROVE  [totalCoinValue |->
                        (b \div c) * v + rest[b - (b \div c) * c].totalCoinValue,
                     totalWithdrawCost |->
                        (b \div c) * c + rest[b - (b \div c) * c].totalWithdrawCost]
                    \in [totalCoinValue : Nat, totalWithdrawCost : Nat]
  BY DEF AsManyAsFit, Offers
<1>2. b \div c \in Nat /\ (b \div c) * c \in Nat /\ b - (b \div c) * c \in Nat BY <1>1, Quotient
<1>3. (b \div c) * v \in Nat BY <1>1, <1>2, ProductIsNat
<1>4. rest[b - (b \div c) * c] \in [totalCoinValue : Nat, totalWithdrawCost : Nat]
  BY <1>2 DEF Offers
<1> HIDE DEF c, v
<1> QED BY <1>2, <1>3, <1>4

(* The value of one round.                                                 *)
LEMMA AsManyAsFitOf ==
    ASSUME NEW r, NEW rest, NEW i, NEW b \in Nat
    PROVE  LET c == r.denoms[i].value + r.denoms[i].fee
           IN  AsManyAsFit(r, rest, i)[b].totalCoinValue
                   = (b \div c) * r.denoms[i].value + rest[b - (b \div c) * c].totalCoinValue
  BY DEF AsManyAsFit

IsGiving(g, r) ==
    g = [S \in SUBSET DOMAIN r.denoms |->
            IF S = {} THEN NoDenoms
            ELSE AsManyAsFit(r, g[S \ {LargestOf(r, S)}], LargestOf(r, S))]

(* The recursion of Gives has a solution.                                  *)
LEMMA GivingExists ==
    ASSUME NEW r, DenomsOK(r)
    PROVE  \E g \in [SUBSET DOMAIN r.denoms -> Offers] : IsGiving(g, r)
<1> DEFINE D == DOMAIN r.denoms
           pick == [S \in SUBSET D |-> LargestOf(r, S)]
           step == [p \in Offers \X D |-> AsManyAsFit(r, p[1], p[2])]
<1>1. step \in [Offers \X D -> Offers] BY AsManyAsFitOffers
<1>2. NoDenoms \in Offers BY DEF NoDenoms, Offers
<1>3. \A S \in SUBSET D : pick[S] = LargestOf(r, S) OBVIOUS
<1>4. \A S \in SUBSET D : S # {} => pick[S] \in S BY <1>3, LargestExists
<1>5. \A o \in Offers, i \in D : step[o, i] = AsManyAsFit(r, o, i) OBVIOUS
<1>6. IsFiniteSet(D) BY DEF DenomsOK
<1> HIDE DEF pick, step
<1>7. PICK g \in [SUBSET D -> Offers] : IsWalk(g, D, NoDenoms, pick, step)
  BY <1>1, <1>2, <1>4, <1>6, WalkExists
<1>8. ASSUME NEW S \in SUBSET D
      PROVE  WalkStep(g, S, NoDenoms, pick, step) =
                 IF S = {} THEN NoDenoms
                 ELSE AsManyAsFit(r, g[S \ {LargestOf(r, S)}], LargestOf(r, S))
  <2>1. CASE S = {} BY <2>1 DEF WalkStep
  <2>2. CASE S # {}
    <3>1. LargestOf(r, S) \in D /\ S \ {LargestOf(r, S)} \in SUBSET D BY <1>3, <1>4, <2>2
    <3>2. g[S \ {LargestOf(r, S)}] \in Offers BY <3>1
    <3> QED BY <1>3, <1>5, <2>2, <3>1, <3>2 DEF WalkStep
  <2> QED BY <2>1, <2>2
<1>9. IsGiving(g, r) BY <1>7, <1>8, Zenon DEF IsWalk, IsGiving
<1> QED BY <1>7, <1>9

(* One unfolding of Gives.                                                 *)
LEMMA GivesIs ==
    ASSUME NEW r, DenomsOK(r)
    PROVE  /\ \A S \in SUBSET DOMAIN r.denoms : Gives(r)[S] \in Offers
           /\ Gives(r)[{}] = NoDenoms
           /\ \A S \in SUBSET DOMAIN r.denoms : S # {} =>
                  Gives(r)[S] = AsManyAsFit(r, Gives(r)[S \ {LargestOf(r, S)}], LargestOf(r, S))
<1>1. Gives(r) = CHOOSE g : IsGiving(g, r) BY Zenon DEF Gives, IsGiving
<1>2. IsGiving(Gives(r), r)
  <2>1. \E g : IsGiving(g, r) BY GivingExists
  <2> QED BY <1>1, <2>1
<1> DEFINE D == DOMAIN r.denoms
           G == Gives(r)
           steps == [S \in SUBSET D |->
                        IF S = {} THEN NoDenoms
                        ELSE AsManyAsFit(r, G[S \ {LargestOf(r, S)}], LargestOf(r, S))]
<1>3. G = steps BY <1>2, Zenon DEF IsGiving
<1>4. \A S \in SUBSET D :
          steps[S] = IF S = {} THEN NoDenoms
                     ELSE AsManyAsFit(r, G[S \ {LargestOf(r, S)}], LargestOf(r, S))
  OBVIOUS
<1> HIDE DEF steps, G
<1>5. G[{}] = NoDenoms BY <1>3, <1>4
<1>6. \A S \in SUBSET D : S # {} =>
          G[S] = AsManyAsFit(r, G[S \ {LargestOf(r, S)}], LargestOf(r, S))
  BY <1>3, <1>4
<1> DEFINE P == {S \in SUBSET D : G[S] \in Offers}
<1>7. {} \in P BY <1>5 DEF NoDenoms, Offers
<1>8. ASSUME NEW S \in SUBSET D, S # {}, \A x \in S : S \ {x} \in P PROVE S \in P
  <2>1. LargestOf(r, S) \in S BY <1>8, LargestExists
  <2>2. G[S \ {LargestOf(r, S)}] \in Offers BY <1>8, <2>1
  <2>3. G[S] = AsManyAsFit(r, G[S \ {LargestOf(r, S)}], LargestOf(r, S)) BY <1>6, <1>8
  <2>4. G[S] \in Offers BY <2>1, <2>2, <2>3, AsManyAsFitOffers
  <2> QED BY <2>4
<1>9. IsFiniteSet(D) BY DEF DenomsOK
<1> HIDE DEF P, D
<1>10. SUBSET D \subseteq P BY <1>7, <1>8, <1>9, SmallerSetsInduction
<1> QED BY <1>5, <1>6, <1>10 DEF P, G, D

(* What a choice is worth, as a function of the denominations.             *)
ValueOf(r) == [i \in DOMAIN r.denoms |-> r.denoms[i].value]
WorthOf(r) == [S \in SUBSET DOMAIN r.denoms |-> [b \in Nat |-> Gives(r)[S][b].totalCoinValue]]

(* Coins are worth what they cost at most, and cost what there is at most. *)
LEMMA CostIsCovered ==
    ASSUME NEW r, DenomsOK(r)
    PROVE  \A S \in SUBSET DOMAIN r.denoms : \A b \in Nat :
               /\ Gives(r)[S][b].totalCoinValue <= Gives(r)[S][b].totalWithdrawCost
               /\ Gives(r)[S][b].totalWithdrawCost <= b
<1> DEFINE D == DOMAIN r.denoms
           G == Gives(r)
           P == {S \in SUBSET D : \A b \in Nat : /\ G[S][b].totalCoinValue <= G[S][b].totalWithdrawCost
                                                /\ G[S][b].totalWithdrawCost <= b}
<1>1. /\ \A S \in SUBSET D : G[S] \in Offers
      /\ G[{}] = NoDenoms
      /\ \A S \in SUBSET D : S # {} =>
            G[S] = AsManyAsFit(r, G[S \ {LargestOf(r, S)}], LargestOf(r, S))
  BY GivesIs
<1> HIDE DEF G
<1>2. {} \in P BY <1>1 DEF NoDenoms
<1>3. ASSUME NEW S \in SUBSET D, S # {}, \A x \in S : S \ {x} \in P PROVE S \in P
  <2> SUFFICES ASSUME NEW b \in Nat
               PROVE  /\ G[S][b].totalCoinValue <= G[S][b].totalWithdrawCost
                      /\ G[S][b].totalWithdrawCost <= b
    OBVIOUS
  <2> DEFINE i == LargestOf(r, S)
             v == r.denoms[i].value
             c == r.denoms[i].value + r.denoms[i].fee
             q == b \div c
             others == G[S \ {i}][b - q * c]
  <2>1. i \in S BY <1>3, LargestExists
  <2>2. v \in Nat /\ c \in Nat \ {0} /\ v <= c BY <2>1 DEF DenomsOK
  <2>3. q \in Nat /\ q * c \in Nat /\ b - q * c \in Nat BY <2>2, Quotient
  <2>4. G[S][b] = [totalCoinValue |-> q * v + others.totalCoinValue,
                   totalWithdrawCost |-> q * c + others.totalWithdrawCost]
    BY <1>1, <1>3 DEF AsManyAsFit
  <2>5. /\ others.totalCoinValue \in Nat /\ others.totalWithdrawCost \in Nat
        /\ others.totalCoinValue <= others.totalWithdrawCost
        /\ others.totalWithdrawCost <= b - q * c
    <3>1. S \ {i} \in P /\ S \ {i} \in SUBSET D BY <1>3, <2>1
    <3> HIDE DEF i, q, c
    <3>2. G[S \ {i}] \in Offers BY <1>1, <3>1
    <3>3. G[S \ {i}][b - q * c] \in [totalCoinValue : Nat, totalWithdrawCost : Nat]
      BY <2>3, <3>2 DEF Offers
    <3> QED BY <2>3, <3>1, <3>3
  <2> HIDE DEF i, v, c, q, others
  <2>6. q * v <= q * c /\ q * v \in Nat
    <3>1. v * q <= c * q BY <2>2, <2>3, ProductGrows
    <3>2. v * q = q * v /\ c * q = q * c BY <2>2, <2>3
    <3> QED BY <2>2, <2>3, <3>1, <3>2, ProductIsNat
  <2> QED BY <2>3, <2>4, <2>5, <2>6
<1>4. IsFiniteSet(D) BY DEF DenomsOK
<1> HIDE DEF P, D
<1>5. SUBSET D \subseteq P BY <1>2, <1>3, <1>4, SmallerSetsInduction
<1> QED BY <1>5 DEF P, G, D

(* With nested denominations, the values that Gives computes are a greedy  *)
(* choice.                                                                 *)
LEMMA WorthIsGreedy ==
    ASSUME NEW r, DenomsOK(r), Nested(r), NEW f \in Nat,
           \A i \in DOMAIN r.denoms : r.denoms[i].fee = f
    PROVE  Greedy(WorthOf(r), DOMAIN r.denoms, ValueOf(r), f)
<1> DEFINE D == DOMAIN r.denoms
           G == WorthOf(r)
           v == ValueOf(r)
<1>1. IsFiniteSet(D) /\ v \in [D -> Nat \ {0}] /\ \A i \in D : v[i] = r.denoms[i].value
  BY DEF DenomsOK, ValueOf
<1>2. \A S \in SUBSET D, b \in Nat :
          G[S][b] = Gives(r)[S][b].totalCoinValue /\ G[S][b] \in Nat
  <2> SUFFICES ASSUME NEW S \in SUBSET D, NEW b \in Nat
               PROVE  G[S][b] = Gives(r)[S][b].totalCoinValue /\ G[S][b] \in Nat
    OBVIOUS
  <2>1. G[S][b] = Gives(r)[S][b].totalCoinValue BY DEF WorthOf
  <2>2. Gives(r)[S] \in Offers BY GivesIs
  <2>3. Gives(r)[S][b] \in [totalCoinValue : Nat, totalWithdrawCost : Nat] BY <2>2 DEF Offers
  <2> QED BY <2>1, <2>3
<1>3. ASSUME NEW i \in D, NEW j \in D, v[i] <= v[j]
      PROVE  \E m \in Nat \ {0} : v[j] = m * v[i]
  <2>1. v[j] % v[i] = 0 BY <1>1, <1>3 DEF Nested
  <2>2. v[i] \in Nat \ {0} /\ v[j] \in Nat \ {0} BY <1>1
  <2> HIDE DEF v
  <2>3. v[j] \div v[i] \in Nat /\ v[j] = (v[j] \div v[i]) * v[i] BY <2>1, <2>2
  <2>4. v[j] \div v[i] # 0 BY <2>2, <2>3
  <2> QED BY <2>3, <2>4
<1>4. ASSUME NEW S \in SUBSET D, S = {}, NEW b \in Nat PROVE G[S][b] = 0
  <2>1. Gives(r)[S][b] = NoDenoms[b] BY <1>4, GivesIs
  <2>2. NoDenoms[b].totalCoinValue = 0 BY DEF NoDenoms
  <2> QED BY <1>2, <2>1, <2>2
<1>5. ASSUME NEW S \in SUBSET D, S # {} PROVE TakesFirst(G, S, v, f, LargestOf(r, S))
  <2> DEFINE i == LargestOf(r, S)
  <2>1. i \in S /\ \A j \in S : r.denoms[j].value <= r.denoms[i].value BY <1>5, LargestExists
  <2>2. Gives(r)[S] = AsManyAsFit(r, Gives(r)[S \ {i}], i) BY <1>5, GivesIs
  <2> HIDE DEF i, G
  <2>3. ASSUME NEW b \in Nat
        PROVE  G[S][b] = (b \div (v[i] + f)) * v[i]
                         + G[S \ {i}][b - (b \div (v[i] + f)) * (v[i] + f)]
    <3> DEFINE c == r.denoms[i].value + r.denoms[i].fee
               rest == b - (b \div c) * c
    <3>1. c \in Nat \ {0} /\ c = v[i] + f BY <1>1, <2>1 DEF DenomsOK
    <3>2. Gives(r)[S][b].totalCoinValue
              = (b \div c) * r.denoms[i].value + Gives(r)[S \ {i}][rest].totalCoinValue
      BY <2>2, AsManyAsFitOf
    <3>3. rest \in Nat /\ S \ {i} \in SUBSET D BY <3>1, Quotient
    <3>4. v[i] = r.denoms[i].value BY <1>1, <2>1
    <3> HIDE DEF c, rest, v
    <3>5. G[S \ {i}][rest] = Gives(r)[S \ {i}][rest].totalCoinValue BY <1>2, <3>3
    <3>6. G[S][b] = (b \div c) * v[i] + G[S \ {i}][rest] BY <1>2, <3>2, <3>4, <3>5
    <3> QED BY <3>1, <3>6 DEF rest
  <2>4. \A j \in S : v[j] <= v[i] BY <1>1, <2>1
  <2> QED BY <2>1, <2>3, <2>4 DEF TakesFirst, i
<1>6. IsGreedy(G, D, v, f)
  <2>1. \A S \in SUBSET D : S # {} => LargestOf(r, S) \in S BY LargestExists
  <2> HIDE DEF G, v
  <2> QED BY <1>4, <1>5, <2>1 DEF IsGreedy
<1> HIDE DEF G, v
<1>7. Greedy(G, D, v, f) BY <1>1, <1>2, <1>3, <1>6 DEF Greedy
<1> QED BY <1>7 DEF G, v

(* With nested denominations, nothing that the amount covers is worth more *)
(* than what is withdrawn.                                                 *)
LEMMA WithdrawalIsBest ==
    ASSUME NEW r \in WithdrawRequests, Nested(r),
           NEW counts \in [DOMAIN r.denoms -> 0..r.amount],
           SumOver([i \in DOMAIN counts |-> counts[i] * r.denoms[i].value], DOMAIN counts)
           + SumOver([i \in DOMAIN counts |-> counts[i] * r.denoms[i].fee], DOMAIN counts)
               <= r.amount
    PROVE  SumOver([i \in DOMAIN counts |-> counts[i] * r.denoms[i].value], DOMAIN counts)
               <= SelectWithdrawalDenominations(r).totalCoinValue
<1> DEFINE D == DOMAIN r.denoms
           W == [i \in DOMAIN counts |-> counts[i] * r.denoms[i].value]
           C == [i \in DOMAIN counts |-> counts[i] * r.denoms[i].fee]
<1>1. DenomsOK(r) /\ r.amount \in Nat BY RequestIsTyped
<1>2. DOMAIN counts = D /\ counts \in [D -> Nat] BY <1>1
<1>3. PICK f \in Nat : \A i \in D : r.denoms[i].fee = f
  <2>1. CASE D = {}
    <3>1. 0 \in Nat /\ \A i \in D : r.denoms[i].fee = 0 BY <2>1
    <3> QED BY <3>1
  <2>2. CASE D # {}
    <3>1. PICK j \in D : TRUE BY <2>2
    <3>2. r.denoms[j].fee \in Nat /\ \A i \in D : r.denoms[i].fee = r.denoms[j].fee
      BY <1>1, <3>1 DEF Nested, DenomsOK
    <3> QED BY <3>2
  <2> QED BY <2>1, <2>2
<1>4. Greedy(WorthOf(r), D, ValueOf(r), f) BY <1>1, <1>3, WorthIsGreedy
<1>5. W = Worths(counts, ValueOf(r))
  <2>1. \A i \in D : ValueOf(r)[i] = r.denoms[i].value BY DEF ValueOf
  <2> QED BY <1>2, <2>1 DEF Worths
<1>6. C = Charges(counts, f) BY <1>2, <1>3 DEF Charges
<1>7. SelectWithdrawalDenominations(r).totalCoinValue = WorthOf(r)[D][r.amount]
  BY <1>1 DEF SelectWithdrawalDenominations, WorthOf
<1>8. D \in SUBSET D OBVIOUS
<1>9. SumOver(W, D) + SumOver(C, D) <= r.amount BY <1>2
<1> HIDE DEF W, C
<1>10. SumOver(W, D) <= WorthOf(r)[D][r.amount]
  BY <1>1, <1>2, <1>4, <1>5, <1>6, <1>8, <1>9, GreedyIsBest
<1> QED BY <1>2, <1>7, <1>10 DEF W

(* The state of a call: not yet answered, or answered.                     *)
ChoiceOK ==
    /\ ask \in PayRequests \cup WithdrawRequests
    /\ \/ chosenNow = <<>>
       \/ ask \in PayRequests /\ chosenNow = SelectPayCoins(ask)
       \/ ask \in WithdrawRequests /\ chosenNow = SelectWithdrawalDenominations(ask)

(* What a call returns is what the algorithm computes from its argument.   *)
LEMMA ChoiceIsMade == SelectionSpec => []ChoiceOK
<1>1. SelectionInit => ChoiceOK BY DEF SelectionInit, ChoiceOK
<1>2. ChoiceOK /\ [SelectionNext]_selectionVars => ChoiceOK'
  BY DEF ChoiceOK, SelectionNext, selectionVars
<1> QED BY <1>1, <1>2, PTL DEF SelectionSpec

(* A withdrawal of what is asked is the closest one.                       *)
LEMMA ChoiceIsClosest == ChoiceOK => WithdrawalIsClosest
<1> SUFFICES ASSUME ChoiceOK, ask \in WithdrawRequests, chosenNow # <<>> PROVE WithdrawalIsClosest
  BY DEF WithdrawalIsClosest
<1>1. chosenNow = SelectWithdrawalDenominations(ask) BY SelectionAssumption DEF ChoiceOK
<1>2. DenomsOK(ask) /\ ask.amount \in Nat BY RequestIsTyped
<1>3. /\ chosenNow.totalCoinValue <= chosenNow.totalWithdrawCost
      /\ chosenNow.totalWithdrawCost <= ask.amount
  BY <1>1, <1>2, CostIsCovered DEF SelectWithdrawalDenominations
<1>4. ASSUME Nested(ask), NEW counts \in [DOMAIN ask.denoms -> 0..ask.amount],
             SumOver([i \in DOMAIN counts |-> counts[i] * ask.denoms[i].value], DOMAIN counts)
             + SumOver([i \in DOMAIN counts |-> counts[i] * ask.denoms[i].fee], DOMAIN counts)
                 <= ask.amount
      PROVE  SumOver([i \in DOMAIN counts |-> counts[i] * ask.denoms[i].value], DOMAIN counts)
                 <= chosenNow.totalCoinValue
  BY <1>1, <1>4, WithdrawalIsBest
<1> QED BY <1>3, <1>4 DEF WithdrawalIsClosest

(* WithdrawalIsClosest holds for every list of denominations, whatever     *)
(* their values and fees, and for every amount.                            *)
THEOREM WithdrawalsAreClosest == SelectionSpec => []WithdrawalIsClosest
  BY ChoiceIsMade, ChoiceIsClosest, PTL
-----------------------------------------------------------------------------
(* Payments.                                                               *)
(* What the tally of selectPayCoins computes.                              *)
CoinsOK(r) ==
    /\ IsFiniteSet(DOMAIN r.coins)
    /\ \A i \in DOMAIN r.coins :
          /\ i \in Nat /\ r.coins[i].exchange \in DOMAIN r.wireFee
          /\ r.coins[i].available \in Nat \ {0} /\ r.coins[i].fee \in Nat
    /\ \A e \in DOMAIN r.wireFee : r.wireFee[e] \in Nat
    /\ r.amortization \in Nat \ {0}
    /\ r.price \in Nat /\ r.depositLimit \in Nat /\ r.wireLimit \in Nat

Tallies(r) ==
    [remaining : Nat, wireLimit : Nat, depositLimit : Nat, customerFees : Nat,
     covered : SUBSET DOMAIN r.wireFee, spends : [DOMAIN r.coins -> Nat]]

(* Types of what is asked of selectPayCoins.                               *)
LEMMA PaymentIsTyped ==
    ASSUME NEW r \in PayRequests
    PROVE  CoinsOK(r) /\ r.coins \in Seq([exchange : DOMAIN r.wireFee, available : Nat \ {0}, fee : Nat])
<1> DEFINE coins == r.coins
           wireFee == r.wireFee
           X == [exchange : DOMAIN wireFee, available : Nat \ {0}, fee : Nat]
<1>1. /\ wireFee \in [DOMAIN wireFee -> Nat] /\ r.amortization \in Nat \ {0}
      /\ coins \in Seq(X)
      /\ r.price \in Nat /\ r.depositLimit \in Nat /\ r.wireLimit \in Nat
  BY SelectionAssumption
<1> HIDE DEF coins, wireFee
<1>2. IsFiniteSet(DOMAIN coins) /\ \A i \in DOMAIN coins : i \in Nat /\ coins[i] \in X
  BY <1>1, InSequence
<1>3. \A e \in DOMAIN wireFee : wireFee[e] \in Nat BY <1>1
<1> QED BY <1>1, <1>2, <1>3 DEF CoinsOK, coins, wireFee

(* A set of candidates has a last one.                                     *)
LEMMA LastExists ==
    ASSUME NEW r, CoinsOK(r)
    PROVE  \A S \in SUBSET DOMAIN r.coins : S # {} => LastOf(r, S) \in S
<1> DEFINE D == DOMAIN r.coins
           order == {p \in D \X D : Before(r, p[2], p[1])}
<1>1. \A i, j \in D : <<i, j>> \in order <=> Before(r, j, i) OBVIOUS
<1>2. \A i, j \in D : i # j => Before(r, i, j) \/ Before(r, j, i)
  BY DEF CoinsOK, Before
<1>3. \A i, j, k \in D : Before(r, i, j) /\ Before(r, j, k) => Before(r, i, k)
  BY DEF CoinsOK, Before
<1>4. IsFiniteSet(D) BY DEF CoinsOK
<1> HIDE DEF order
<1> SUFFICES ASSUME NEW S \in SUBSET D, S # {} PROVE LastOf(r, S) \in S OBVIOUS
<1>5. \E i \in S : \A j \in S \ {i} : <<i, j>> \in order
  BY <1>1, <1>2, <1>3, <1>4, FirstExists
<1>6. \E i \in S : \A j \in S \ {i} : Before(r, j, i) BY <1>1, <1>5
<1> QED BY <1>6 DEF LastOf

(* The fields of a tally after coin i has been considered.                 *)
Wire(r, t, i) == IF r.coins[i].exchange \in t.covered THEN 0 ELSE r.wireFee[r.coins[i].exchange]
Charged(r, t, i) ==
    (Minus(Wire(r, t, i), t.wireLimit) \div r.amortization) + r.coins[i].fee
Due(r, t, i) == t.remaining + Minus(Charged(r, t, i), t.depositLimit)
Spend(r, t, i) == Greatest(Least(Due(r, t, i), r.coins[i].available), r.coins[i].fee)
LeftOut(r, t, i) == r.coins[i].fee > r.coins[i].available \/ t.remaining = 0

(* A saturating difference is a natural.                                   *)
LEMMA MinusIsNat == ASSUME NEW a \in Nat, NEW b \in Nat PROVE Minus(a, b) \in Nat BY DEF Minus

(* The amounts of one round are naturals.                                  *)
LEMMA ConsiderNumbers ==
    ASSUME NEW r, CoinsOK(r), NEW t \in Tallies(r), NEW i \in DOMAIN r.coins
    PROVE  /\ Wire(r, t, i) \in Nat /\ Charged(r, t, i) \in Nat
           /\ Minus(Wire(r, t, i), t.wireLimit) \div r.amortization \in Nat
           /\ Minus(Charged(r, t, i), t.depositLimit) \in Nat
           /\ Due(r, t, i) \in Nat /\ Spend(r, t, i) \in Nat
<1>1. /\ t.remaining \in Nat /\ t.wireLimit \in Nat /\ t.depositLimit \in Nat
      /\ r.coins[i].fee \in Nat /\ r.coins[i].available \in Nat /\ r.amortization \in Nat \ {0}
      /\ r.wireFee[r.coins[i].exchange] \in Nat
  BY DEF CoinsOK, Tallies
<1>2. Wire(r, t, i) \in Nat BY <1>1 DEF Wire
<1>3. Minus(Wire(r, t, i), t.wireLimit) \in Nat BY <1>1, <1>2, MinusIsNat
<1>4. Minus(Wire(r, t, i), t.wireLimit) \div r.amortization \in Nat BY <1>1, <1>3, Quotient
<1>5. Charged(r, t, i) \in Nat BY <1>1, <1>4 DEF Charged
<1>6. Minus(Charged(r, t, i), t.depositLimit) \in Nat BY <1>1, <1>5, MinusIsNat
<1>7. Due(r, t, i) \in Nat BY <1>1, <1>6 DEF Due
<1>8. Spend(r, t, i) \in Nat BY <1>1, <1>7 DEF Spend, Greatest, Least
<1> QED BY <1>2, <1>4, <1>5, <1>6, <1>7, <1>8

(* What one round does to the tally.                                       *)
LEMMA ConsiderTallies ==
    ASSUME NEW r, CoinsOK(r), NEW t \in Tallies(r), NEW i \in DOMAIN r.coins
    PROVE  /\ LeftOut(r, t, i) => Consider(r, t, i) = t
           /\ ~LeftOut(r, t, i) =>
                Consider(r, t, i) =
                    [remaining |-> Minus(Due(r, t, i), Spend(r, t, i)),
                     wireLimit |-> Minus(t.wireLimit, Wire(r, t, i)),
                     depositLimit |-> Minus(t.depositLimit, Charged(r, t, i)),
                     customerFees |->
                        t.customerFees + Minus(Charged(r, t, i), t.depositLimit),
                     covered |-> t.covered \cup {r.coins[i].exchange},
                     spends |-> [t.spends EXCEPT ![i] = Spend(r, t, i)]]
<1>1. LeftOut(r, t, i) => Consider(r, t, i) = t BY DEF LeftOut, Consider
<1>2. ASSUME ~LeftOut(r, t, i)
      PROVE  Consider(r, t, i) =
                    [remaining |-> Minus(Due(r, t, i), Spend(r, t, i)),
                     wireLimit |-> Minus(t.wireLimit, Wire(r, t, i)),
                     depositLimit |-> Minus(t.depositLimit, Charged(r, t, i)),
                     customerFees |->
                        t.customerFees + Minus(Charged(r, t, i), t.depositLimit),
                     covered |-> t.covered \cup {r.coins[i].exchange},
                     spends |-> [t.spends EXCEPT ![i] = Spend(r, t, i)]]
  <2> DEFINE u == TallyFees(t, r, r.coins[i])
  <2>1. u = [remaining |-> Due(r, t, i),
             wireLimit |-> Minus(t.wireLimit, Wire(r, t, i)),
             depositLimit |-> Minus(t.depositLimit, Charged(r, t, i)),
             customerFees |-> t.customerFees + Minus(Charged(r, t, i), t.depositLimit),
             covered |-> t.covered \cup {r.coins[i].exchange}, spends |-> t.spends]
    <3>1. t = [remaining |-> t.remaining, wireLimit |-> t.wireLimit,
               depositLimit |-> t.depositLimit, customerFees |-> t.customerFees,
               covered |-> t.covered, spends |-> t.spends]
      BY DEF Tallies
    <3>2. u = [t EXCEPT !.wireLimit = Minus(@, Wire(r, t, i)),
                        !.depositLimit = Minus(@, Charged(r, t, i)),
                        !.customerFees = @ + Minus(Charged(r, t, i), t.depositLimit),
                        !.remaining = @ + Minus(Charged(r, t, i), t.depositLimit),
                        !.covered = @ \cup {r.coins[i].exchange}]
      BY Zenon DEF TallyFees, Charged, Wire
    <3> HIDE DEF u
    <3> QED BY <3>1, <3>2 DEF Due
  <2>2. Consider(r, t, i) =
            [u EXCEPT !.remaining = Minus(@, Greatest(Least(u.remaining, r.coins[i].available),
                                                      r.coins[i].fee)),
                      !.spends[i] = Greatest(Least(u.remaining, r.coins[i].available),
                                             r.coins[i].fee)]
    BY <1>2 DEF Consider, LeftOut
  <2>3. u.remaining = Due(r, t, i) /\ u.spends = t.spends BY <2>1
  <2>4. Spend(r, t, i) = Greatest(Least(u.remaining, r.coins[i].available), r.coins[i].fee)
    BY <2>3 DEF Spend
  <2> HIDE DEF u
  <2>5. Consider(r, t, i) =
            [u EXCEPT !.remaining = Minus(@, Spend(r, t, i)), !.spends[i] = Spend(r, t, i)]
    BY <2>2, <2>4
  <2> QED BY <2>1, <2>5
<1> QED BY <1>1, <1>2

(* One round keeps the types of the tally.                                 *)
LEMMA ConsiderIsTally ==
    ASSUME NEW r, CoinsOK(r), NEW t \in Tallies(r), NEW i \in DOMAIN r.coins
    PROVE  Consider(r, t, i) \in Tallies(r)
<1>1. CASE LeftOut(r, t, i) BY <1>1, ConsiderTallies
<1>2. CASE ~LeftOut(r, t, i)
  <2> DEFINE u == Consider(r, t, i)
  <2>1. u = [remaining |-> Minus(Due(r, t, i), Spend(r, t, i)),
             wireLimit |-> Minus(t.wireLimit, Wire(r, t, i)),
             depositLimit |-> Minus(t.depositLimit, Charged(r, t, i)),
             customerFees |-> t.customerFees + Minus(Charged(r, t, i), t.depositLimit),
             covered |-> t.covered \cup {r.coins[i].exchange},
             spends |-> [t.spends EXCEPT ![i] = Spend(r, t, i)]]
    BY <1>2, ConsiderTallies
  <2>2. t.wireLimit \in Nat /\ t.depositLimit \in Nat /\ t.customerFees \in Nat BY DEF Tallies
  <2>3. /\ Wire(r, t, i) \in Nat /\ Charged(r, t, i) \in Nat
        /\ Minus(Charged(r, t, i), t.depositLimit) \in Nat
        /\ Due(r, t, i) \in Nat /\ Spend(r, t, i) \in Nat
    BY ConsiderNumbers
  <2>4. /\ Minus(Due(r, t, i), Spend(r, t, i)) \in Nat
        /\ Minus(t.wireLimit, Wire(r, t, i)) \in Nat
        /\ Minus(t.depositLimit, Charged(r, t, i)) \in Nat
    BY <2>2, <2>3, MinusIsNat
  <2>5. t.customerFees + Minus(Charged(r, t, i), t.depositLimit) \in Nat BY <2>2, <2>3
  <2>6. t.covered \cup {r.coins[i].exchange} \in SUBSET DOMAIN r.wireFee BY DEF Tallies, CoinsOK
  <2>7. [t.spends EXCEPT ![i] = Spend(r, t, i)] \in [DOMAIN r.coins -> Nat]
    BY <2>3 DEF Tallies
  <2> HIDE DEF u
  <2>8. u \in Tallies(r) BY <2>1, <2>4, <2>5, <2>6, <2>7 DEF Tallies
  <2> QED BY <2>8 DEF u
<1> QED BY <1>1, <1>2

IsTally(g, r) ==
    g = [S \in SUBSET DOMAIN r.coins |->
            IF S = {} THEN NoCoins(r) ELSE Consider(r, g[S \ {LastOf(r, S)}], LastOf(r, S))]

(* The recursion of Tally has a solution.                                  *)
LEMMA TallyExists ==
    ASSUME NEW r, CoinsOK(r)
    PROVE  \E g \in [SUBSET DOMAIN r.coins -> Tallies(r)] : IsTally(g, r)
<1> DEFINE D == DOMAIN r.coins
           X == Tallies(r)
           pick == [S \in SUBSET D |-> LastOf(r, S)]
           step == [p \in X \X D |-> Consider(r, p[1], p[2])]
<1>1. step \in [X \X D -> X] BY ConsiderIsTally
<1>2. NoCoins(r) \in X BY DEF NoCoins, Tallies, CoinsOK
<1>3. \A S \in SUBSET D : pick[S] = LastOf(r, S) OBVIOUS
<1>4. \A S \in SUBSET D : S # {} => pick[S] \in S BY <1>3, LastExists
<1>5. \A t \in X, i \in D : step[t, i] = Consider(r, t, i) OBVIOUS
<1>6. IsFiniteSet(D) BY DEF CoinsOK
<1> HIDE DEF pick, step, X
<1>7. PICK g \in [SUBSET D -> X] : IsWalk(g, D, NoCoins(r), pick, step)
  BY <1>1, <1>2, <1>4, <1>6, WalkExists
<1>8. ASSUME NEW S \in SUBSET D
      PROVE  WalkStep(g, S, NoCoins(r), pick, step) =
                 IF S = {} THEN NoCoins(r)
                 ELSE Consider(r, g[S \ {LastOf(r, S)}], LastOf(r, S))
  <2>1. CASE S = {} BY <2>1 DEF WalkStep
  <2>2. CASE S # {}
    <3>1. LastOf(r, S) \in D /\ S \ {LastOf(r, S)} \in SUBSET D BY <1>3, <1>4, <2>2
    <3>2. g[S \ {LastOf(r, S)}] \in X BY <3>1
    <3> QED BY <1>3, <1>5, <2>2, <3>1, <3>2 DEF WalkStep
  <2> QED BY <2>1, <2>2
<1>9. IsTally(g, r) BY <1>7, <1>8, Zenon DEF IsWalk, IsTally
<1> QED BY <1>7, <1>9 DEF X

(* One unfolding of Tally.                                                 *)
LEMMA TallyIs ==
    ASSUME NEW r, CoinsOK(r)
    PROVE  /\ \A S \in SUBSET DOMAIN r.coins : Tally(r)[S] \in Tallies(r)
           /\ Tally(r)[{}] = NoCoins(r)
           /\ \A S \in SUBSET DOMAIN r.coins : S # {} =>
                  /\ LastOf(r, S) \in S
                  /\ Tally(r)[S] = Consider(r, Tally(r)[S \ {LastOf(r, S)}], LastOf(r, S))
<1>1. Tally(r) = CHOOSE g : IsTally(g, r) BY Zenon DEF Tally, IsTally
<1>2. IsTally(Tally(r), r)
  <2>1. \E g : IsTally(g, r) BY TallyExists
  <2> QED BY <1>1, <2>1
<1> DEFINE D == DOMAIN r.coins
           G == Tally(r)
           steps == [S \in SUBSET D |->
                        IF S = {} THEN NoCoins(r)
                        ELSE Consider(r, G[S \ {LastOf(r, S)}], LastOf(r, S))]
<1>3. G = steps BY <1>2, Zenon DEF IsTally
<1>4. \A S \in SUBSET D :
          steps[S] = IF S = {} THEN NoCoins(r)
                     ELSE Consider(r, G[S \ {LastOf(r, S)}], LastOf(r, S))
  OBVIOUS
<1> HIDE DEF steps, G
<1>5. G[{}] = NoCoins(r) BY <1>3, <1>4
<1>6. \A S \in SUBSET D : S # {} => G[S] = Consider(r, G[S \ {LastOf(r, S)}], LastOf(r, S))
  BY <1>3, <1>4
<1> DEFINE P == {S \in SUBSET D : G[S] \in Tallies(r)}
<1>7. {} \in P
  <2>1. NoCoins(r) \in Tallies(r) BY DEF NoCoins, Tallies, CoinsOK
  <2> QED BY <1>5, <2>1
<1>8. ASSUME NEW S \in SUBSET D, S # {}, \A x \in S : S \ {x} \in P PROVE S \in P
  <2>1. LastOf(r, S) \in S BY <1>8, LastExists
  <2>2. G[S \ {LastOf(r, S)}] \in Tallies(r) BY <1>8, <2>1
  <2>3. G[S] = Consider(r, G[S \ {LastOf(r, S)}], LastOf(r, S)) BY <1>6, <1>8
  <2>4. G[S] \in Tallies(r) BY <2>1, <2>2, <2>3, ConsiderIsTally
  <2> QED BY <2>4
<1>9. IsFiniteSet(D) BY DEF CoinsOK
<1> HIDE DEF P, D
<1>10. SUBSET D \subseteq P BY <1>7, <1>8, <1>9, SmallerSetsInduction
<1>11. \A S \in SUBSET D : S # {} => LastOf(r, S) \in S BY LastExists DEF D
<1> QED BY <1>5, <1>6, <1>10, <1>11 DEF P, G, D

-----------------------------------------------------------------------------
(* What holds of the tally t when the coins of S have been considered:     *)
(* which coins are used, what they pay, and what the fees are.             *)
Used(t) == {i \in DOMAIN t.spends : t.spends[i] > 0}
Contributes(r, S, t) ==
    /\ Used(t) \subseteq S \cap Sensible(r)
    /\ \A i \in Used(t) : t.spends[i] \in r.coins[i].fee..r.coins[i].available
    /\ t.covered = ExchangesOf(r, Used(t))
    /\ t.remaining > 0 => /\ Used(t) = S \cap Sensible(r)
                          /\ \A i \in Used(t) : t.spends[i] = r.coins[i].available
Pays(r, t) ==
    LET paid == SumOver(t.spends, Used(t)) IN
    /\ t.remaining > 0 => paid + t.remaining = r.price + t.customerFees
    /\ t.remaining = 0 =>
          /\ paid >= r.price + t.customerFees
          /\ paid > r.price + t.customerFees => \E i \in Used(t) : t.spends[i] = r.coins[i].fee
SharesFees(r, t, share) ==
    LET wire == Minus(SumOver(r.wireFee, t.covered), r.wireLimit)
        fees == share + SumOver(FeeOf(r), Used(t))
    IN  /\ r.amortization * share <= wire
        /\ wire <= r.amortization * share + Cardinality(t.covered) * (r.amortization - 1)
        /\ t.depositLimit = Minus(r.depositLimit, fees)
        /\ t.customerFees = Minus(fees, r.depositLimit)
SharesAll(r, t) ==
    /\ t.wireLimit = Minus(r.wireLimit, SumOver(r.wireFee, t.covered))
    /\ \E share \in Nat : SharesFees(r, t, share)

(* A coin that is not left out: what it spends, and that it is used.       *)
LEMMA CoinIsUsed ==
    ASSUME NEW r, CoinsOK(r), NEW t \in Tallies(r), NEW i \in DOMAIN r.coins,
           ~LeftOut(r, t, i), i \notin Used(t)
    PROVE  LET u == Consider(r, t, i) IN
           /\ Spend(r, t, i) \in r.coins[i].fee..r.coins[i].available /\ Spend(r, t, i) > 0
           /\ Used(u) = Used(t) \cup {i} /\ u.spends[i] = Spend(r, t, i) /\ i \in Sensible(r)
           /\ \A j \in Used(t) : u.spends[j] = t.spends[j] /\ j \in DOMAIN r.coins
           /\ u.covered = t.covered \cup {r.coins[i].exchange}
           /\ u.remaining = Minus(Due(r, t, i), Spend(r, t, i))
           /\ u.wireLimit = Minus(t.wireLimit, Wire(r, t, i))
           /\ u.depositLimit = Minus(t.depositLimit, Charged(r, t, i))
           /\ u.customerFees = t.customerFees + Minus(Charged(r, t, i), t.depositLimit)
           /\ Due(r, t, i) = t.remaining + Minus(Charged(r, t, i), t.depositLimit)
           /\ t.remaining > 0
<1> DEFINE u == Consider(r, t, i)
<1>1. u = [remaining |-> Minus(Due(r, t, i), Spend(r, t, i)),
           wireLimit |-> Minus(t.wireLimit, Wire(r, t, i)),
           depositLimit |-> Minus(t.depositLimit, Charged(r, t, i)),
           customerFees |-> t.customerFees + Minus(Charged(r, t, i), t.depositLimit),
           covered |-> t.covered \cup {r.coins[i].exchange},
           spends |-> [t.spends EXCEPT ![i] = Spend(r, t, i)]]
  BY ConsiderTallies
<1>2. /\ u.remaining = Minus(Due(r, t, i), Spend(r, t, i))
      /\ u.wireLimit = Minus(t.wireLimit, Wire(r, t, i))
      /\ u.depositLimit = Minus(t.depositLimit, Charged(r, t, i))
      /\ u.customerFees = t.customerFees + Minus(Charged(r, t, i), t.depositLimit)
      /\ u.covered = t.covered \cup {r.coins[i].exchange}
      /\ u.spends = [t.spends EXCEPT ![i] = Spend(r, t, i)]
  BY <1>1
<1>3. t.spends \in [DOMAIN r.coins -> Nat] /\ t.remaining \in Nat BY DEF Tallies
<1>4. r.coins[i].fee <= r.coins[i].available /\ t.remaining > 0
  BY <1>3 DEF LeftOut, CoinsOK
<1>5. r.coins[i].fee \in Nat /\ r.coins[i].available \in Nat \ {0} BY DEF CoinsOK
<1>6. Due(r, t, i) \in Nat /\ Due(r, t, i) > 0
  BY <1>3, <1>4, ConsiderNumbers DEF Due
<1>7. Spend(r, t, i) \in r.coins[i].fee..r.coins[i].available /\ Spend(r, t, i) > 0
  BY <1>4, <1>5, <1>6 DEF Spend, Greatest, Least
<1> HIDE DEF u
<1>8. u.spends[i] = Spend(r, t, i) /\ DOMAIN u.spends = DOMAIN r.coins BY <1>2, <1>3
<1>9. \A j \in DOMAIN r.coins : j # i => u.spends[j] = t.spends[j] BY <1>2, <1>3
<1>10. Used(u) = Used(t) \cup {i} BY <1>3, <1>7, <1>8, <1>9 DEF Used
<1>11. \A j \in Used(t) : u.spends[j] = t.spends[j] /\ j \in DOMAIN r.coins
  BY <1>3, <1>9 DEF Used
<1>12. i \in Sensible(r) BY <1>4 DEF Sensible
<1> QED BY <1>2, <1>4, <1>7, <1>8, <1>10, <1>11, <1>12 DEF u, Due

(* A round keeps that every coin that is used gives its fee at least, and  *)
(* that a coin is left out for a reason only.                              *)
LEMMA StillContributes ==
    ASSUME NEW r, CoinsOK(r), NEW t \in Tallies(r), NEW S \in SUBSET DOMAIN r.coins,
           NEW i \in DOMAIN r.coins \ S, Contributes(r, S, t)
    PROVE  Contributes(r, S \cup {i}, Consider(r, t, i))
<1>1. i \notin Used(t) BY DEF Contributes
<1>2. t.remaining \in Nat /\ t.covered \subseteq DOMAIN r.wireFee BY DEF Tallies
<1>3. CASE LeftOut(r, t, i)
  <2>1. Consider(r, t, i) = t BY <1>3, ConsiderTallies
  <2>2. t.remaining > 0 => i \notin Sensible(r) BY <1>2, <1>3 DEF LeftOut, Sensible, CoinsOK
  <2>3. t.remaining > 0 => S \cap Sensible(r) = (S \cup {i}) \cap Sensible(r) BY <2>2
  <2> QED BY <2>1, <2>3 DEF Contributes
<1>4. CASE ~LeftOut(r, t, i)
  <2> DEFINE u == Consider(r, t, i)
  <2>1. /\ Spend(r, t, i) \in r.coins[i].fee..r.coins[i].available
        /\ Used(u) = Used(t) \cup {i} /\ u.spends[i] = Spend(r, t, i) /\ i \in Sensible(r)
        /\ \A j \in Used(t) : u.spends[j] = t.spends[j] /\ j \in DOMAIN r.coins
        /\ u.covered = t.covered \cup {r.coins[i].exchange}
        /\ u.remaining = Minus(Due(r, t, i), Spend(r, t, i)) /\ t.remaining > 0
    BY <1>1, <1>4, CoinIsUsed
  <2>2. r.coins[i].fee \in Nat /\ r.coins[i].available \in Nat /\ Due(r, t, i) \in Nat
    BY ConsiderNumbers DEF CoinsOK
  <2> HIDE DEF u
  <2>3. u.covered = ExchangesOf(r, Used(u)) BY <2>1 DEF Contributes, ExchangesOf
  <2>4. u.remaining > 0 => Spend(r, t, i) = r.coins[i].available
    BY <2>1, <2>2 DEF Minus, Spend, Greatest, Least
  <2>5. u.remaining > 0 => Used(u) = (S \cup {i}) \cap Sensible(r)
    BY <2>1 DEF Contributes
  <2>6. u.remaining > 0 => \A j \in Used(u) : u.spends[j] = r.coins[j].available
    BY <2>1, <2>4 DEF Contributes
  <2>7. \A j \in Used(u) : u.spends[j] \in r.coins[j].fee..r.coins[j].available
    BY <2>1 DEF Contributes
  <2>8. Used(u) \subseteq (S \cup {i}) \cap Sensible(r) BY <2>1 DEF Contributes
  <2>9. Contributes(r, S \cup {i}, u) BY <2>3, <2>5, <2>6, <2>7, <2>8 DEF Contributes
  <2> QED BY <2>9 DEF u
<1> QED BY <1>3, <1>4

(* A round keeps that what is spent and what remains are the price and the *)
(* fees.                                                                   *)
LEMMA StillPays ==
    ASSUME NEW r, CoinsOK(r), NEW t \in Tallies(r), NEW i \in DOMAIN r.coins,
           i \notin Used(t), Pays(r, t)
    PROVE  Pays(r, Consider(r, t, i))
<1>1. CASE LeftOut(r, t, i)
  <2>1. Consider(r, t, i) = t BY <1>1, ConsiderTallies
  <2> QED BY <2>1
<1>2. CASE ~LeftOut(r, t, i)
  <2> DEFINE u == Consider(r, t, i)
             paid == SumOver(t.spends, Used(t))
             fee == Minus(Charged(r, t, i), t.depositLimit)
             x == Spend(r, t, i)
  <2>1. /\ x \in r.coins[i].fee..r.coins[i].available
        /\ Used(u) = Used(t) \cup {i} /\ u.spends[i] = x
        /\ \A j \in Used(t) : u.spends[j] = t.spends[j] /\ j \in DOMAIN r.coins
        /\ u.remaining = Minus(Due(r, t, i), x)
        /\ u.customerFees = t.customerFees + fee
        /\ Due(r, t, i) = t.remaining + fee /\ t.remaining > 0
    BY <1>2, CoinIsUsed
  <2>2. /\ t.spends \in [DOMAIN r.coins -> Nat] /\ t.remaining \in Nat /\ t.customerFees \in Nat
        /\ fee \in Nat /\ x \in Nat /\ r.price \in Nat
        /\ r.coins[i].fee \in Nat /\ r.coins[i].available \in Nat
    BY ConsiderNumbers DEF CoinsOK, Tallies
  <2>3. IsFiniteSet(Used(t)) /\ IsFiniteSet(Used(u))
    <3>1. Used(t) \subseteq DOMAIN r.coins BY <2>1
    <3>2. Used(u) \subseteq DOMAIN r.coins BY <2>1, <3>1
    <3> QED BY <3>1, <3>2, FS_Subset DEF CoinsOK
  <2>4. \A j \in Used(t) : t.spends[j] \in Nat BY <2>1, <2>2
  <2>5. paid \in Nat BY <2>3, <2>4, SumIsNat
  <2> HIDE DEF u
  <2>6. SumOver(u.spends, Used(u)) = x + SumOver(u.spends, Used(t))
    <3>1. Used(u) \ {i} = Used(t) /\ i \in Used(u) BY <2>1
    <3>2. \A j \in Used(u) : u.spends[j] \in Nat BY <2>1, <2>2, <2>4
    <3> QED BY <2>1, <2>3, <3>1, <3>2, SumOverOneMore
  <2>7. SumOver(u.spends, Used(t)) = paid
    <3>1. \A j \in Used(t) : t.spends[j] \in Nat /\ t.spends[j] = u.spends[j] BY <2>1, <2>4
    <3>2. SumOver(t.spends, Used(t)) = SumOver(u.spends, Used(t)) BY <2>3, <3>1, SumsEqual
    <3> QED BY <3>2
  <2>8. paid + t.remaining = r.price + t.customerFees BY <2>1 DEF Pays
  <2> HIDE DEF paid, fee
  <2>9. x = r.coins[i].fee \/ x <= Due(r, t, i)
    BY <2>1, <2>2 DEF Spend, Greatest, Least
  <2> HIDE DEF x
  <2>10. CASE Due(r, t, i) > x
    <3>1. u.remaining = Due(r, t, i) - x BY <2>1, <2>2, <2>10 DEF Minus
    <3>2. x + paid + u.remaining = r.price + u.customerFees
      BY <2>1, <2>2, <2>5, <2>8, <3>1
    <3>3. u.remaining > 0 /\ ~(u.remaining = 0) BY <2>1, <2>2, <2>10, <3>1
    <3> QED BY <2>6, <2>7, <3>2, <3>3 DEF Pays, u
  <2>11. CASE Due(r, t, i) <= x
    <3>1. u.remaining = 0 BY <2>1, <2>2, <2>11 DEF Minus
    <3>2. x + paid >= r.price + u.customerFees BY <2>1, <2>2, <2>5, <2>8, <2>11
    <3>3. x + paid > r.price + u.customerFees => x > Due(r, t, i)
      BY <2>1, <2>2, <2>5, <2>8, <2>11
    <3>4. x > Due(r, t, i) => u.spends[i] = r.coins[i].fee BY <2>1, <2>2, <2>9
    <3>5. i \in Used(u) BY <2>1
    <3> QED BY <2>6, <2>7, <3>1, <3>2, <3>3, <3>4, <3>5 DEF Pays, u
  <2> QED BY <2>1, <2>2, <2>10, <2>11
<1> QED BY <1>1, <1>2

(* Two subtractions, and what a limit that is partly used up leaves.       *)
LEMMA MinusOfMinus ==
    ASSUME NEW a \in Nat, NEW b \in Nat, NEW c \in Nat
    PROVE  /\ Minus(Minus(a, b), c) = Minus(a, b + c)
           /\ Minus(b + c, a) = Minus(b, a) + Minus(c, Minus(a, b))
  BY DEF Minus

(* One more wire fee: y of it is the customer's, q what that makes.        *)
LEMMA WireFeeIsShared ==
    ASSUME NEW a \in Nat \ {0}, NEW share \in Nat, NEW wire \in Nat, NEW k \in Nat, NEW y \in Nat,
           NEW q \in Nat, q = y \div a, a * share <= wire, wire <= a * share + k * (a - 1)
    PROVE  /\ a * (share + q) <= wire + y
           /\ wire + y <= a * (share + q) + (k + 1) * (a - 1)
           /\ y = 0 => q = 0
<1>1. q * a \in Nat /\ q * a <= y /\ y < q * a + a BY Quotient
<1>2. a * (share + q) = a * share + q * a /\ a * share \in Nat OBVIOUS
<1>3. (k + 1) * (a - 1) = k * (a - 1) + (a - 1) /\ k * (a - 1) \in Nat
  <2>1. a - 1 \in Nat OBVIOUS
  <2> QED BY <2>1, TimesOneMore
<1>4. y = 0 => q = 0
  <2>1. SUFFICES ASSUME y = 0, q # 0 PROVE FALSE OBVIOUS
  <2>2. 1 * a <= q * a /\ 1 * a = a BY <2>1, ProductGrows
  <2> QED BY <1>1, <2>1, <2>2
<1> QED BY <1>1, <1>2, <1>3, <1>4

(* The shares that were rounded one by one, against the rounded sum.       *)
LEMMA QuotientIsNear ==
    ASSUME NEW a \in Nat \ {0}, NEW share \in Nat, NEW wire \in Nat, NEW k \in Nat,
           a * share <= wire, wire <= a * share + k * (a - 1)
    PROVE  /\ wire \div a \in Nat /\ share <= wire \div a
           /\ wire \div a <= share + Minus(k, 1)
<1> DEFINE q == wire \div a
<1>1. q \in Nat /\ q * a \in Nat /\ q * a <= wire /\ wire < q * a + a BY Quotient
<1> HIDE DEF q
<1>2. a * share = share * a /\ share * a \in Nat OBVIOUS
<1>3. share <= q
  <2>1. (q + 1) * a = q * a + a BY <1>1
  <2>2. share * a < (q + 1) * a BY <1>1, <1>2, <2>1
  <2>3. q + 1 \in Nat BY <1>1
  <2>4. share < q + 1 BY <2>2, <2>3, ProductIsLess
  <2> QED BY <1>1, <2>4
<1>4. CASE k = 0
  <2>1. k * (a - 1) = 0 BY <1>4
  <2>2. (share + 1) * a = share * a + a BY <1>2
  <2>3. q * a < (share + 1) * a BY <1>1, <1>2, <2>1, <2>2
  <2>4. share + 1 \in Nat OBVIOUS
  <2>5. q < share + 1 BY <1>1, <2>3, <2>4, ProductIsLess
  <2> QED BY <1>1, <1>3, <1>4, <2>5 DEF Minus, q
<1>5. CASE k # 0
  <2>1. k * (a - 1) = k * a - k /\ k * a \in Nat OBVIOUS
  <2>2. (share + k) * a = share * a + k * a OBVIOUS
  <2>3. q * a < (share + k) * a BY <1>1, <1>2, <1>5, <2>1, <2>2
  <2>4. share + k \in Nat OBVIOUS
  <2>5. q < share + k BY <1>1, <2>3, <2>4, ProductIsLess
  <2> QED BY <1>1, <1>3, <1>5, <2>5 DEF Minus, q
<1> QED BY <1>4, <1>5

(* Sums over coins and exchanges are numbers.                              *)
LEMMA FeesAreNat ==
    ASSUME NEW r, CoinsOK(r)
    PROVE  /\ \A S \in SUBSET DOMAIN r.coins :
                /\ IsFiniteSet(S) /\ SumOver(FeeOf(r), S) \in Nat /\ SumOver(AmountOf(r), S) \in Nat
                /\ IsFiniteSet(ExchangesOf(r, S)) /\ ExchangesOf(r, S) \subseteq DOMAIN r.wireFee
           /\ \A E \in SUBSET DOMAIN r.wireFee : IsFiniteSet(E) =>
                SumOver(r.wireFee, E) \in Nat /\ Cardinality(E) \in Nat
<1>1. ASSUME NEW S \in SUBSET DOMAIN r.coins
      PROVE  /\ IsFiniteSet(S) /\ SumOver(FeeOf(r), S) \in Nat /\ SumOver(AmountOf(r), S) \in Nat
             /\ IsFiniteSet(ExchangesOf(r, S)) /\ ExchangesOf(r, S) \subseteq DOMAIN r.wireFee
  <2>1. IsFiniteSet(S) BY FS_Subset DEF CoinsOK
  <2>2. \A i \in S : FeeOf(r)[i] \in Nat /\ AmountOf(r)[i] \in Nat
    BY DEF CoinsOK, FeeOf, AmountOf
  <2> DEFINE f == [i \in S |-> r.coins[i].exchange]
  <2>3. ExchangesOf(r, S) = {f[i] : i \in S} BY DEF ExchangesOf
  <2> HIDE DEF f
  <2>4. IsFiniteSet({f[i] : i \in S})
    <3> DEFINE P == {s \in SUBSET S : IsFiniteSet({f[i] : i \in s})}
    <3>1. {} \in P
      <4>1. {f[i] : i \in {}} = {} OBVIOUS
      <4> QED BY <4>1, FS_EmptySet
    <3>2. ASSUME NEW s \in SUBSET S, NEW x \in S \ s, s \in P PROVE s \cup {x} \in P
      <4>1. {f[i] : i \in s \cup {x}} = {f[i] : i \in s} \cup {f[x]} OBVIOUS
      <4>2. IsFiniteSet({f[i] : i \in s} \cup {f[x]}) BY <3>2, FS_AddElement
      <4> QED BY <4>1, <4>2
    <3> HIDE DEF P
    <3>3. SUBSET S \subseteq P BY <2>1, <3>1, <3>2, SetOfSetsInduction
    <3> QED BY <3>3 DEF P
  <2>5. ExchangesOf(r, S) \subseteq DOMAIN r.wireFee BY DEF ExchangesOf, CoinsOK
  <2>6. SumOver(FeeOf(r), S) \in Nat /\ SumOver(AmountOf(r), S) \in Nat BY <2>1, <2>2, SumIsNat
  <2> QED BY <2>1, <2>3, <2>4, <2>5, <2>6
<1>2. ASSUME NEW E \in SUBSET DOMAIN r.wireFee, IsFiniteSet(E)
      PROVE  SumOver(r.wireFee, E) \in Nat /\ Cardinality(E) \in Nat
  <2>1. \A e \in E : r.wireFee[e] \in Nat BY DEF CoinsOK
  <2> QED BY <1>2, <2>1, SumIsNat, FS_CardinalityType
<1> QED BY <1>1, <1>2

(* A round keeps that the customer's fees are what the limits leave, but   *)
(* for the rounding.                                                       *)
LEMMA StillShares ==
    ASSUME NEW r, CoinsOK(r), NEW t \in Tallies(r), NEW i \in DOMAIN r.coins,
           i \notin Used(t), SharesAll(r, t), IsFiniteSet(t.covered)
    PROVE  SharesAll(r, Consider(r, t, i))
<1>1. CASE LeftOut(r, t, i)
  <2>1. Consider(r, t, i) = t BY <1>1, ConsiderTallies
  <2> QED BY <2>1
<1>2. CASE ~LeftOut(r, t, i)
  <2> DEFINE u == Consider(r, t, i)
             a == r.amortization
             e == r.coins[i].exchange
             W == SumOver(r.wireFee, t.covered)
             F == SumOver(FeeOf(r), Used(t))
             k == Cardinality(t.covered)
             w == Wire(r, t, i)
             y == Minus(w, t.wireLimit)
             q == y \div a
             fee == r.coins[i].fee
  <2>1. /\ Used(u) = Used(t) \cup {i} /\ \A j \in Used(t) : j \in DOMAIN r.coins
        /\ u.covered = t.covered \cup {e}
        /\ u.wireLimit = Minus(t.wireLimit, w)
        /\ u.depositLimit = Minus(t.depositLimit, Charged(r, t, i))
        /\ u.customerFees = t.customerFees + Minus(Charged(r, t, i), t.depositLimit)
    BY <1>2, CoinIsUsed
  <2>2. PICK share \in Nat : SharesFees(r, t, share) BY DEF SharesAll
  <2>3. /\ a \in Nat \ {0} /\ w \in Nat /\ q \in Nat /\ fee \in Nat /\ Charged(r, t, i) = q + fee
        /\ r.depositLimit \in Nat /\ r.wireLimit \in Nat
    BY ConsiderNumbers DEF CoinsOK, Charged
  <2>4. t.covered \in SUBSET DOMAIN r.wireFee /\ e \in DOMAIN r.wireFee BY DEF Tallies, CoinsOK
  <2>5. W \in Nat /\ k \in Nat /\ F \in Nat
    <3>1. Used(t) \in SUBSET DOMAIN r.coins BY <2>1
    <3> QED BY <2>4, <3>1, FeesAreNat
  <2> HIDE DEF u
  <2>6. SumOver(FeeOf(r), Used(u)) = F + fee
    <3>1. Used(u) \ {i} = Used(t) /\ i \in Used(u) /\ Used(u) \in SUBSET DOMAIN r.coins BY <2>1
    <3>2. IsFiniteSet(Used(u)) BY <3>1, FeesAreNat
    <3>3. FeeOf(r)[i] = fee /\ \A j \in Used(u) : FeeOf(r)[j] \in Nat
      BY <3>1 DEF FeeOf, CoinsOK
    <3>4. SumOver(FeeOf(r), Used(u)) = FeeOf(r)[i] + SumOver(FeeOf(r), Used(u) \ {i})
      BY <3>1, <3>2, <3>3, SumOverOneMore
    <3>5. SumOver(FeeOf(r), Used(u)) = fee + F BY <3>1, <3>3, <3>4
    <3>6. fee \in Nat /\ F \in Nat BY <2>3, <2>5
    <3> HIDE DEF fee, F
    <3> QED BY <3>5, <3>6
  <2>7. /\ SumOver(r.wireFee, u.covered) = W + w
        /\ Cardinality(u.covered) = IF e \in t.covered THEN k ELSE k + 1
        /\ e \in t.covered => w = 0
    <3>1. CASE e \in t.covered
      <4>1. u.covered = t.covered BY <2>1, <3>1
      <4>2. w = 0 BY <3>1 DEF Wire
      <4> HIDE DEF w
      <4> QED BY <2>5, <3>1, <4>1, <4>2
    <3>2. CASE e \notin t.covered
      <4>1. w = r.wireFee[e] BY <3>2 DEF Wire
      <4>2. u.covered \ {e} = t.covered /\ e \in u.covered BY <2>1, <3>2
      <4>3. IsFiniteSet(u.covered) /\ Cardinality(u.covered) = k + 1
        BY <2>1, <3>2, FS_AddElement
      <4>4. \A d \in u.covered : r.wireFee[d] \in Nat BY <2>1, <2>4 DEF CoinsOK
      <4>5. SumOver(r.wireFee, u.covered) = r.wireFee[e] + SumOver(r.wireFee, u.covered \ {e})
        BY <4>2, <4>3, <4>4, SumOverOneMore
      <4>6. SumOver(r.wireFee, u.covered) = w + W BY <4>1, <4>2, <4>5
      <4>7. w \in Nat /\ W \in Nat BY <2>3, <2>5
      <4> HIDE DEF w, k, W
      <4>8. SumOver(r.wireFee, u.covered) = W + w BY <4>6, <4>7
      <4> QED BY <3>2, <4>3, <4>8
    <3> QED BY <3>1, <3>2
  <2>8. t.wireLimit = Minus(r.wireLimit, W) BY DEF SharesAll
  <2> DEFINE wire == Minus(W, r.wireLimit)
  <2>9. /\ a * share <= wire /\ wire <= a * share + k * (a - 1)
        /\ t.depositLimit = Minus(r.depositLimit, share + F)
        /\ t.customerFees = Minus(share + F, r.depositLimit)
    BY <2>2 DEF SharesFees
  <2> HIDE DEF a, e, W, F, k, w, fee
  <2>10. y \in Nat /\ wire \in Nat BY <2>3, <2>5, <2>8, MinusIsNat
  <2>11. u.wireLimit = Minus(r.wireLimit, W + w) /\ Minus(W + w, r.wireLimit) = wire + y
    <3>1. w \in Nat /\ W \in Nat /\ r.wireLimit \in Nat BY <2>3, <2>5
    <3>2. /\ Minus(Minus(r.wireLimit, W), w) = Minus(r.wireLimit, W + w)
          /\ Minus(W + w, r.wireLimit) = Minus(W, r.wireLimit) + Minus(w, Minus(r.wireLimit, W))
      BY <3>1, MinusOfMinus
    <3> QED BY <2>1, <2>8, <3>2
  <2>12. w = 0 => y = 0 BY <2>3, <2>5, <2>8 DEF Minus
  <2> HIDE DEF wire, y
  <2>13. q = y \div a OBVIOUS
  <2> HIDE DEF q
  <2>14. /\ a * (share + q) <= wire + y
         /\ wire + y <= a * (share + q) + (k + 1) * (a - 1)
         /\ y = 0 => q = 0
    BY <2>3, <2>5, <2>9, <2>10, <2>13, WireFeeIsShared
  <2>15. wire + y <= a * (share + q) + Cardinality(u.covered) * (a - 1)
    <3>1. CASE e \in t.covered
      <4>1. y = 0 /\ q = 0 BY <2>7, <2>12, <2>14, <3>1
      <4>2. wire + y = wire /\ share + q = share BY <2>10, <4>1
      <4> QED BY <2>7, <2>9, <3>1, <4>2
    <3>2. CASE e \notin t.covered BY <2>7, <2>14, <3>2
    <3> QED BY <3>1, <3>2
  <2>16. /\ u.depositLimit = Minus(r.depositLimit, (share + F) + (q + fee))
         /\ u.customerFees = Minus((share + F) + (q + fee), r.depositLimit)
    <3>1. share + F \in Nat /\ q + fee \in Nat BY <2>3, <2>5
    <3>2. r.depositLimit \in Nat /\ Charged(r, t, i) = q + fee BY <2>3
    <3>3. /\ Minus(Minus(r.depositLimit, share + F), q + fee)
                = Minus(r.depositLimit, (share + F) + (q + fee))
          /\ Minus((share + F) + (q + fee), r.depositLimit)
                = Minus(share + F, r.depositLimit)
                  + Minus(q + fee, Minus(r.depositLimit, share + F))
      BY <3>1, <3>2, MinusOfMinus
    <3> QED BY <2>1, <2>9, <3>2, <3>3
  <2>17. (share + F) + (q + fee) = (share + q) + (F + fee) /\ share + q \in Nat BY <2>3, <2>5
  <2>18. SharesFees(r, u, share + q)
    BY <2>6, <2>7, <2>11, <2>14, <2>15, <2>16, <2>17 DEF SharesFees, a, wire
  <2> QED BY <2>7, <2>11, <2>17, <2>18 DEF SharesAll, u
<1> QED BY <1>1, <1>2
(* What the tally is worth, whatever coins there are.                      *)
TallyOK(r, S, t) ==
    /\ t \in Tallies(r) /\ IsFiniteSet(t.covered)
    /\ Contributes(r, S, t) /\ Pays(r, t) /\ SharesAll(r, t)

(* The invariant of the loop holds before its first round.                 *)
LEMMA NoCoinsTally ==
    ASSUME NEW r, CoinsOK(r) PROVE TallyOK(r, {}, NoCoins(r))
<1> DEFINE t == NoCoins(r)
<1>1. t \in Tallies(r) BY DEF NoCoins, Tallies, CoinsOK
<1>2. /\ t.remaining = r.price /\ t.wireLimit = r.wireLimit /\ t.depositLimit = r.depositLimit
      /\ t.customerFees = 0 /\ t.covered = {} /\ t.spends = [i \in DOMAIN r.coins |-> 0]
  BY DEF NoCoins
<1>3. Used(t) = {} BY <1>2 DEF Used
<1>4. r.price \in Nat /\ r.wireLimit \in Nat /\ r.depositLimit \in Nat /\ r.amortization \in Nat \ {0}
  BY DEF CoinsOK
<1> HIDE DEF t
<1>5. SumOver(t.spends, {}) = 0 /\ SumOver(FeeOf(r), {}) = 0 /\ SumOver(r.wireFee, {}) = 0
  BY SumOverNothing
<1>6. IsFiniteSet(t.covered) /\ Cardinality(t.covered) = 0 BY <1>2, FS_EmptySet
<1>7. Contributes(r, {}, t) BY <1>2, <1>3 DEF Contributes, ExchangesOf
<1>8. Pays(r, t) BY <1>2, <1>3, <1>4, <1>5 DEF Pays
<1>9. SharesFees(r, t, 0)
  <2>1. /\ Minus(0, r.wireLimit) = 0 /\ r.depositLimit = Minus(r.depositLimit, 0)
        /\ 0 = Minus(0, r.depositLimit)
    BY <1>4 DEF Minus
  <2>2. r.amortization * 0 = 0 /\ 0 * (r.amortization - 1) = 0 /\ 0 + 0 = 0 BY <1>4
  <2> QED BY <1>2, <1>3, <1>5, <1>6, <2>1, <2>2 DEF SharesFees
<1>10. t.wireLimit = Minus(r.wireLimit, SumOver(r.wireFee, t.covered))
  BY <1>2, <1>4, <1>5 DEF Minus
<1>11. SharesAll(r, t) BY <1>9, <1>10 DEF SharesAll
<1> QED BY <1>1, <1>6, <1>7, <1>8, <1>11 DEF TallyOK, t

(* The invariant of the loop holds after every round.                      *)
LEMMA TallyHolds ==
    ASSUME NEW r, CoinsOK(r)
    PROVE  \A S \in SUBSET DOMAIN r.coins : TallyOK(r, S, Tally(r)[S])
<1> DEFINE D == DOMAIN r.coins
           P == {S \in SUBSET D : TallyOK(r, S, Tally(r)[S])}
<1>1. {} \in P BY TallyIs, NoCoinsTally
<1>2. ASSUME NEW S \in SUBSET D, S # {}, \A x \in S : S \ {x} \in P PROVE S \in P
  <2> DEFINE i == LastOf(r, S)
             T == S \ {i}
             t == Tally(r)[T]
  <2>1. i \in S /\ Tally(r)[S] = Consider(r, t, i) BY <1>2, TallyIs
  <2>2. TallyOK(r, T, t) BY <1>2, <2>1
  <2>3. T \in SUBSET D /\ i \in D \ T /\ T \cup {i} = S BY <2>1
  <2> HIDE DEF i, t, T
  <2>4. /\ t \in Tallies(r) /\ IsFiniteSet(t.covered)
        /\ Contributes(r, T, t) /\ Pays(r, t) /\ SharesAll(r, t)
    BY <2>2 DEF TallyOK
  <2>5. i \notin Used(t) BY <2>3, <2>4 DEF Contributes
  <2>6. Contributes(r, S, Consider(r, t, i)) BY <2>3, <2>4, StillContributes
  <2>7. Pays(r, Consider(r, t, i)) BY <2>3, <2>4, <2>5, StillPays
  <2>8. SharesAll(r, Consider(r, t, i)) BY <2>3, <2>4, <2>5, StillShares
  <2>9. Consider(r, t, i) \in Tallies(r) BY <2>3, <2>4, ConsiderIsTally
  <2>10. IsFiniteSet(Consider(r, t, i).covered)
    <3>1. Consider(r, t, i).covered = ExchangesOf(r, Used(Consider(r, t, i)))
      BY <2>6 DEF Contributes
    <3>2. Used(Consider(r, t, i)) \in SUBSET D BY <2>6 DEF Contributes
    <3> QED BY <3>1, <3>2, FeesAreNat
  <2>11. TallyOK(r, S, Tally(r)[S]) BY <2>1, <2>6, <2>7, <2>8, <2>9, <2>10 DEF TallyOK
  <2> QED BY <2>11
<1>3. IsFiniteSet(D) BY DEF CoinsOK
<1> HIDE DEF P, D
<1>4. SUBSET D \subseteq P BY <1>1, <1>2, <1>3, SmallerSetsInduction
<1> QED BY <1>4 DEF P, D

(* The fees of the tally are the customer's share, but for the rounding.   *)
LEMMA FeesAreShared ==
    ASSUME NEW r, CoinsOK(r), NEW S \in SUBSET DOMAIN r.coins, NEW t, TallyOK(r, S, t)
    PROVE  LET share == CustomersShare(r, Used(t)) IN
           /\ t.customerFees \in Nat /\ share \in Nat /\ t.customerFees <= share
           /\ share <= t.customerFees + Minus(Cardinality(ExchangesOf(r, Used(t))), 1)
           /\ Cardinality(ExchangesOf(r, Used(t))) \in Nat
<1> DEFINE a == r.amortization
           k == Cardinality(t.covered)
           wire == Minus(SumOver(r.wireFee, t.covered), r.wireLimit)
           F == SumOver(FeeOf(r), Used(t))
           d == r.depositLimit
<1>1. PICK share \in Nat : SharesFees(r, t, share) BY DEF TallyOK, SharesAll
<1>2. /\ t.covered = ExchangesOf(r, Used(t)) /\ Used(t) \in SUBSET DOMAIN r.coins
      /\ t.customerFees \in Nat
  BY DEF TallyOK, Contributes, Tallies
<1>3. a \in Nat \ {0} /\ d \in Nat /\ r.wireLimit \in Nat BY DEF CoinsOK
<1>4. k \in Nat /\ F \in Nat /\ SumOver(r.wireFee, t.covered) \in Nat BY <1>2, FeesAreNat
<1>5. wire \in Nat BY <1>3, <1>4, MinusIsNat
<1>6. /\ a * share <= wire /\ wire <= a * share + k * (a - 1)
      /\ t.customerFees = Minus(share + F, d)
  BY <1>1 DEF SharesFees
<1>7. CustomersShare(r, Used(t)) = Minus((wire \div a) + F, d)
  BY <1>2 DEF CustomersShare
<1> HIDE DEF a, k, wire, F, d
<1>8. wire \div a \in Nat /\ share <= wire \div a /\ wire \div a <= share + Minus(k, 1)
  BY <1>3, <1>4, <1>5, <1>6, QuotientIsNear
<1>9. Minus(k, 1) \in Nat BY <1>4, MinusIsNat
<1>10. /\ Minus((wire \div a) + F, d) \in Nat
       /\ Minus(share + F, d) <= Minus((wire \div a) + F, d)
       /\ Minus((wire \div a) + F, d) <= Minus(share + F, d) + Minus(k, 1)
  <2> DEFINE q == wire \div a
             m == Minus(k, 1)
  <2> HIDE DEF q, m
  <2>1. q \in Nat /\ m \in Nat /\ share <= q /\ q <= share + m BY <1>8, <1>9 DEF q, m
  <2>2. /\ Minus(q + F, d) \in Nat /\ Minus(share + F, d) <= Minus(q + F, d)
        /\ Minus(q + F, d) <= Minus(share + F, d) + m
    BY <1>3, <1>4, <2>1 DEF Minus
  <2> QED BY <2>2 DEF q, m
<1>11. Cardinality(ExchangesOf(r, Used(t))) = k BY <1>2 DEF k
<1> QED BY <1>2, <1>4, <1>6, <1>7, <1>10, <1>11

(* What the tally gives when something remains to be paid: no set of coins *)
(* of one exchange would do.                                               *)
LEMMA NothingElsePays ==
    ASSUME NEW r, CoinsOK(r), Tally(r)[DOMAIN r.coins].remaining # 0,
           Cardinality(ExchangesOf(r, DOMAIN r.coins)) <= 1
    PROVE  ~CanPay(r)
<1> DEFINE D == DOMAIN r.coins
           t == Tally(r)[D]
           A == Sensible(r)
           k == Cardinality(ExchangesOf(r, A))
<1>1. TallyOK(r, D, t) BY TallyHolds
<1> HIDE DEF t
<1>2. t.remaining \in Nat /\ t.remaining > 0
  BY <1>1 DEF t, TallyOK, Tallies
<1>3. A \in SUBSET D BY DEF Sensible
<1>4. Used(t) = A /\ \A i \in A : t.spends[i] = AmountOf(r)[i]
  <2>1. Used(t) = D \cap A /\ \A i \in Used(t) : t.spends[i] = r.coins[i].available
    BY <1>1, <1>2 DEF TallyOK, Contributes
  <2>2. \A i \in D : AmountOf(r)[i] = r.coins[i].available BY DEF AmountOf
  <2> QED BY <1>3, <2>1, <2>2
<1>5. \A S \in SUBSET D : \A i \in S : /\ AmountOf(r)[i] \in Nat /\ FeeOf(r)[i] \in Nat
                                       /\ (S \subseteq A => FeeOf(r)[i] <= AmountOf(r)[i])
  BY DEF AmountOf, FeeOf, CoinsOK, Sensible
<1>6. SumOver(t.spends, A) = SumOver(AmountOf(r), A) /\ SumOver(AmountOf(r), A) \in Nat
  <2>1. IsFiniteSet(A) /\ SumOver(AmountOf(r), A) \in Nat BY <1>3, FeesAreNat
  <2>2. \A i \in A : AmountOf(r)[i] \in Nat /\ AmountOf(r)[i] = t.spends[i] BY <1>3, <1>4, <1>5
  <2>3. SumOver(AmountOf(r), A) = SumOver(t.spends, A) BY <2>1, <2>2, SumsEqual
  <2> QED BY <2>1, <2>3
<1>7. SumOver(AmountOf(r), A) + t.remaining = r.price + t.customerFees
  BY <1>1, <1>2, <1>4, <1>6 DEF TallyOK, Pays
<1>8. \A S \in SUBSET D : S # {} => ExchangesOf(r, S) = ExchangesOf(r, D)
  <2>1. IsFiniteSet(ExchangesOf(r, D)) BY FeesAreNat
  <2>2. Cardinality(ExchangesOf(r, D)) \in Nat BY <2>1, FS_CardinalityType
  <2> SUFFICES ASSUME NEW S \in SUBSET D, S # {} PROVE ExchangesOf(r, S) = ExchangesOf(r, D)
    OBVIOUS
  <2>3. ExchangesOf(r, S) # {} /\ ExchangesOf(r, S) \subseteq ExchangesOf(r, D) BY DEF ExchangesOf
  <2>4. Cardinality(ExchangesOf(r, D)) = 1
    <3>1. ExchangesOf(r, D) # {} BY <2>3
    <3>2. Cardinality(ExchangesOf(r, D)) # 0 BY <2>1, <3>1, FS_EmptySet
    <3> QED BY <2>2, <3>2
  <2>5. \E e : ExchangesOf(r, D) = {e} BY <2>1, <2>4, FS_Singleton
  <2> QED BY <2>3, <2>5
<1>9. CustomersShare(r, A) = t.customerFees /\ t.customerFees \in Nat
  <2>1. /\ t.customerFees \in Nat /\ CustomersShare(r, A) \in Nat
        /\ t.customerFees <= CustomersShare(r, A) /\ k \in Nat
        /\ CustomersShare(r, A) <= t.customerFees + Minus(k, 1)
    BY <1>1, <1>4, FeesAreShared
  <2>2. k <= 1
    <3>1. CASE A = {}
      <4>1. ExchangesOf(r, A) = {} BY <3>1 DEF ExchangesOf
      <4>2. k = 0 BY <4>1, FS_EmptySet
      <4> QED BY <4>2
    <3>2. CASE A # {}
      <4>1. ExchangesOf(r, A) = ExchangesOf(r, D) BY <1>3, <1>8, <3>2
      <4> QED BY <4>1
    <3> QED BY <3>1, <3>2
  <2> HIDE DEF k
  <2> QED BY <2>1, <2>2 DEF Minus
<1> SUFFICES ASSUME NEW S \in SUBSET A, S # {},
                    SumOver(AmountOf(r), S) >= r.price + CustomersShare(r, S)
             PROVE  FALSE
  BY DEF CanPay
<1> DEFINE B == A \ S
           q == Minus(SumOver(r.wireFee, ExchangesOf(r, S)), r.wireLimit) \div r.amortization
<1>10. S \in SUBSET D /\ B \in SUBSET D /\ B \subseteq A BY <1>3
<1>11. /\ IsFiniteSet(A) /\ IsFiniteSet(B)
       /\ SumOver(AmountOf(r), S) \in Nat /\ SumOver(AmountOf(r), B) \in Nat
       /\ SumOver(FeeOf(r), S) \in Nat /\ SumOver(FeeOf(r), B) \in Nat
       /\ SumOver(FeeOf(r), A) \in Nat
  BY <1>3, <1>10, FeesAreNat
<1>12. /\ SumOver(AmountOf(r), A) = SumOver(AmountOf(r), S) + SumOver(AmountOf(r), B)
       /\ SumOver(FeeOf(r), A) = SumOver(FeeOf(r), S) + SumOver(FeeOf(r), B)
  BY <1>3, <1>5, <1>11, SumSplits
<1>13. SumOver(FeeOf(r), B) <= SumOver(AmountOf(r), B) BY <1>5, <1>10, <1>11, SumIsLess
<1>14. ExchangesOf(r, A) = ExchangesOf(r, S) BY <1>3, <1>8, <1>10
<1>15. /\ CustomersShare(r, A) = Minus(q + SumOver(FeeOf(r), A), r.depositLimit)
       /\ CustomersShare(r, S) = Minus(q + SumOver(FeeOf(r), S), r.depositLimit)
  BY <1>14 DEF CustomersShare
<1>16. q \in Nat /\ r.depositLimit \in Nat /\ r.price \in Nat
  <2>1. r.wireLimit \in Nat /\ r.amortization \in Nat \ {0} /\ r.depositLimit \in Nat /\ r.price \in Nat
    BY DEF CoinsOK
  <2>2. SumOver(r.wireFee, ExchangesOf(r, S)) \in Nat BY <1>10, FeesAreNat
  <2>3. Minus(SumOver(r.wireFee, ExchangesOf(r, S)), r.wireLimit) \in Nat BY <2>1, <2>2, MinusIsNat
  <2> QED BY <2>1, <2>3, Quotient
<1> HIDE DEF q, B, A
<1>17. CustomersShare(r, A) <= CustomersShare(r, S) + SumOver(FeeOf(r), B)
       /\ CustomersShare(r, S) \in Nat
  BY <1>11, <1>12, <1>15, <1>16 DEF Minus
<1> QED BY <1>2, <1>7, <1>9, <1>11, <1>12, <1>13, <1>16, <1>17

(* SelectionPays holds of every list of candidates and all limits.         *)
LEMMA ChoicePays == ChoiceOK => SelectionPays
<1> SUFFICES ASSUME ChoiceOK, ask \in PayRequests, chosenNow # <<>> PROVE SelectionPays
  BY DEF SelectionPays
<1> DEFINE r == ask
           D == DOMAIN r.coins
           t == Tally(r)[D]
<1>1. chosenNow = SelectPayCoins(r) BY SelectionAssumption DEF ChoiceOK
<1>2. /\ CoinsOK(r)
      /\ r.coins \in Seq([exchange : DOMAIN r.wireFee, available : Nat \ {0}, fee : Nat])
  BY PaymentIsTyped
<1>3. TallyOK(r, D, t) BY <1>2, TallyHolds
<1>4. t.spends \in [D -> Nat] /\ t.customerFees \in Nat BY <1>3 DEF TallyOK, Tallies
<1>5. CASE r.coins = <<>> \/ t.remaining # 0
  <2>1. chosenNow = Undefined BY <1>1, <1>5 DEF SelectPayCoins
  <2>2. CASE r.coins = <<>>
    <3>1. D = {} BY <2>2
    <3>2. ~CanPay(r) BY <3>1 DEF CanPay, Sensible
    <3> QED BY <2>1, <3>2 DEF SelectionPays
  <2>3. CASE t.remaining # 0
    <3>1. Cardinality(ExchangesOf(r, D)) <= 1 => ~CanPay(r) BY <1>2, <2>3, NothingElsePays
    <3> QED BY <2>1, <3>1 DEF SelectionPays
  <2> QED BY <1>5, <2>2, <2>3
<1>6. CASE ~(r.coins = <<>> \/ t.remaining # 0)
  <2>1. chosenNow = [spends |-> t.spends, customerFees |-> t.customerFees]
    BY <1>1, <1>6 DEF SelectPayCoins
  <2>2. chosenNow.spends = t.spends /\ chosenNow.customerFees = t.customerFees BY <2>1
  <2>3. chosenNow # Undefined
    <3> DEFINE coins == r.coins
    <3> HIDE DEF coins
    <3>1. coins \in Seq([exchange : DOMAIN r.wireFee, available : Nat \ {0}, fee : Nat])
      BY <1>2 DEF coins
    <3>2. DOMAIN coins = 1..Len(coins) /\ Len(coins) \in Nat BY <3>1
    <3>3. t.spends \in [1..Len(coins) -> Nat] BY <1>4, <3>2 DEF coins
    <3> HIDE DEF t
    <3>4. t.spends \in Seq(Nat) BY <3>2, <3>3
    <3>5. chosenNow \in [spends : Seq(Nat), customerFees : Nat] BY <1>4, <2>1, <3>4
    <3> QED BY <3>5, SelectionAssumption
  <2> DEFINE used == {i \in D : t.spends[i] > 0}
  <2>4. used = Used(t) BY <1>4 DEF Used
  <2>5. /\ \A i \in used : t.spends[i] \in r.coins[i].fee..r.coins[i].available
        /\ SumOver(t.spends, used) >= r.price + t.customerFees
        /\ SumOver(t.spends, used) > r.price + t.customerFees =>
              \E i \in used : t.spends[i] = r.coins[i].fee
    BY <1>3, <1>6, <2>4 DEF TallyOK, Contributes, Pays
  <2>6. /\ t.customerFees <= CustomersShare(r, used)
        /\ CustomersShare(r, used)
              <= t.customerFees + Minus(Cardinality(ExchangesOf(r, used)), 1)
    BY <1>2, <1>3, <2>4, FeesAreShared
  <2> HIDE DEF t
  <2> QED BY <2>2, <2>3, <2>5, <2>6 DEF SelectionPays
<1> QED BY <1>5, <1>6

(* SelectionPays holds for every list of candidates, every price and all   *)
(* limits, fees and amortizations.                                         *)
THEOREM SelectionsPay == SelectionSpec => []SelectionPays
  BY ChoiceIsMade, ChoicePays, PTL
=============================================================================
