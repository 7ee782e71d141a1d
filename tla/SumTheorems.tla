----------------------------- MODULE SumTheorems -----------------------------
(***************************************************************************)
(* Sums over finite sets.  Nothing of what is received, billed, shipped or *)
(* paid is stored by the documents' services: they sum rows, and so do the *)
(* modules, with MapThenSumSet.  That operator fills a table of partial    *)
(* sums, taking one element at a time in an order left to CHOOSE.  The     *)
(* lemmas show that the table exists, that the order does not matter, and  *)
(* what follows for a sum when its set grows.                              *)
(*                                                                         *)
(* Induction is by the least counterexample: a set of cardinalities that   *)
(* has no least element is empty.                                          *)
(***************************************************************************)
EXTENDS Integers, FiniteSets, FiniteSetsExt, Folds, FiniteSetTheorems,
        WellFoundedInduction, TLAPS

\* The sum of w[x] over the elements of S.
Total(w, S) == MapThenSumSet(LAMBDA x : w[x], S)

\* The element that is taken first.
Pick(s) == CHOOSE x \in s : TRUE

\* g is the table of partial sums that MapThenSumSet fills for S.
SumsUp(g, w, S) ==
  g = [s \in SUBSET S |-> IF s = {} THEN 0
                          ELSE w[Pick(s)] + g[s \ {Pick(s)}]]

LEMMA LeastNumber ==
  ASSUME NEW S \in SUBSET Nat, S # {}
  PROVE  \E n \in S : \A m \in S : n <= m
<1>1. PICK n \in S : \A m \in S : <<m, n>> \notin OpToRel(<, Nat)
  BY NatLessThanWellFounded, WFMin
<1>2. \A m \in S : ~(m < n)
  BY <1>1 DEF OpToRel
<1> QED
  BY <1>2

LEMMA OneLess ==
  ASSUME NEW S, IsFiniteSet(S), NEW s \in SUBSET S, s # {}
  PROVE  /\ Pick(s) \in s /\ s \ {Pick(s)} \in SUBSET S
         /\ IsFiniteSet(s) /\ Cardinality(s) \in Nat
         /\ Cardinality(s \ {Pick(s)}) = Cardinality(s) - 1
<1>1. Pick(s) \in s
  BY DEF Pick
<1>2. IsFiniteSet(s) /\ Cardinality(s) \in Nat
  BY FS_Subset, FS_CardinalityType
<1>3. Cardinality(s \ {Pick(s)}) = Cardinality(s) - 1
  BY <1>1, <1>2, FS_RemoveElement
<1> QED
  BY <1>1, <1>2, <1>3

-----------------------------------------------------------------------------
(* The table of partial sums. *)

LEMMA PartialSums ==
  ASSUME NEW S, IsFiniteSet(S), NEW w
  PROVE  \E g : SumsUp(g, w, S)
<1> DEFINE Small(n) == {s \in SUBSET S : Cardinality(s) <= n}
           Upto(g, n) == g = [s \in Small(n) |->
                                IF s = {} THEN 0
                                ELSE w[Pick(s)] + g[s \ {Pick(s)}]]
           Bad == {n \in Nat : ~(\E g : Upto(g, n))}
<1>0. \A s \in SUBSET S : IsFiniteSet(s) /\ Cardinality(s) \in Nat
                       /\ Cardinality(s) <= Cardinality(S)
  BY FS_Subset, FS_CardinalityType
<1>1. Bad = {}
  <2> SUFFICES ASSUME Bad # {} PROVE FALSE
    OBVIOUS
  <2>1. PICK n \in Bad : \A m \in Bad : n <= m
    BY LeastNumber
  <2>2. n # 0
    <3> DEFINE g0 == [s \in Small(0) |-> 0]
    <3>1. \A s \in Small(0) : s = {}
      BY <1>0, FS_EmptySet
    <3>2. Upto(g0, 0)
      BY <3>1
    <3>3. \E g : Upto(g, 0)
      BY <3>2
    <3> HIDE DEF Upto
    <3> QED
      BY <2>1, <3>3
  <2>3. PICK g : Upto(g, n - 1)
    <3> HIDE DEF Upto
    <3>1. n - 1 \in Nat /\ ~(n <= n - 1)
      BY <2>1, <2>2
    <3>2. n - 1 \notin Bad
      BY <2>1, <3>1
    <3> QED
      BY <3>1, <3>2
  <2> DEFINE h == [s \in Small(n) |->
                     IF s = {} THEN 0
                     ELSE w[Pick(s)] + g[s \ {Pick(s)}]]
  <2>4. ASSUME NEW s \in Small(n - 1)
        PROVE  h[s] = g[s]
    <3>1. s \in Small(n)
      BY <1>0, <2>1
    <3>2. h[s] = IF s = {} THEN 0 ELSE w[Pick(s)] + g[s \ {Pick(s)}]
      BY <3>1
    <3>3. g[s] = IF s = {} THEN 0 ELSE w[Pick(s)] + g[s \ {Pick(s)}]
      <4> HIDE DEF Small
      <4> QED
        BY <2>3
    <3> QED
      BY <3>2, <3>3
  <2>5. ASSUME NEW s \in Small(n), s # {}
        PROVE  s \ {Pick(s)} \in Small(n - 1)
    BY <1>0, <2>1, <2>5, OneLess
  <2>6. \A s \in Small(n) :
          h[s] = IF s = {} THEN 0 ELSE w[Pick(s)] + h[s \ {Pick(s)}]
    <3> HIDE DEF Small
    <3> QED
      BY <2>4, <2>5
  <2>7. Upto(h, n)
    <3> HIDE DEF Small
    <3>1. h = [s \in Small(n) |-> h[s]]
      OBVIOUS
    <3> HIDE DEF h
    <3> QED
      BY <2>6, <3>1
  <2> QED
    BY <2>1, <2>7
<1>2. Cardinality(S) \in Nat /\ Small(Cardinality(S)) = SUBSET S
  BY <1>0, FS_CardinalityType
<1>3. PICK g : Upto(g, Cardinality(S))
  BY <1>1, <1>2
<1> HIDE DEF Small
<1> QED
  BY <1>2, <1>3 DEF SumsUp

\* Two tables agree on the subsets they share, if the summands do.
LEMMA SumsAgree ==
  ASSUME NEW S, IsFiniteSet(S), NEW v, NEW w, \A x \in S : v[x] = w[x],
         NEW T, S \in SUBSET T, NEW g, NEW h, SumsUp(g, v, S), SumsUp(h, w, T)
  PROVE  \A s \in SUBSET S : g[s] = h[s]
<1> DEFINE Bad == {n \in Nat : \E s \in SUBSET S : Cardinality(s) = n /\ g[s] # h[s]}
<1>0. ASSUME NEW s \in SUBSET S
      PROVE  /\ g[s] = IF s = {} THEN 0 ELSE v[Pick(s)] + g[s \ {Pick(s)}]
             /\ h[s] = IF s = {} THEN 0 ELSE w[Pick(s)] + h[s \ {Pick(s)}]
  <2>1. s \in SUBSET T
    OBVIOUS
  <2> QED
    BY <2>1 DEF SumsUp
<1>1. Bad = {}
  <2> SUFFICES ASSUME Bad # {} PROVE FALSE
    OBVIOUS
  <2>1. PICK n \in Bad : \A m \in Bad : n <= m
    BY LeastNumber
  <2>2. PICK s \in SUBSET S : Cardinality(s) = n /\ g[s] # h[s]
    BY <2>1
  <2>3. s # {}
    BY <1>0, <2>2
  <2>4. /\ Pick(s) \in S /\ s \ {Pick(s)} \in SUBSET S
        /\ Cardinality(s \ {Pick(s)}) = n - 1 /\ n \in Nat /\ n - 1 \in Nat
    <3>1. /\ Pick(s) \in s /\ s \ {Pick(s)} \in SUBSET S
          /\ Cardinality(s \ {Pick(s)}) = n - 1 /\ IsFiniteSet(s)
      BY <2>2, <2>3, OneLess
    <3>2. IsFiniteSet(s \ {Pick(s)}) /\ Cardinality(s \ {Pick(s)}) \in Nat
      BY <3>1, FS_Subset, FS_CardinalityType
    <3> QED
      BY <2>1, <3>1, <3>2
  <2>5. g[s \ {Pick(s)}] = h[s \ {Pick(s)}]
    BY <2>1, <2>4
  <2>6. v[Pick(s)] = w[Pick(s)]
    BY <2>4
  <2> QED
    BY <1>0, <2>2, <2>3, <2>5, <2>6
<1>2. \A s \in SUBSET S : Cardinality(s) \in Nat
  BY FS_Subset, FS_CardinalityType
<1> QED
  BY <1>1, <1>2

LEMMA TotalIsPartial ==
  ASSUME NEW S, IsFiniteSet(S), NEW w
  PROVE  \E g : SumsUp(g, w, S) /\ Total(w, S) = g[S]
<1>1. PICK g : SumsUp(g, w, S)
  BY PartialSums
<1>2. SumsUp(CHOOSE h : SumsUp(h, w, S), w, S)
  BY <1>1
<1>3. Total(w, S) = (CHOOSE h : SumsUp(h, w, S))[S]
  BY DEF Total, MapThenSumSet, MapThenFoldSet, SumsUp, Pick
<1> QED
  BY <1>2, <1>3

\* The shapes in which the modules write their sums.
LEMMA TotalOfEntries ==
  ASSUME NEW S, IsFiniteSet(S), NEW W, NEW i
  PROVE  MapThenSumSet(LAMBDA x : W[x][i], S) = Total([x \in S |-> W[x][i]], S)
<1> DEFINE w == [x \in S |-> W[x][i]]
           Sums(h) == h = [s \in SUBSET S |->
                             IF s = {} THEN 0
                             ELSE W[Pick(s)][i] + h[s \ {Pick(s)}]]
<1>1. MapThenSumSet(LAMBDA x : W[x][i], S) = (CHOOSE h : Sums(h))[S]
  BY DEF MapThenSumSet, MapThenFoldSet, Pick
<1>2. \A s \in SUBSET S : s # {} => Pick(s) \in S
  BY DEF Pick
<1>3. ASSUME NEW h
      PROVE  Sums(h) <=> SumsUp(h, w, S)
  <2>1. [s \in SUBSET S |-> IF s = {} THEN 0 ELSE W[Pick(s)][i] + h[s \ {Pick(s)}]]
        = [s \in SUBSET S |-> IF s = {} THEN 0 ELSE w[Pick(s)] + h[s \ {Pick(s)}]]
    BY <1>2
  <2> QED
    BY <2>1 DEF SumsUp
<1> HIDE DEF Sums, w
<1>4. PICK g : SumsUp(g, w, S) /\ Total(w, S) = g[S]
  BY TotalIsPartial
<1>5. Sums(CHOOSE h : Sums(h))
  BY <1>3, <1>4
<1>6. SumsUp(CHOOSE h : Sums(h), w, S)
  BY <1>3, <1>5
<1>7. (CHOOSE h : Sums(h))[S] = g[S]
  BY <1>4, <1>6, SumsAgree
<1>8. MapThenSumSet(LAMBDA x : W[x][i], S) = Total(w, S)
  BY <1>1, <1>4, <1>7
<1> QED
  BY <1>8 DEF w

LEMMA TotalOfQuantities ==
  ASSUME NEW S, IsFiniteSet(S), NEW lines
  PROVE  MapThenSumSet(LAMBDA x : lines[x].qty, S) = Total([x \in S |-> lines[x].qty], S)
<1> DEFINE w == [x \in S |-> lines[x].qty]
           Sums(h) == h = [s \in SUBSET S |->
                             IF s = {} THEN 0
                             ELSE lines[Pick(s)].qty + h[s \ {Pick(s)}]]
<1>1. MapThenSumSet(LAMBDA x : lines[x].qty, S) = (CHOOSE h : Sums(h))[S]
  BY DEF MapThenSumSet, MapThenFoldSet, Pick
<1>2. \A s \in SUBSET S : s # {} => Pick(s) \in S
  BY DEF Pick
<1>3. ASSUME NEW h
      PROVE  Sums(h) <=> SumsUp(h, w, S)
  <2>1. [s \in SUBSET S |-> IF s = {} THEN 0 ELSE lines[Pick(s)].qty + h[s \ {Pick(s)}]]
        = [s \in SUBSET S |-> IF s = {} THEN 0 ELSE w[Pick(s)] + h[s \ {Pick(s)}]]
    BY <1>2
  <2> QED
    BY <2>1 DEF SumsUp
<1> HIDE DEF Sums, w
<1>4. PICK g : SumsUp(g, w, S) /\ Total(w, S) = g[S]
  BY TotalIsPartial
<1>5. Sums(CHOOSE h : Sums(h))
  BY <1>3, <1>4
<1>6. SumsUp(CHOOSE h : Sums(h), w, S)
  BY <1>3, <1>5
<1>7. (CHOOSE h : Sums(h))[S] = g[S]
  BY <1>4, <1>6, SumsAgree
<1>8. MapThenSumSet(LAMBDA x : lines[x].qty, S) = Total(w, S)
  BY <1>1, <1>4, <1>7
<1> QED
  BY <1>8 DEF w

LEMMA TotalOfAmounts ==
  ASSUME NEW S, IsFiniteSet(S), NEW lines
  PROVE  MapThenSumSet(LAMBDA x : lines[x].amount, S) = Total([x \in S |-> lines[x].amount], S)
<1> DEFINE w == [x \in S |-> lines[x].amount]
           Sums(h) == h = [s \in SUBSET S |->
                             IF s = {} THEN 0
                             ELSE lines[Pick(s)].amount + h[s \ {Pick(s)}]]
<1>1. MapThenSumSet(LAMBDA x : lines[x].amount, S) = (CHOOSE h : Sums(h))[S]
  BY DEF MapThenSumSet, MapThenFoldSet, Pick
<1>2. \A s \in SUBSET S : s # {} => Pick(s) \in S
  BY DEF Pick
<1>3. ASSUME NEW h
      PROVE  Sums(h) <=> SumsUp(h, w, S)
  <2>1. [s \in SUBSET S |-> IF s = {} THEN 0 ELSE lines[Pick(s)].amount + h[s \ {Pick(s)}]]
        = [s \in SUBSET S |-> IF s = {} THEN 0 ELSE w[Pick(s)] + h[s \ {Pick(s)}]]
    BY <1>2
  <2> QED
    BY <2>1 DEF SumsUp
<1> HIDE DEF Sums, w
<1>4. PICK g : SumsUp(g, w, S) /\ Total(w, S) = g[S]
  BY TotalIsPartial
<1>5. Sums(CHOOSE h : Sums(h))
  BY <1>3, <1>4
<1>6. SumsUp(CHOOSE h : Sums(h), w, S)
  BY <1>3, <1>5
<1>7. (CHOOSE h : Sums(h))[S] = g[S]
  BY <1>4, <1>6, SumsAgree
<1>8. MapThenSumSet(LAMBDA x : lines[x].amount, S) = Total(w, S)
  BY <1>1, <1>4, <1>7
<1> QED
  BY <1>8 DEF w

-----------------------------------------------------------------------------
(* How a sum depends on its set. *)

LEMMA TotalEmpty ==
  ASSUME NEW w
  PROVE  Total(w, {}) = 0
<1>1. IsFiniteSet({})
  BY FS_EmptySet
<1>2. PICK g : SumsUp(g, w, {}) /\ Total(w, {}) = g[{}]
  BY <1>1, TotalIsPartial
<1> QED
  BY <1>2 DEF SumsUp

LEMMA TotalAgrees ==
  ASSUME NEW S, IsFiniteSet(S), NEW v, NEW w, \A x \in S : v[x] = w[x]
  PROVE  Total(v, S) = Total(w, S)
<1>1. PICK g : SumsUp(g, v, S) /\ Total(v, S) = g[S]
  BY TotalIsPartial
<1>2. PICK h : SumsUp(h, w, S) /\ Total(w, S) = h[S]
  BY TotalIsPartial
<1>3. S \in SUBSET S
  OBVIOUS
<1>4. \A s \in SUBSET S : g[s] = h[s]
  BY <1>1, <1>2, <1>3, SumsAgree
<1> QED
  BY <1>1, <1>2, <1>4

\* A table of partial sums holds the sums of the parts.
LEMMA PartialIsTotal ==
  ASSUME NEW S, IsFiniteSet(S), NEW w, NEW g, SumsUp(g, w, S),
         NEW s \in SUBSET S
  PROVE  g[s] = Total(w, s)
<1>1. IsFiniteSet(s)
  BY FS_Subset
<1>2. PICK h : SumsUp(h, w, s) /\ Total(w, s) = h[s]
  BY <1>1, TotalIsPartial
<1>3. \A r \in SUBSET s : h[r] = g[r]
  BY <1>1, <1>2, SumsAgree
<1> QED
  BY <1>2, <1>3

LEMMA TotalOfPick ==
  ASSUME NEW S, IsFiniteSet(S), NEW w, S # {}
  PROVE  Total(w, S) = w[Pick(S)] + Total(w, S \ {Pick(S)})
<1>1. PICK g : SumsUp(g, w, S) /\ Total(w, S) = g[S]
  BY TotalIsPartial
<1>2. g[S] = w[Pick(S)] + g[S \ {Pick(S)}]
  BY <1>1 DEF SumsUp
<1>3. g[S \ {Pick(S)}] = Total(w, S \ {Pick(S)})
  BY <1>1, PartialIsTotal
<1> QED
  BY <1>1, <1>2, <1>3

LEMMA TotalType ==
  ASSUME NEW S, IsFiniteSet(S), NEW w, \A x \in S : w[x] \in Nat
  PROVE  Total(w, S) \in Nat
<1> DEFINE Bad == {n \in Nat : \E s \in SUBSET S :
                                 Cardinality(s) = n /\ Total(w, s) \notin Nat}
<1>1. Bad = {}
  <2> SUFFICES ASSUME Bad # {} PROVE FALSE
    OBVIOUS
  <2>1. PICK n \in Bad : \A m \in Bad : n <= m
    BY LeastNumber
  <2>2. PICK s \in SUBSET S : Cardinality(s) = n /\ Total(w, s) \notin Nat
    BY <2>1
  <2>3. s # {}
    BY <2>2, TotalEmpty
  <2>4. Pick(s) \in s /\ IsFiniteSet(s) /\ Cardinality(s \ {Pick(s)}) = n - 1
    BY <2>2, <2>3, OneLess
  <2>5. n - 1 \in Nat
    <3>1. IsFiniteSet(s \ {Pick(s)})
      BY <2>4, FS_Subset
    <3> QED
      BY <2>4, <3>1, FS_CardinalityType
  <2>6. Total(w, s \ {Pick(s)}) \in Nat
    BY <2>1, <2>4, <2>5
  <2>7. Total(w, s) = w[Pick(s)] + Total(w, s \ {Pick(s)})
    BY <2>3, <2>4, TotalOfPick
  <2>8. w[Pick(s)] \in Nat
    BY <2>4
  <2> QED
    BY <2>2, <2>6, <2>7, <2>8
<1>2. Cardinality(S) \in Nat
  BY FS_CardinalityType
<1> QED
  BY <1>1, <1>2

\* The order in which the elements are taken does not matter.
LEMMA TotalWithout ==
  ASSUME NEW S, IsFiniteSet(S), NEW w, \A x \in S : w[x] \in Nat, NEW y \in S
  PROVE  Total(w, S) = w[y] + Total(w, S \ {y})
<1> DEFINE Same(s, x) == Total(w, s) = w[x] + Total(w, s \ {x})
           Bad == {n \in Nat : \E s \in SUBSET S : \E x \in s :
                                 Cardinality(s) = n /\ ~Same(s, x)}
<1>0. \A s \in SUBSET S : IsFiniteSet(s) /\ Cardinality(s) \in Nat
                       /\ Total(w, s) \in Nat
  <2> TAKE s \in SUBSET S
  <2>1. IsFiniteSet(s)
    BY FS_Subset
  <2> QED
    BY <2>1, FS_CardinalityType, TotalType
<1>1. Bad = {}
  <2> SUFFICES ASSUME Bad # {} PROVE FALSE
    OBVIOUS
  <2>1. PICK n \in Bad : \A m \in Bad : n <= m
    BY LeastNumber
  <2>2a. PICK s \in SUBSET S : \E x \in s : Cardinality(s) = n /\ ~Same(s, x)
    BY <2>1
  <2>2. PICK x \in s : Cardinality(s) = n /\ ~Same(s, x)
    BY <2>2a
  <2> DEFINE p == Pick(s)
  <2>3. p \in s /\ IsFiniteSet(s) /\ Cardinality(s \ {p}) = n - 1
    BY <2>2, OneLess
  <2>4. Same(s, p)
    BY <2>2, <2>3, TotalOfPick
  <2>5. x # p
    BY <2>2, <2>4
  <2>6. n - 1 \in Nat /\ n - 1 \notin Bad
    <3>1. n - 1 \in Nat
      BY <1>0, <2>3
    <3> QED
      BY <2>1, <3>1
  <2>7. Cardinality(s \ {x}) = n - 1
    BY <2>2, <2>3, FS_RemoveElement
  <2> HIDE DEF p
  <2>8. Same(s \ {p}, x)
    BY <2>3, <2>5, <2>6
  <2>9. Same(s \ {x}, p)
    BY <2>3, <2>5, <2>6, <2>7
  <2>10. (s \ {p}) \ {x} = (s \ {x}) \ {p}
    OBVIOUS
  <2>11. /\ w[x] \in Nat /\ w[p] \in Nat /\ Total(w, s \ {p}) \in Nat
         /\ Total(w, s \ {x}) \in Nat /\ Total(w, (s \ {x}) \ {p}) \in Nat
    BY <1>0, <2>3
  <2>12. /\ Total(w, s) = w[p] + Total(w, s \ {p})
         /\ Total(w, s \ {p}) = w[x] + Total(w, (s \ {x}) \ {p})
         /\ Total(w, s \ {x}) = w[p] + Total(w, (s \ {x}) \ {p})
    BY <2>4, <2>8, <2>9, <2>10
  <2>13. w[p] + (w[x] + Total(w, (s \ {x}) \ {p}))
         = w[x] + (w[p] + Total(w, (s \ {x}) \ {p}))
    BY <2>11
  <2> QED
    BY <2>2, <2>12, <2>13
<1>2. Cardinality(S) \in Nat
  BY FS_CardinalityType
<1> QED
  BY <1>1, <1>2

\* A sum grows with its set.
LEMMA TotalMonotone ==
  ASSUME NEW S, IsFiniteSet(S), NEW w, \A x \in S : w[x] \in Nat, NEW T \in SUBSET S
  PROVE  Total(w, T) <= Total(w, S)
<1> DEFINE Bad == {n \in Nat : \E s \in SUBSET S :
                     /\ T \subseteq s /\ Cardinality(s) = n
                     /\ ~(Total(w, T) <= Total(w, s))}
<1>0. \A s \in SUBSET S : IsFiniteSet(s) /\ Cardinality(s) \in Nat
                       /\ Total(w, s) \in Nat
  <2> TAKE s \in SUBSET S
  <2>1. IsFiniteSet(s)
    BY FS_Subset
  <2> QED
    BY <2>1, FS_CardinalityType, TotalType
<1>1. Bad = {}
  <2> SUFFICES ASSUME Bad # {} PROVE FALSE
    OBVIOUS
  <2>1. PICK n \in Bad : \A m \in Bad : n <= m
    BY LeastNumber
  <2>2. PICK s \in SUBSET S : /\ T \subseteq s /\ Cardinality(s) = n
                              /\ ~(Total(w, T) <= Total(w, s))
    BY <2>1
  <2>3. PICK x \in s : x \notin T
    BY <1>0, <2>2
  <2>4. Cardinality(s \ {x}) = n - 1
    BY <1>0, <2>2, <2>3, FS_RemoveElement
  <2>5. n - 1 \in Nat /\ n - 1 \notin Bad
    <3>1. n - 1 \in Nat
      BY <1>0, <2>4
    <3> QED
      BY <2>1, <3>1
  <2>6. Total(w, T) <= Total(w, s \ {x})
    BY <2>2, <2>3, <2>4, <2>5
  <2>7. Total(w, s) = w[x] + Total(w, s \ {x})
    BY <1>0, <2>3, TotalWithout
  <2>8. /\ w[x] \in Nat /\ Total(w, T) \in Nat
        /\ Total(w, s) \in Nat /\ Total(w, s \ {x}) \in Nat
    BY <1>0, <2>3
  <2> HIDE DEF Bad
  <2> QED
    BY <2>2, <2>6, <2>7, <2>8
<1>2. Cardinality(S) \in Nat
  BY FS_CardinalityType
<1> QED
  BY <1>1, <1>2

LEMMA TotalBounds ==
  ASSUME NEW S, IsFiniteSet(S), NEW w, \A x \in S : w[x] \in Nat, NEW y \in S
  PROVE  w[y] <= Total(w, S)
<1>1. IsFiniteSet(S \ {y})
  BY FS_Subset
<1>2. Total(w, S \ {y}) \in Nat
  BY <1>1, TotalType
<1> QED
  BY <1>2, TotalWithout

LEMMA TotalOfOne ==
  ASSUME NEW w, NEW y, w[y] \in Nat
  PROVE  Total(w, {y}) = w[y]
<1>1. IsFiniteSet({y}) /\ {y} \ {y} = {}
  BY FS_Singleton
<1>2. Total(w, {y}) = w[y] + Total(w, {y} \ {y})
  BY <1>1, TotalWithout
<1> QED
  BY <1>1, <1>2, TotalEmpty

\* Entries of zero add nothing.
LEMMA TotalPadded ==
  ASSUME NEW S, IsFiniteSet(S), NEW w, \A x \in S : w[x] \in Nat, NEW T \in SUBSET S,
         \A x \in S \ T : w[x] = 0
  PROVE  Total(w, S) = Total(w, T)
<1> DEFINE Bad == {n \in Nat : \E s \in SUBSET S :
                     /\ T \subseteq s /\ Cardinality(s) = n
                     /\ Total(w, s) # Total(w, T)}
<1>0. \A s \in SUBSET S : IsFiniteSet(s) /\ Cardinality(s) \in Nat
                       /\ Total(w, s) \in Nat
  <2> TAKE s \in SUBSET S
  <2>1. IsFiniteSet(s)
    BY FS_Subset
  <2> QED
    BY <2>1, FS_CardinalityType, TotalType
<1>1. Bad = {}
  <2> SUFFICES ASSUME Bad # {} PROVE FALSE
    OBVIOUS
  <2>1. PICK n \in Bad : \A m \in Bad : n <= m
    BY LeastNumber
  <2>2. PICK s \in SUBSET S : /\ T \subseteq s /\ Cardinality(s) = n
                              /\ Total(w, s) # Total(w, T)
    BY <2>1
  <2>3. PICK x \in s : x \notin T
    BY <2>2
  <2>4. Cardinality(s \ {x}) = n - 1
    BY <1>0, <2>2, <2>3, FS_RemoveElement
  <2>5. n - 1 \in Nat /\ n - 1 \notin Bad
    <3>1. n - 1 \in Nat
      BY <1>0, <2>4
    <3> QED
      BY <2>1, <3>1
  <2>6. Total(w, T) = Total(w, s \ {x})
    BY <2>2, <2>3, <2>4, <2>5
  <2>7. Total(w, s) = w[x] + Total(w, s \ {x})
    BY <1>0, <2>3, TotalWithout
  <2>8. w[x] = 0 /\ Total(w, T) \in Nat
    BY <1>0, <2>3
  <2> HIDE DEF Bad
  <2> QED
    BY <2>2, <2>6, <2>7, <2>8
<1>2. Cardinality(S) \in Nat
  BY FS_CardinalityType
<1> QED
  BY <1>1, <1>2

\* A finite set of numbers has a greatest one: their sum bounds them.
LEMMA GreatestNumber ==
  ASSUME NEW S \in SUBSET Nat, IsFiniteSet(S), S # {}
  PROVE  Max(S) \in S /\ \A x \in S : x <= Max(S)
<1> DEFINE w == [x \in S |-> x]
           Above == {n \in Nat : \A x \in S : x <= n}
<1>1. Total(w, S) \in Above
  <2>1. \A x \in S : w[x] = x /\ w[x] \in Nat
    OBVIOUS
  <2> HIDE DEF w
  <2>2. Total(w, S) \in Nat /\ \A x \in S : w[x] <= Total(w, S)
    BY <2>1, TotalType, TotalBounds
  <2> QED
    BY <2>1, <2>2
<1>2. PICK n \in Above : \A m \in Above : n <= m
  BY <1>1, LeastNumber
<1>3. n \in S
  <2> SUFFICES ASSUME n \notin S PROVE FALSE
    OBVIOUS
  <2>1. \A x \in S : x \in Nat /\ x <= n /\ x # n
    BY <1>2
  <2>2. n \in Nat /\ n # 0
    <3>1. n \in Nat /\ \E x \in S : x \in Nat /\ x <= n /\ x # n
      BY <1>2, <2>1
    <3> HIDE DEF Above
    <3> QED
      BY <3>1
  <2>3. n - 1 \in Nat /\ \A x \in S : x <= n - 1
    <3> HIDE DEF Above
    <3>1. n - 1 \in Nat
      BY <2>2
    <3>2. ASSUME NEW x \in S PROVE x <= n - 1
      BY <2>1, <2>2
    <3> QED
      BY <3>1, <3>2
  <2> QED
    BY <1>2, <2>3
<1>4. \E x \in S : \A y \in S : x >= y
  BY <1>2, <1>3
<1> QED
  BY <1>4 DEF Max

\* A function of finitely many arguments has finitely many values.
LEMMA FiniteValues ==
  ASSUME NEW S, IsFiniteSet(S), NEW T, NEW f \in [S -> T]
  PROVE  IsFiniteSet({f[x] : x \in S})
<1> DEFINE V == {f[x] : x \in S}
<1>1. f \in Surjection(S, V)
  BY DEF Surjection
<1> QED
  BY <1>1, FS_Surjection

\* One entry grows by n.
LEMMA TotalRaised ==
  ASSUME NEW S, IsFiniteSet(S), NEW w, \A x \in S : w[x] \in Nat, NEW y \in S, NEW n \in Nat,
         NEW v, v[y] = w[y] + n, \A x \in S \ {y} : v[x] = w[x]
  PROVE  Total(v, S) = Total(w, S) + n
<1>1. IsFiniteSet(S \ {y})
  BY FS_Subset
<1>2. \A x \in S : v[x] \in Nat
  BY DEF Total
<1>3. Total(v, S) = v[y] + Total(v, S \ {y}) /\ Total(w, S) = w[y] + Total(w, S \ {y})
  BY <1>2, TotalWithout
<1>4. Total(v, S \ {y}) = Total(w, S \ {y})
  BY <1>1, TotalAgrees
<1>5. Total(w, S \ {y}) \in Nat
  BY <1>1, TotalType
<1> QED
  BY <1>3, <1>4, <1>5

\* A sum of zeros.
LEMMA TotalOfZeros ==
  ASSUME NEW S, IsFiniteSet(S), NEW w, \A x \in S : w[x] = 0
  PROVE  Total(w, S) = 0
<1>1. Total(w, S) = Total(w, {})
  BY TotalPadded
<1> QED
  BY <1>1, TotalEmpty

\* A sum of which one addend changes.
LEMMA TotalChanged ==
  ASSUME NEW S, IsFiniteSet(S), NEW w, \A x \in S : w[x] \in Nat, NEW y \in S, NEW n \in Int,
         NEW v, \A x \in S : v[x] \in Nat, v[y] = w[y] + n, \A x \in S \ {y} : v[x] = w[x]
  PROVE  Total(v, S) = Total(w, S) + n
<1>1. IsFiniteSet(S \ {y})
  BY FS_Subset
<1>2. Total(v, S) = v[y] + Total(v, S \ {y}) /\ Total(w, S) = w[y] + Total(w, S \ {y})
  BY TotalWithout
<1>3. Total(v, S \ {y}) = Total(w, S \ {y})
  BY <1>1, TotalAgrees
<1>4. Total(w, S \ {y}) \in Nat
  BY <1>1, TotalType
<1> QED
  BY <1>2, <1>3, <1>4
=============================================================================
