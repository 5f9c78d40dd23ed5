---------------------------- MODULE ListTheorems ----------------------------
(***************************************************************************)
(* Facts about finite sets, ordered rows and folds that the proofs of the  *)
(* components share.  They hold for every instance; induction is done by a *)
(* least counterexample.                                                   *)
(***************************************************************************)
EXTENDS Orderings, SequencesExt, FiniteSetTheorems, SequenceTheorems,
        WellFoundedInduction, TLAPS

(***************************************************************************)
(* Rows in order.                                                          *)
(***************************************************************************)
LEMMA EarlierRows ==
  ASSUME NEW S, IsFiniteSet(S), NEW R, OrdersRows(S, R), NEW x \in S
  PROVE  /\ IsFiniteSet(Earlier(S, R, x))
         /\ Cardinality(Earlier(S, R, x)) \in 0 .. Cardinality(S) - 1
         /\ \A y \in S : <<x, y>> \in R =>
              Cardinality(Earlier(S, R, x)) < Cardinality(Earlier(S, R, y))
<1>1. /\ \A T \in SUBSET S : /\ IsFiniteSet(T) /\ Cardinality(T) \in Nat
                             /\ Cardinality(T) <= Cardinality(S)
                             /\ Cardinality(S) = Cardinality(T) => S = T
      /\ Cardinality(S) \in Nat
  BY FS_Subset, FS_CardinalityType
<1>2. Earlier(S, R, x) \in SUBSET S /\ x \notin Earlier(S, R, x)
  BY DEF Earlier, OrdersRows
<1>3. Cardinality(Earlier(S, R, x)) \in 0 .. Cardinality(S) - 1
  BY <1>1, <1>2
<1>4. ASSUME NEW y \in S, <<x, y>> \in R
      PROVE  Cardinality(Earlier(S, R, x)) < Cardinality(Earlier(S, R, y))
  <2>1. Earlier(S, R, y) \in SUBSET S /\ Earlier(S, R, x) \subseteq Earlier(S, R, y)
    BY <1>4 DEF Earlier, OrdersRows
  <2>2. x \in Earlier(S, R, y)
    BY <1>4 DEF Earlier
  <2>3. /\ Cardinality(Earlier(S, R, x)) <= Cardinality(Earlier(S, R, y))
        /\ Cardinality(Earlier(S, R, x)) # Cardinality(Earlier(S, R, y))
    BY <1>1, <1>2, <2>1, <2>2, FS_Subset
  <2>4. QED
    BY <1>1, <1>2, <2>1, <2>3
<1>5. QED
  BY <1>1, <1>2, <1>3, <1>4

(* An order has a row at every place, and one only.                        *)
THEOREM RowsAreOrdered ==
  ASSUME NEW S, IsFiniteSet(S), NEW R, OrdersRows(S, R)
  PROVE  /\ Cardinality(S) \in Nat
         /\ OrderedBy(S, R) \in [1 .. Cardinality(S) -> S]
         /\ \A x \in S : \E i \in 1 .. Cardinality(S) : OrderedBy(S, R)[i] = x
         /\ \A i, j \in 1 .. Cardinality(S) :
              i < j => <<OrderedBy(S, R)[i], OrderedBy(S, R)[j]>> \in R
<1> DEFINE n == Cardinality(S)
           Rank == [x \in S |-> Cardinality(Earlier(S, R, x)) + 1]
<1>1. n \in Nat /\ IsFiniteSet(1 .. n) /\ Cardinality(1 .. n) = n
  BY FS_CardinalityType, FS_Interval
<1>2. Rank \in [S -> 1 .. n]
  BY <1>1, EarlierRows
<1>3. ASSUME NEW x \in S, NEW y \in S, <<x, y>> \in R
      PROVE  Rank[x] < Rank[y]
  BY <1>3, <1>1, EarlierRows
<1>4. \A x, y \in S : x # y => Rank[x] # Rank[y]
  <2>1. ASSUME NEW x \in S, NEW y \in S, x # y
        PROVE  Rank[x] # Rank[y]
    <3>1. Rank[x] \in Nat /\ Rank[y] \in Nat
      BY <1>2
    <3>2. <<x, y>> \in R \/ <<y, x>> \in R
      BY <2>1 DEF OrdersRows
    <3>3. Rank[x] < Rank[y] \/ Rank[y] < Rank[x]
      BY <1>3, <3>2
    <3> HIDE DEF Rank
    <3>4. QED
      BY <3>1, <3>3
  <2>2. QED
    BY <2>1
<1>5. Rank \in Injection(S, 1 .. n)
  BY <1>2, <1>4 DEF Injection, IsInjective
<1>6. Rank \in Surjection(S, 1 .. n)
  BY <1>1, <1>5, FS_Injection
<1>7. \A i \in 1 .. n : \E x \in S : Cardinality(Earlier(S, R, x)) = i - 1
  <2>1. ASSUME NEW i \in 1 .. n
        PROVE  \E x \in S : Cardinality(Earlier(S, R, x)) = i - 1
    <3>1. PICK x \in S : Rank[x] = i
      BY <1>6 DEF Surjection
    <3>2. Cardinality(Earlier(S, R, x)) \in Nat
      BY <1>1, EarlierRows
    <3>3. QED
      BY <3>1, <3>2
  <2>2. QED
    BY <2>1
<1>8. \A i \in 1 .. n : /\ OrderedBy(S, R)[i] \in S
                        /\ Cardinality(Earlier(S, R, OrderedBy(S, R)[i])) = i - 1
  BY <1>7 DEF OrderedBy
<1>9. OrderedBy(S, R) \in [1 .. n -> S]
  BY <1>8 DEF OrderedBy
<1>10. \A i \in 1 .. n : Rank[OrderedBy(S, R)[i]] = i
  BY <1>1, <1>8
<1>11. \A x \in S : \E i \in 1 .. n : OrderedBy(S, R)[i] = x
  BY <1>2, <1>4, <1>8, <1>10
<1>12. ASSUME NEW i \in 1 .. n, NEW j \in 1 .. n, i < j
       PROVE  <<OrderedBy(S, R)[i], OrderedBy(S, R)[j]>> \in R
  <2> HIDE DEF Rank
  <2>1. Rank[OrderedBy(S, R)[i]] = i /\ Rank[OrderedBy(S, R)[j]] = j
    BY <1>10
  <2>2. OrderedBy(S, R)[i] # OrderedBy(S, R)[j]
    BY <1>1, <1>12, <2>1
  <2>3. ~ Rank[OrderedBy(S, R)[j]] < Rank[OrderedBy(S, R)[i]]
    BY <1>1, <1>12, <2>1
  <2>4. QED
    BY <1>3, <1>8, <2>2, <2>3 DEF OrdersRows
<1>13. QED
  BY <1>1, <1>9, <1>11, <1>12

(***************************************************************************)
(* Sequences.                                                              *)
(***************************************************************************)
(* A sequence has as many elements as places exactly if it has no element  *)
(* twice.                                                                  *)
LEMMA ElementsOfSeq ==
  ASSUME NEW S, NEW seq \in Seq(S)
  PROVE  /\ IsFiniteSet(ToSet(seq))
         /\ ToSet(seq) \in SUBSET S
         /\ Cardinality(ToSet(seq)) <= Len(seq)
         /\ Cardinality(ToSet(seq)) = Len(seq) <=> IsInjective(seq)
<1> DEFINE n == Len(seq)
           T == ToSet(seq)
<1>1. n \in Nat /\ IsFiniteSet(1 .. n) /\ Cardinality(1 .. n) = n
  <2>1. n \in Nat
    OBVIOUS
  <2>2. QED
    BY <2>1, FS_Interval
<1>2. seq \in [1 .. n -> T] /\ T \in SUBSET S
  BY DEF ToSet
<1>3. seq \in Surjection(1 .. n, T)
  BY <1>2 DEF Surjection, ToSet
<1>4. seq \in Injection(1 .. n, T) <=> IsInjective(seq)
  BY <1>2 DEF Injection
<1> HIDE DEF n, T
<1>5. /\ IsFiniteSet(T) /\ Cardinality(T) <= Cardinality(1 .. n)
      /\ Cardinality(T) = Cardinality(1 .. n) <=> seq \in Injection(1 .. n, T)
  BY <1>1, <1>3, FS_Surjection
<1>6. QED
  BY <1>1, <1>2, <1>4, <1>5 DEF n, T

(***************************************************************************)
(* Least and greatest numbers.                                             *)
(***************************************************************************)
LEMMA LeastNatural ==
  ASSUME NEW T \in SUBSET Nat, T # {}
  PROVE  \E x \in T : \A y \in T : x <= y
<1> DEFINE R == OpToRel(<, Nat)
<1>1. IsWellFoundedOn(R, Nat)
  BY NatLessThanWellFounded
<1>2. ASSUME NEW x \in Nat, NEW y \in Nat, y < x PROVE <<y, x>> \in R
  BY <1>2 DEF OpToRel
<1> HIDE DEF R
<1>3. PICK x \in T : \A y \in T : ~(<<y, x>> \in R)
  BY <1>1, WFMin
<1>4. ASSUME NEW y \in T PROVE x <= y
  <2>1. x \in Nat /\ y \in Nat
    OBVIOUS
  <2>2. ~(y < x)
    BY <1>2, <1>3, <2>1
  <2>3. QED
    BY <2>1, <2>2
<1>5. QED
  BY <1>4

LEMMA GreatestNatural ==
  ASSUME NEW T \in SUBSET Nat, T # {}, NEW bound \in Nat, \A x \in T : x <= bound
  PROVE  /\ Max(T) \in T
         /\ \A x \in T : x <= Max(T)
<1> DEFINE U == {bound - x : x \in T}
<1>1. U \in SUBSET Nat /\ U # {}
  <2>1. \A x \in T : bound - x \in Nat
    OBVIOUS
  <2>2. PICK x \in T : TRUE
    OBVIOUS
  <2>3. bound - x \in U
    OBVIOUS
  <2>4. QED
    BY <2>1, <2>3
<1>2. PICK u \in U : \A y \in U : u <= y
  BY <1>1, LeastNatural
<1>3. PICK m \in T : u = bound - m
  OBVIOUS
<1>4. \A x \in T : m >= x
  <2>1. ASSUME NEW x \in T PROVE m >= x
    <3>1. bound - x \in U /\ x \in Nat /\ m \in Nat
      OBVIOUS
    <3>2. u <= bound - x
      BY <1>2, <3>1
    <3> HIDE DEF U
    <3>3. QED
      BY <1>3, <3>1, <3>2
  <2>2. QED
    BY <2>1
<1>5. /\ Max(T) \in T
      /\ \A x \in T : Max(T) >= x
  BY <1>4 DEF Max
<1>6. QED
  BY <1>5

(***************************************************************************)
(* Sets that differ in one element at most.                                *)
(***************************************************************************)
LEMMA WithoutElement ==
  ASSUME NEW S, IsFiniteSet(S), NEW x
  PROVE  /\ IsFiniteSet(S \ {x}) /\ Cardinality(S \ {x}) \in Nat
         /\ Cardinality(S) = Cardinality(S \ {x}) + (IF x \in S THEN 1 ELSE 0)
<1>1. IsFiniteSet(S \ {x}) /\ Cardinality(S \ {x}) \in Nat
  BY FS_Subset, FS_CardinalityType
<1>2. CASE x \in S
  BY <1>1, <1>2, FS_RemoveElement, FS_CardinalityType
<1>3. CASE x \notin S
  <2> DEFINE U == S \ {x}
  <2>1. U = S
    BY <1>3
  <2> HIDE DEF U
  <2>2. Cardinality(U) \in Nat /\ Cardinality(S) = Cardinality(U) + 0
    BY <2>1, FS_CardinalityType
  <2>3. QED
    BY <1>1, <1>3, <2>2 DEF U
<1>4. QED
  BY <1>2, <1>3

LEMMA OneElementMoves ==
  ASSUME NEW S, IsFiniteSet(S), NEW T, NEW x, S \ {x} = T \ {x}
  PROVE  /\ IsFiniteSet(T)
         /\ Cardinality(S) \in Nat /\ Cardinality(T) \in Nat
         /\ Cardinality(T) + (IF x \in S THEN 1 ELSE 0)
              = Cardinality(S) + (IF x \in T THEN 1 ELSE 0)
<1>1. IsFiniteSet(T)
  <2>1. IsFiniteSet(S \cup {x}) /\ T \subseteq S \cup {x}
    BY FS_AddElement
  <2>2. QED
    BY <2>1, FS_Subset
<1> DEFINE U == S \ {x}
           V == T \ {x}
<1>2. U = V
  OBVIOUS
<1>3. /\ Cardinality(U) \in Nat
      /\ Cardinality(S) = Cardinality(U) + (IF x \in S THEN 1 ELSE 0)
      /\ Cardinality(T) = Cardinality(V) + (IF x \in T THEN 1 ELSE 0)
  BY <1>1, WithoutElement
<1>4. Cardinality(S) \in Nat /\ Cardinality(T) \in Nat
  BY <1>1, FS_CardinalityType
<1> HIDE DEF U, V
<1>5. QED
  BY <1>1, <1>2, <1>3, <1>4

(***************************************************************************)
(* Sums over finite sets.  The library's sum is the value of a recursive   *)
(* function; such a function exists, and it is the same for a smaller set. *)
(***************************************************************************)
Pick(s) == CHOOSE x \in s : TRUE

(* g sums f over the sets of D.                                            *)
Sums(g, f, D) ==
  g = [s \in D |-> IF s = {} THEN 0 ELSE f[Pick(s)] + g[s \ {Pick(s)}]]

UpTo(S, n) == {s \in SUBSET S : Cardinality(s) <= n}

LEMMA PickIsIn ==
  ASSUME NEW S, IsFiniteSet(S), S # {}
  PROVE  /\ Pick(S) \in S
         /\ IsFiniteSet(S \ {Pick(S)})
         /\ Cardinality(S) \in Nat \ {0}
         /\ Cardinality(S \ {Pick(S)}) = Cardinality(S) - 1
<1>1. Pick(S) \in S
  BY DEF Pick
<1>2. QED
  BY <1>1, FS_RemoveElement, FS_CardinalityType, FS_EmptySet

LEMMA SumsExist ==
  ASSUME NEW S, IsFiniteSet(S), NEW f, NEW n \in Nat
  PROVE  \E g : Sums(g, f, UpTo(S, n))
<1> DEFINE Bad == {m \in Nat : ~ \E g : Sums(g, f, UpTo(S, m))}
<1>1. SUFFICES ASSUME Bad # {} PROVE FALSE
  OBVIOUS
<1>2. PICK m \in Bad : \A k \in Bad : m <= k
  BY <1>1, LeastNatural
<1>3. m \in Nat
  OBVIOUS
<1>4. \A s \in SUBSET S : IsFiniteSet(s) /\ Cardinality(s) \in Nat
  BY FS_Subset, FS_CardinalityType
<1>5. CASE m = 0
  <2> DEFINE g == [s \in UpTo(S, 0) |-> 0]
  <2>1. \A s \in UpTo(S, 0) : s = {}
    BY <1>4, FS_EmptySet DEF UpTo
  <2>2. Sums(g, f, UpTo(S, 0))
    BY <2>1 DEF Sums
  <2>3. QED
    BY <1>5, <2>2
<1>6. CASE m # 0
  <2>1. m - 1 \in Nat /\ m - 1 \notin Bad
    BY <1>2, <1>3, <1>6
  <2>2. PICK g : Sums(g, f, UpTo(S, m - 1))
    BY <2>1
  <2> DEFINE h == [s \in UpTo(S, m) |->
                     IF s = {} THEN 0 ELSE f[Pick(s)] + g[s \ {Pick(s)}]]
  <2>3. \A s \in UpTo(S, m - 1) : s \in UpTo(S, m) /\ h[s] = g[s]
    <3>1. UpTo(S, m - 1) \subseteq UpTo(S, m)
      BY <1>3, <1>4, <2>1 DEF UpTo
    <3>2. QED
      BY <2>2, <3>1 DEF Sums
  <2>4. \A s \in UpTo(S, m) : s # {} => s \ {Pick(s)} \in UpTo(S, m - 1)
    <3>1. ASSUME NEW s \in UpTo(S, m), s # {} PROVE s \ {Pick(s)} \in UpTo(S, m - 1)
      <4>1. s \in SUBSET S /\ Cardinality(s) <= m
        BY DEF UpTo
      <4>2. Cardinality(s) \in Nat /\ Cardinality(s \ {Pick(s)}) = Cardinality(s) - 1
        BY <1>4, <3>1, <4>1, PickIsIn
      <4>3. Cardinality(s \ {Pick(s)}) <= m - 1
        BY <1>3, <4>1, <4>2
      <4>4. QED
        BY <4>1, <4>3 DEF UpTo
    <3>2. QED
      BY <3>1
  <2>5. Sums(h, f, UpTo(S, m))
    BY <2>3, <2>4 DEF Sums
  <2> HIDE DEF h
  <2>6. QED
    BY <2>5
<1>7. QED
  BY <1>5, <1>6

LEMMA SumsAgree ==
  ASSUME NEW S, IsFiniteSet(S), NEW T \in SUBSET S, NEW f, NEW g, NEW h,
         Sums(g, f, SUBSET S), Sums(h, f, SUBSET T)
  PROVE  g[T] = h[T]
<1> DEFINE Bad == {s \in SUBSET T : g[s] # h[s]}
           Sizes == {Cardinality(s) : s \in Bad}
<1>1. SUFFICES ASSUME Bad # {} PROVE FALSE
  OBVIOUS
<1>2. \A s \in SUBSET T : IsFiniteSet(s) /\ Cardinality(s) \in Nat
  BY FS_Subset, FS_CardinalityType
<1>3. Sizes \in SUBSET Nat /\ Sizes # {}
  BY <1>1, <1>2
<1>4. PICK s \in Bad : \A u \in Bad : Cardinality(s) <= Cardinality(u)
  <2>1. PICK m \in Sizes : \A k \in Sizes : m <= k
    BY <1>3, LeastNatural
  <2>2. QED
    BY <2>1
<1>5. s \in SUBSET T /\ s \in SUBSET S /\ g[s] # h[s]
  OBVIOUS
<1>6. /\ g[s] = IF s = {} THEN 0 ELSE f[Pick(s)] + g[s \ {Pick(s)}]
      /\ h[s] = IF s = {} THEN 0 ELSE f[Pick(s)] + h[s \ {Pick(s)}]
  BY <1>5 DEF Sums
<1>7. s # {} /\ g[s \ {Pick(s)}] # h[s \ {Pick(s)}]
  BY <1>5, <1>6
<1>8. s \ {Pick(s)} \in Bad
  BY <1>5, <1>7
<1>9. Cardinality(s) <= Cardinality(s \ {Pick(s)})
  BY <1>4, <1>8
<1>10. QED
  BY <1>2, <1>5, <1>7, <1>9, PickIsIn

(* The sum over nothing is 0, and any element can be taken out first.      *)
LEMMA SumStep ==
  ASSUME NEW S, IsFiniteSet(S), NEW f
  PROVE  SumFunctionOnSet(f, S) =
           IF S = {} THEN 0
           ELSE f[Pick(S)] + SumFunctionOnSet(f, S \ {Pick(S)})
<1>1. \A T \in SUBSET S : \E g : Sums(g, f, SUBSET T) /\ SumFunctionOnSet(f, T) = g[T]
  <2>1. ASSUME NEW T \in SUBSET S
        PROVE  \E g : Sums(g, f, SUBSET T) /\ SumFunctionOnSet(f, T) = g[T]
    <3>1. IsFiniteSet(T) /\ Cardinality(T) \in Nat
      BY FS_Subset, FS_CardinalityType
    <3>2. UpTo(T, Cardinality(T)) = SUBSET T
      BY <3>1, FS_Subset DEF UpTo
    <3>3. \E g : Sums(g, f, SUBSET T)
      <4>1. \E g : Sums(g, f, UpTo(T, Cardinality(T)))
        BY <3>1, SumsExist
      <4>2. QED
        BY <3>2, <4>1
    <3>4. SumFunctionOnSet(f, T) = (CHOOSE g : Sums(g, f, SUBSET T))[T]
      BY DEF SumFunctionOnSet, FoldFunctionOnSet, MapThenFoldSet, Sums, Pick
    <3>5. QED
      BY <3>3, <3>4
  <2>2. QED
    BY <2>1
<1>2. PICK g : Sums(g, f, SUBSET S) /\ SumFunctionOnSet(f, S) = g[S]
  BY <1>1
<1>3. g[S] = IF S = {} THEN 0 ELSE f[Pick(S)] + g[S \ {Pick(S)}]
  BY <1>2 DEF Sums
<1>4. g[S \ {Pick(S)}] = SumFunctionOnSet(f, S \ {Pick(S)})
  <2> DEFINE T == S \ {Pick(S)}
  <2>1. T \in SUBSET S
    OBVIOUS
  <2> HIDE DEF T
  <2>2. PICK h : Sums(h, f, SUBSET T) /\ SumFunctionOnSet(f, T) = h[T]
    BY <1>1, <2>1
  <2>3. g[T] = h[T]
    BY <1>2, <2>1, <2>2, SumsAgree
  <2>4. QED
    BY <2>2, <2>3 DEF T
<1>5. QED
  BY <1>2, <1>3, <1>4

LEMMA SumIsNatural ==
  ASSUME NEW S, IsFiniteSet(S), NEW f, \A x \in S : f[x] \in Nat
  PROVE  SumFunctionOnSet(f, S) \in Nat
<1> DEFINE Bad == {s \in SUBSET S : SumFunctionOnSet(f, s) \notin Nat}
           Sizes == {Cardinality(s) : s \in Bad}
<1>1. SUFFICES ASSUME Bad # {} PROVE FALSE
  OBVIOUS
<1>2. \A s \in SUBSET S : IsFiniteSet(s) /\ Cardinality(s) \in Nat
  BY FS_Subset, FS_CardinalityType
<1>3. Sizes \in SUBSET Nat /\ Sizes # {}
  BY <1>1, <1>2
<1>4. PICK s \in Bad : \A u \in Bad : Cardinality(s) <= Cardinality(u)
  <2>1. PICK m \in Sizes : \A k \in Sizes : m <= k
    BY <1>3, LeastNatural
  <2>2. QED
    BY <2>1
<1>5. s \in SUBSET S /\ IsFiniteSet(s) /\ SumFunctionOnSet(f, s) \notin Nat
  BY <1>2
<1>6. SumFunctionOnSet(f, s) = IF s = {} THEN 0
                              ELSE f[Pick(s)] + SumFunctionOnSet(f, s \ {Pick(s)})
  BY <1>5, SumStep
<1>7. s # {}
  BY <1>5, <1>6
<1>8. /\ Pick(s) \in S
      /\ Cardinality(s) \in Nat \ {0}
      /\ Cardinality(s \ {Pick(s)}) = Cardinality(s) - 1
  BY <1>5, <1>7, PickIsIn
<1>9. SumFunctionOnSet(f, s \ {Pick(s)}) \notin Nat
  BY <1>5, <1>6, <1>7, <1>8
<1>10. s \ {Pick(s)} \in Bad
  BY <1>5, <1>9
<1>11. Cardinality(s) <= Cardinality(s \ {Pick(s)})
  BY <1>4, <1>10
<1>12. QED
  BY <1>8, <1>11

LEMMA SumTakesOut ==
  ASSUME NEW S, IsFiniteSet(S), NEW f, \A x \in S : f[x] \in Nat, NEW e \in S
  PROVE  SumFunctionOnSet(f, S) = f[e] + SumFunctionOnSet(f, S \ {e})
<1> DEFINE Fine(s) == \A x \in s :
             SumFunctionOnSet(f, s) = f[x] + SumFunctionOnSet(f, s \ {x})
           Bad == {s \in SUBSET S : ~Fine(s)}
           Sizes == {Cardinality(s) : s \in Bad}
<1>1. SUFFICES ASSUME Bad # {} PROVE FALSE
  OBVIOUS
<1>2. \A s \in SUBSET S : /\ IsFiniteSet(s) /\ Cardinality(s) \in Nat
                          /\ SumFunctionOnSet(f, s) \in Nat
  BY FS_Subset, FS_CardinalityType, SumIsNatural
<1>3. Sizes \in SUBSET Nat /\ Sizes # {}
  BY <1>1, <1>2
<1>4. PICK s \in Bad : \A u \in Bad : Cardinality(s) <= Cardinality(u)
  <2>1. PICK m \in Sizes : \A k \in Sizes : m <= k
    BY <1>3, LeastNatural
  <2>2. QED
    BY <2>1
<1>5. s \in SUBSET S /\ IsFiniteSet(s)
  BY <1>2
<1>6. PICK x \in s : SumFunctionOnSet(f, s) # f[x] + SumFunctionOnSet(f, s \ {x})
  OBVIOUS
<1> DEFINE p == Pick(s)
<1>7. /\ p \in s
      /\ SumFunctionOnSet(f, s) = f[p] + SumFunctionOnSet(f, s \ {p})
  BY <1>5, <1>6, SumStep, PickIsIn
<1>8. \A y \in s : s \ {y} \in SUBSET S /\ Fine(s \ {y})
  <2>1. ASSUME NEW y \in s PROVE s \ {y} \in SUBSET S /\ Fine(s \ {y})
    <3>1. Cardinality(s \ {y}) = Cardinality(s) - 1
      BY <1>5, FS_RemoveElement
    <3>2. s \ {y} \in SUBSET S
      BY <1>5
    <3>3. s \ {y} \notin Bad
      BY <1>2, <1>4, <1>5, <3>1, <3>2
    <3>4. QED
      BY <3>2, <3>3
  <2>2. QED
    BY <2>1
<1> HIDE DEF p, Bad, Sizes
<1>9. x # p
  BY <1>6, <1>7
<1>10. /\ SumFunctionOnSet(f, s \ {p}) = f[x] + SumFunctionOnSet(f, (s \ {p}) \ {x})
       /\ SumFunctionOnSet(f, s \ {x}) = f[p] + SumFunctionOnSet(f, (s \ {x}) \ {p})
  BY <1>6, <1>7, <1>8, <1>9
<1>11. (s \ {p}) \ {x} = (s \ {x}) \ {p} /\ (s \ {p}) \ {x} \in SUBSET S
  BY <1>5
<1>12. f[x] \in Nat /\ f[p] \in Nat /\ SumFunctionOnSet(f, (s \ {p}) \ {x}) \in Nat
  BY <1>2, <1>5, <1>7, <1>11
<1>13. QED
  BY <1>6, <1>7, <1>10, <1>11, <1>12

(* Functions with the same values have the same sum.                       *)
LEMMA SumsOfEquals ==
  ASSUME NEW S, IsFiniteSet(S), NEW f, NEW g, \A x \in S : f[x] = g[x]
  PROVE  SumFunctionOnSet(f, S) = SumFunctionOnSet(g, S)
<1> DEFINE Bad == {s \in SUBSET S : SumFunctionOnSet(f, s) # SumFunctionOnSet(g, s)}
           Sizes == {Cardinality(s) : s \in Bad}
<1>1. SUFFICES ASSUME Bad # {} PROVE FALSE
  OBVIOUS
<1>2. \A s \in SUBSET S : IsFiniteSet(s) /\ Cardinality(s) \in Nat
  BY FS_Subset, FS_CardinalityType
<1>3. Sizes \in SUBSET Nat /\ Sizes # {}
  BY <1>1, <1>2
<1>4. PICK s \in Bad : \A u \in Bad : Cardinality(s) <= Cardinality(u)
  <2>1. PICK m \in Sizes : \A k \in Sizes : m <= k
    BY <1>3, LeastNatural
  <2>2. QED
    BY <2>1
<1>5. s \in SUBSET S /\ IsFiniteSet(s) /\ SumFunctionOnSet(f, s) # SumFunctionOnSet(g, s)
  BY <1>2
<1>6. /\ SumFunctionOnSet(f, s) = IF s = {} THEN 0
           ELSE f[Pick(s)] + SumFunctionOnSet(f, s \ {Pick(s)})
      /\ SumFunctionOnSet(g, s) = IF s = {} THEN 0
           ELSE g[Pick(s)] + SumFunctionOnSet(g, s \ {Pick(s)})
  BY <1>5, SumStep
<1>7. s # {}
  BY <1>5, <1>6
<1>8. /\ Pick(s) \in S
      /\ Cardinality(s) \in Nat \ {0}
      /\ Cardinality(s \ {Pick(s)}) = Cardinality(s) - 1
  BY <1>5, <1>7, PickIsIn
<1>9. SumFunctionOnSet(f, s \ {Pick(s)}) # SumFunctionOnSet(g, s \ {Pick(s)})
  BY <1>5, <1>6, <1>7, <1>8
<1>10. s \ {Pick(s)} \in Bad
  BY <1>5, <1>9
<1>11. Cardinality(s) <= Cardinality(s \ {Pick(s)})
  BY <1>4, <1>10
<1>12. QED
  BY <1>8, <1>11

(* What grows by one in one place, the sum over the place grows by one.    *)
LEMMA SumGrowsByOne ==
  ASSUME NEW S, IsFiniteSet(S), NEW f, NEW g, \A x \in S : f[x] \in Nat,
         NEW e, \A x \in S : g[x] = IF x = e THEN f[x] + 1 ELSE f[x]
  PROVE  SumFunctionOnSet(g, S) =
           IF e \in S THEN SumFunctionOnSet(f, S) + 1 ELSE SumFunctionOnSet(f, S)
<1>1. CASE e \notin S
  <2>1. \A x \in S : g[x] = f[x]
    BY <1>1
  <2>2. SumFunctionOnSet(g, S) = SumFunctionOnSet(f, S)
    BY <2>1, SumsOfEquals
  <2>3. QED
    BY <1>1, <2>2
<1>2. CASE e \in S
  <2>1. \A x \in S : g[x] \in Nat
    OBVIOUS
  <2>2. /\ SumFunctionOnSet(f, S) = f[e] + SumFunctionOnSet(f, S \ {e})
        /\ SumFunctionOnSet(g, S) = g[e] + SumFunctionOnSet(g, S \ {e})
    BY <1>2, <2>1, SumTakesOut
  <2>3. IsFiniteSet(S \ {e})
    BY FS_Subset
  <2>4. SumFunctionOnSet(f, S \ {e}) = SumFunctionOnSet(g, S \ {e})
    BY <2>3, SumsOfEquals
  <2>5. SumFunctionOnSet(f, S \ {e}) \in Nat
    BY <2>3, SumIsNatural
  <2>6. g[e] = f[e] + 1 /\ f[e] \in Nat
    BY <1>2
  <2>7. QED
    BY <1>2, <2>2, <2>4, <2>5, <2>6
<1>3. QED
  BY <1>1, <1>2

(* Where a function is 0, it adds nothing.                                 *)
LEMMA SumOfNonzero ==
  ASSUME NEW S, IsFiniteSet(S), NEW T \in SUBSET S, NEW f,
         \A x \in T : f[x] \in Nat, \A x \in S \ T : f[x] = 0
  PROVE  SumFunctionOnSet(f, S) = SumFunctionOnSet(f, T)
<1> DEFINE Bad == {s \in SUBSET S :
                     /\ T \subseteq s
                     /\ SumFunctionOnSet(f, s) # SumFunctionOnSet(f, T)}
           Sizes == {Cardinality(s) : s \in Bad}
<1>1. SUFFICES ASSUME Bad # {} PROVE FALSE
  OBVIOUS
<1>2. /\ \A s \in SUBSET S : /\ IsFiniteSet(s) /\ Cardinality(s) \in Nat
                             /\ SumFunctionOnSet(f, s) \in Nat
      /\ \A x \in S : f[x] \in Nat
  <2>1. \A x \in S : f[x] \in Nat
    OBVIOUS
  <2>2. QED
    BY <2>1, FS_Subset, FS_CardinalityType, SumIsNatural
<1>3. Sizes \in SUBSET Nat /\ Sizes # {}
  BY <1>1, <1>2
<1>4. PICK s \in Bad : \A u \in Bad : Cardinality(s) <= Cardinality(u)
  <2>1. PICK m \in Sizes : \A k \in Sizes : m <= k
    BY <1>3, LeastNatural
  <2>2. QED
    BY <2>1
<1>5. /\ s \in SUBSET S /\ T \subseteq s /\ IsFiniteSet(s)
      /\ SumFunctionOnSet(f, s) # SumFunctionOnSet(f, T)
  BY <1>2
<1>6. PICK x \in s : x \notin T
  BY <1>5
<1>7. SumFunctionOnSet(f, s) = f[x] + SumFunctionOnSet(f, s \ {x})
  BY <1>2, <1>5, SumTakesOut
<1>8. s \ {x} \in SUBSET S /\ T \subseteq s \ {x} /\ f[x] = 0
  BY <1>5, <1>6
<1>9. SumFunctionOnSet(f, s) = SumFunctionOnSet(f, s \ {x})
  BY <1>2, <1>7, <1>8
<1>10. s \ {x} \in Bad
  BY <1>5, <1>8, <1>9
<1>11. Cardinality(s) <= Cardinality(s \ {x}) /\ Cardinality(s \ {x}) = Cardinality(s) - 1
  BY <1>4, <1>5, <1>10, FS_RemoveElement
<1>12. QED
  BY <1>2, <1>5, <1>11

(***************************************************************************)
(* Counting the places of a kind, from the first one on.                   *)
(***************************************************************************)
Places(P, n) == {i \in 1 .. n : i \in P}

Counts(g, P, N) ==
  /\ g \in [0 .. N -> Nat] /\ g[0] = 0
  /\ \A n \in 1 .. N : g[n] = g[n - 1] + (IF n \in P THEN 1 ELSE 0)

LEMMA CountUpTo ==
  ASSUME NEW N \in Nat, NEW P, NEW g, Counts(g, P, N)
  PROVE  \A n \in 0 .. N : Cardinality(Places(P, n)) = g[n]
<1> DEFINE C(n) == {i \in 1 .. n : i \in P}
           Bad == {n \in 0 .. N : Cardinality(C(n)) # g[n]}
<1>1. SUFFICES ASSUME Bad # {} PROVE FALSE
  BY DEF Places
<1>2. PICK n \in Bad : \A k \in Bad : n <= k
  <2>1. Bad \in SUBSET Nat
    OBVIOUS
  <2>2. QED
    BY <1>1, <2>1, LeastNatural
<1>3. n \in 0 .. N /\ Cardinality(C(n)) # g[n]
  OBVIOUS
<1>4. n # 0 /\ n \in Nat
  <2>1. C(0) = {}
    OBVIOUS
  <2>2. QED
    BY <1>3, <2>1, FS_EmptySet DEF Counts
<1>5. n - 1 \in 0 .. N /\ n \in 1 .. N /\ n - 1 < n
  BY <1>3, <1>4
<1>6. Cardinality(C(n - 1)) = g[n - 1]
  BY <1>2, <1>5
<1>7. /\ IsFiniteSet(C(n - 1)) /\ C(n - 1) \ {n} = C(n) \ {n}
      /\ n \notin C(n - 1) /\ (n \in C(n) <=> n \in P)
  <2>1. C(n - 1) \subseteq 1 .. n /\ IsFiniteSet(1 .. n)
    <3>1. IsFiniteSet(1 .. n)
      BY <1>4, FS_Interval
    <3>2. C(n - 1) \subseteq 1 .. n
      BY <1>4
    <3>3. QED
      BY <3>1, <3>2
  <2>2. IsFiniteSet(C(n - 1))
    BY <2>1, FS_Subset
  <2>3. QED
    BY <1>5, <2>2
<1> DEFINE A == C(n - 1)
           B == C(n)
<1> HIDE DEF C
<1>8. IsFiniteSet(A) /\ A \ {n} = B \ {n} /\ n \notin A /\ (n \in B <=> n \in P)
  BY <1>7
<1> HIDE DEF A, B
<1>9. Cardinality(B) = Cardinality(A) + (IF n \in P THEN 1 ELSE 0)
  BY <1>8, OneElementMoves
<1>10. QED
  <2>1. g[n] = g[n - 1] + (IF n \in P THEN 1 ELSE 0)
    BY <1>5 DEF Counts
  <2>2. QED
    BY <1>3, <1>6, <1>9, <2>1 DEF A, B

(***************************************************************************)
(* Folds from the left.  The library's fold is the value of a recursive    *)
(* function on sets of positions; here its step is a function, so that one *)
(* lemma serves every fold.                                                *)
(***************************************************************************)
(* iter folds the positions of every set of D, the last one last.          *)
FoldsLeft(iter, base, step, D) ==
  iter = [s \in D |-> IF s = {} THEN base ELSE step[<<iter[s \ {Max(s)}], Max(s)>>]]

LEMMA LastPosition ==
  ASSUME NEW n \in Nat, NEW s \in SUBSET (1 .. n), s # {}
  PROVE  /\ Max(s) \in s /\ Max(s) \in 1 .. n
         /\ s \ {Max(s)} \in SUBSET (1 .. n)
         /\ Cardinality(s) \in Nat \ {0}
         /\ Cardinality(s \ {Max(s)}) = Cardinality(s) - 1
<1>1. Max(s) \in s
  <2>1. s \in SUBSET Nat /\ \A x \in s : x <= n
    OBVIOUS
  <2>2. QED
    BY <2>1, GreatestNatural
<1>2. IsFiniteSet(s)
  <2>1. IsFiniteSet(1 .. n)
    BY FS_Interval
  <2>2. QED
    BY <2>1, FS_Subset
<1>3. QED
  BY <1>1, <1>2, FS_RemoveElement, FS_CardinalityType, FS_EmptySet

LEMMA FoldsExist ==
  ASSUME NEW n \in Nat, NEW A, NEW base \in A, NEW step \in [A \X (1 .. n) -> A],
         NEW k \in Nat
  PROVE  \E iter : /\ FoldsLeft(iter, base, step, UpTo(1 .. n, k))
                   /\ iter \in [UpTo(1 .. n, k) -> A]
<1> DEFINE S == 1 .. n
           Good(m) == \E iter : /\ FoldsLeft(iter, base, step, UpTo(S, m))
                                /\ iter \in [UpTo(S, m) -> A]
           Bad == {m \in Nat : ~ Good(m)}
<1>1. SUFFICES ASSUME Bad # {} PROVE FALSE
  OBVIOUS
<1>2. PICK m \in Bad : \A j \in Bad : m <= j
  BY <1>1, LeastNatural
<1>3. m \in Nat /\ ~ Good(m)
  OBVIOUS
<1>4. \A s \in SUBSET S : IsFiniteSet(s) /\ Cardinality(s) \in Nat
  <2>1. IsFiniteSet(S)
    BY FS_Interval
  <2> HIDE DEF S
  <2>2. QED
    BY <2>1, FS_Subset, FS_CardinalityType
<1>5. CASE m = 0
  <2> DEFINE iter == [s \in UpTo(S, 0) |-> base]
  <2>1. \A s \in UpTo(S, 0) : s = {}
    BY <1>4, FS_EmptySet DEF UpTo
  <2>2. FoldsLeft(iter, base, step, UpTo(S, 0)) /\ iter \in [UpTo(S, 0) -> A]
    BY <2>1 DEF FoldsLeft
  <2>3. QED
    BY <1>3, <1>5, <2>2
<1>6. CASE m # 0
  <2>1. m - 1 \in Nat /\ m - 1 \notin Bad
    BY <1>2, <1>3, <1>6
  <2>2. PICK g : /\ FoldsLeft(g, base, step, UpTo(S, m - 1))
                 /\ g \in [UpTo(S, m - 1) -> A]
    BY <2>1
  <2> DEFINE h == [s \in UpTo(S, m) |->
                     IF s = {} THEN base ELSE step[<<g[s \ {Max(s)}], Max(s)>>]]
  <2>3. \A s \in UpTo(S, m - 1) : s \in UpTo(S, m) /\ h[s] = g[s]
    <3>1. UpTo(S, m - 1) \subseteq UpTo(S, m)
      BY <1>3, <1>4, <2>1 DEF UpTo
    <3>2. QED
      BY <2>2, <3>1 DEF FoldsLeft
  <2>4. ASSUME NEW s \in UpTo(S, m), s # {}
        PROVE  s \ {Max(s)} \in UpTo(S, m - 1) /\ Max(s) \in S
    <3>1. s \in SUBSET S /\ Cardinality(s) <= m
      BY DEF UpTo
    <3>2. /\ Cardinality(s) \in Nat /\ Cardinality(s \ {Max(s)}) = Cardinality(s) - 1
          /\ s \ {Max(s)} \in SUBSET S /\ Max(s) \in S
      BY <2>4, <3>1, LastPosition
    <3>3. Cardinality(s \ {Max(s)}) <= m - 1
      BY <1>3, <3>1, <3>2
    <3>4. QED
      BY <3>2, <3>3 DEF UpTo
  <2>5. h = [s \in UpTo(S, m) |->
               IF s = {} THEN base ELSE step[<<h[s \ {Max(s)}], Max(s)>>]]
    BY <2>3, <2>4
  <2>6. ASSUME NEW s \in UpTo(S, m) PROVE h[s] \in A
    <3>1. CASE s = {}
      BY <3>1
    <3>2. CASE s # {}
      <4>1. g[s \ {Max(s)}] \in A /\ Max(s) \in S
        BY <2>2, <2>4, <3>2
      <4>2. QED
        BY <3>2, <4>1
    <3>3. QED
      BY <3>1, <3>2
  <2>7. h \in [UpTo(S, m) -> A]
    BY <2>6
  <2> HIDE DEF h
  <2>8. FoldsLeft(h, base, step, UpTo(S, m))
    BY <2>5 DEF FoldsLeft
  <2>9. QED
    BY <1>3, <2>7, <2>8
<1>7. QED
  BY <1>5, <1>6

LEMMA FoldExists ==
  ASSUME NEW n \in Nat, NEW A, NEW base \in A, NEW step \in [A \X (1 .. n) -> A]
  PROVE  \E iter : /\ FoldsLeft(iter, base, step, SUBSET (1 .. n))
                   /\ iter \in [SUBSET (1 .. n) -> A]
<1>1. UpTo(1 .. n, n) = SUBSET (1 .. n)
  <2>1. IsFiniteSet(1 .. n) /\ Cardinality(1 .. n) = n
    BY FS_Interval
  <2>2. QED
    BY <2>1, FS_Subset DEF UpTo
<1>2. PICK iter : /\ FoldsLeft(iter, base, step, UpTo(1 .. n, n))
                  /\ iter \in [UpTo(1 .. n, n) -> A]
  BY FoldsExist
<1>3. FoldsLeft(iter, base, step, SUBSET (1 .. n)) /\ iter \in [SUBSET (1 .. n) -> A]
  BY <1>1, <1>2, Zenon
<1>4. QED
  BY <1>3

(* The positions up to k without the last of them.                         *)
LEMMA FirstPositions ==
  ASSUME NEW k \in Nat \ {0}
  PROVE  /\ 1 .. k # {} /\ Max(1 .. k) = k
         /\ (1 .. k) \ {Max(1 .. k)} = 1 .. (k - 1)
<1>1. Max(1 .. k) \in 1 .. k /\ \A x \in 1 .. k : x <= Max(1 .. k)
  <2>1. /\ 1 .. k \in SUBSET Nat /\ 1 .. k # {}
        /\ k \in Nat /\ \A x \in 1 .. k : x <= k
    OBVIOUS
  <2>2. QED
    BY <2>1, GreatestNatural
<1>2. Max(1 .. k) = k
  BY <1>1
<1>3. QED
  BY <1>2

(* What is computed step by step.                                          *)
StepsThrough(v, n, base, step) ==
  v[0] = base /\ \A k \in 1 .. n : v[k] = step[<<v[k - 1], k>>]

LEMMA StepsExist ==
  ASSUME NEW n \in Nat, NEW A, NEW base \in A, NEW step \in [A \X (1 .. n) -> A]
  PROVE  \E v : StepsThrough(v, n, base, step) /\ v \in [0 .. n -> A]
<1>1. PICK iter : /\ FoldsLeft(iter, base, step, SUBSET (1 .. n))
                  /\ iter \in [SUBSET (1 .. n) -> A]
  BY FoldExists
<1> DEFINE v == [k \in 0 .. n |-> iter[1 .. k]]
<1>2. \A k \in 0 .. n : v[k] = iter[1 .. k] /\ 1 .. k \in SUBSET (1 .. n)
  OBVIOUS
<1>3. v \in [0 .. n -> A]
  BY <1>1, <1>2
<1>4. iter = [s \in SUBSET (1 .. n) |->
                IF s = {} THEN base ELSE step[<<iter[s \ {Max(s)}], Max(s)>>]]
  BY <1>1 DEF FoldsLeft
<1>5. v[0] = base
  <2>1. v[0] = iter[1 .. 0]
    BY <1>2
  <2>2. 1 .. 0 = {}
    OBVIOUS
  <2>3. iter[{}] = base
    BY <1>4
  <2> HIDE DEF v
  <2>4. QED
    BY <2>1, <2>2, <2>3
<1> HIDE DEF v
<1>6. ASSUME NEW k \in 1 .. n PROVE v[k] = step[<<v[k - 1], k>>]
  <2>1. k \in Nat \ {0} /\ k \in 0 .. n /\ k - 1 \in 0 .. n
    OBVIOUS
  <2>2. /\ 1 .. k # {} /\ Max(1 .. k) = k
        /\ (1 .. k) \ {Max(1 .. k)} = 1 .. (k - 1)
    BY <2>1, FirstPositions
  <2>3. 1 .. k \in SUBSET (1 .. n)
    BY <1>2, <2>1
  <2>4. iter[1 .. k] = step[<<iter[(1 .. k) \ {Max(1 .. k)}], Max(1 .. k)>>]
    BY <1>4, <2>2, <2>3, Zenon
  <2>5. v[k] = iter[1 .. k] /\ v[k - 1] = iter[1 .. (k - 1)]
    BY <1>2, <2>1
  <2>6. QED
    BY <2>2, <2>4, <2>5
<1>7. StepsThrough(v, n, base, step)
  BY <1>5, <1>6 DEF StepsThrough
<1>8. QED
  BY <1>3, <1>7

(* Sequences put one after the other.                                      *)
FlattensTo(f, seqs) ==
  f = [i \in 1 .. Len(seqs) |-> IF i = 1 THEN seqs[i] ELSE f[i - 1] \o seqs[i]]

LEMMA SeqsFlatten ==
  ASSUME NEW T, NEW seqs \in Seq(Seq(T)), seqs # <<>>
  PROVE  \E f \in [1 .. Len(seqs) -> Seq(T)] :
           FlattensTo(f, seqs) /\ FlattenSeq(seqs) = f[Len(seqs)]
<1> DEFINE n == Len(seqs)
           step == [p \in Seq(T) \X (1 .. n) |-> p[1] \o seqs[p[2]]]
<1>1. n \in Nat \ {0} /\ DOMAIN seqs = 1 .. n /\ \A i \in 1 .. n : seqs[i] \in Seq(T)
  OBVIOUS
<1>2. step \in [Seq(T) \X (1 .. n) -> Seq(T)]
  <2>1. ASSUME NEW a \in Seq(T), NEW i \in 1 .. n PROVE a \o seqs[i] \in Seq(T)
    BY <1>1
  <2> HIDE DEF n
  <2>2. QED
    BY <2>1
<1>3. <<>> \in Seq(T)
  OBVIOUS
<1> HIDE DEF n, step
<1>4. PICK v \in [0 .. n -> Seq(T)] :
        v[0] = <<>> /\ \A k \in 1 .. n : v[k] = step[<<v[k - 1], k>>]
  <2> DEFINE A == Seq(T)
             empty == <<>>
  <2>1. n \in Nat /\ empty \in A /\ step \in [A \X (1 .. n) -> A]
    BY <1>1, <1>2, <1>3
  <2> HIDE DEF A, empty
  <2>2. PICK v : StepsThrough(v, n, empty, step) /\ v \in [0 .. n -> A]
    BY <2>1, StepsExist
  <2>3. QED
    BY <2>2 DEF A, empty, StepsThrough
<1>5. ASSUME NEW k \in 1 .. n PROVE v[k] = IF k = 1 THEN seqs[k] ELSE v[k - 1] \o seqs[k]
  <2>1. k - 1 \in 0 .. n /\ v[k - 1] \in Seq(T) /\ seqs[k] \in Seq(T)
    BY <1>1, <1>4
  <2>2. step[<<v[k - 1], k>>] = v[k - 1] \o seqs[k]
    BY <2>1 DEF step
  <2>3. v[k] = v[k - 1] \o seqs[k]
    BY <1>4, <2>2
  <2>4. CASE k = 1
    <3>1. v[k - 1] = <<>>
      BY <1>4, <2>4
    <3>2. <<>> \o seqs[k] = seqs[k]
      BY <2>1
    <3>3. QED
      BY <2>3, <2>4, <3>1, <3>2
  <2>5. QED
    BY <2>3, <2>4
<1> DEFINE f == [i \in 1 .. n |-> v[i]]
<1>6. f \in [1 .. n -> Seq(T)]
  BY <1>1, <1>4
<1>7. f = [i \in 1 .. n |-> IF i = 1 THEN seqs[i] ELSE f[i - 1] \o seqs[i]]
  <2>1. ASSUME NEW i \in 1 .. n
        PROVE  f[i] = IF i = 1 THEN seqs[i] ELSE f[i - 1] \o seqs[i]
    <3>1. i = 1 \/ i - 1 \in 1 .. n
      BY <1>1
    <3>2. f[i] = v[i] /\ (i - 1 \in 1 .. n => f[i - 1] = v[i - 1])
      OBVIOUS
    <3> HIDE DEF f
    <3>3. QED
      BY <1>5, <3>1, <3>2
  <2>2. QED
    BY <2>1
<1> HIDE DEF f
<1>8. FlattensTo(f, seqs)
  BY <1>7 DEF FlattensTo, n
<1> DEFINE g == CHOOSE h : FlattensTo(h, seqs)
<1>9. FlattensTo(g, seqs)
  BY <1>8
<1>10. FlattenSeq(seqs) = g[n]
  BY <1>1 DEF FlattenSeq, FlattensTo, n
<1> HIDE DEF g
<1>11. g = [i \in 1 .. n |-> IF i = 1 THEN seqs[i] ELSE g[i - 1] \o seqs[i]]
  BY <1>9 DEF FlattensTo, n
<1>12. ASSUME NEW i \in 1 .. n PROVE g[i] = IF i = 1 THEN seqs[i] ELSE g[i - 1] \o seqs[i]
  BY <1>11, Zenon
<1>13. \A i \in 1 .. n : g[i] \in Seq(T)
  <2> DEFINE Bad == {i \in 1 .. n : g[i] \notin Seq(T)}
  <2>1. SUFFICES ASSUME Bad # {} PROVE FALSE
    OBVIOUS
  <2>2. PICK i \in Bad : \A j \in Bad : i <= j
    <3>1. Bad \in SUBSET Nat
      BY <1>1
    <3>2. QED
      BY <2>1, <3>1, LeastNatural
  <2>3. i \in 1 .. n /\ g[i] \notin Seq(T)
    OBVIOUS
  <2>4. g[i] = IF i = 1 THEN seqs[i] ELSE g[i - 1] \o seqs[i]
    BY <1>12
  <2>5. i # 1
    BY <1>1, <2>3, <2>4
  <2>6. i - 1 \in 1 .. n /\ ~(i <= i - 1)
    BY <1>1, <2>3, <2>5
  <2>7. g[i - 1] \in Seq(T) /\ seqs[i] \in Seq(T)
    BY <1>1, <2>2, <2>3, <2>6
  <2> HIDE DEF Bad
  <2>8. g[i - 1] \o seqs[i] \in Seq(T)
    BY <2>7
  <2>9. QED
    BY <2>3, <2>4, <2>5, <2>8
<1>14. DOMAIN g = 1 .. n /\ g = [i \in DOMAIN g |-> g[i]]
  BY <1>11
<1>15. g \in [1 .. n -> Seq(T)]
  BY <1>13, <1>14
<1>16. QED
  BY <1>9, <1>10, <1>15 DEF n

(* The first elements of a sequence and the next.                          *)
LEMMA FirstElements ==
  ASSUME NEW A, NEW x \in Seq(A), NEW k \in 1 .. Len(x)
  PROVE  [j \in 1 .. k - 1 |-> x[j]] \o <<x[k]>> = [j \in 1 .. k |-> x[j]]
<1> DEFINE upTo(i) == [j \in 1 .. i |-> x[j]]
<1>1. k \in Nat \ {0} /\ k - 1 \in Nat /\ \A j \in 1 .. k : x[j] \in A
  OBVIOUS
<1>2. upTo(k - 1) \in Seq(A) /\ Len(upTo(k - 1)) = k - 1
  <2>1. \A j \in 1 .. k - 1 : x[j] \in A
    BY <1>1
  <2>2. QED
    BY <1>1, <2>1
<1>3. upTo(k) \in Seq(A) /\ Len(upTo(k)) = k
  BY <1>1
<1>4. \A j \in 1 .. k - 1 : upTo(k - 1)[j] = x[j]
  OBVIOUS
<1>5. \A j \in 1 .. k : upTo(k)[j] = x[j]
  OBVIOUS
<1> HIDE DEF upTo
<1>6. upTo(k - 1) \o <<x[k]>> = upTo(k)
  <2> DEFINE a == upTo(k - 1)
             b == upTo(k)
             s == a \o <<x[k]>>
  <2>1. a \in Seq(A) /\ <<x[k]>> \in Seq(A) /\ Len(<<x[k]>>) = 1 /\ Len(a) = k - 1
    BY <1>1, <1>2
  <2>2. s \in Seq(A) /\ Len(s) = k
    <3> HIDE DEF a
    <3>1. QED
      BY <1>1, <2>1
  <2>3. ASSUME NEW j \in 1 .. k PROVE s[j] = b[j]
    <3>1. CASE j = k
      <4> HIDE DEF a
      <4>1. s[j] = x[k]
        BY <1>1, <2>1, <3>1
      <4>2. QED
        BY <1>5, <3>1, <4>1
    <3>2. CASE j # k
      <4>1. j \in 1 .. k - 1
        BY <1>1, <3>2
      <4>2. a[j] = x[j]
        BY <1>4, <4>1
      <4> HIDE DEF a
      <4>3. s[j] = a[j]
        BY <1>1, <2>1, <4>1
      <4>4. QED
        BY <1>5, <4>2, <4>3
    <3>3. QED
      BY <3>1, <3>2
  <2>4. b \in Seq(A) /\ Len(b) = k
    BY <1>3
  <2> HIDE DEF a, b, s
  <2>5. s = b
    BY <1>1, <2>2, <2>3, <2>4
  <2>6. QED
    BY <2>5 DEF a, b, s
<1>7. QED
  BY <1>6 DEF upTo
=============================================================================
