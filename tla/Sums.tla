-------------------------------- MODULE Sums --------------------------------
(***************************************************************************)
(* Sums of integers over finite sets: what SumFunctionOnSet computes, and  *)
(* how it changes when the function or the set does.                       *)
(***************************************************************************)
EXTENDS Integers, FiniteSets, Functions, FiniteSetTheorems, TLAPS

-----------------------------------------------------------------------------
(* Induction.                                                              *)

(* A set of naturals that holds 0 and the successor of each of its members *)
(* holds all of them: else the members up to a missing m that are missing  *)
(* could be moved down by one, into one place less.                        *)
LEMMA NatSetInduction ==
    ASSUME NEW P, 0 \in P, \A n \in Nat : n \in P => n + 1 \in P
    PROVE  \A m \in Nat : m \in P
<1> SUFFICES ASSUME NEW m \in Nat, m \notin P PROVE FALSE
  OBVIOUS
<1> DEFINE T == {k \in 0 .. m : k \notin P}
           down == [k \in T |-> k - 1]
<1>1. IsFiniteSet(T) /\ IsFiniteSet(T \ {m})
      /\ Cardinality(T \ {m}) = Cardinality(T) - 1
  <2>1. IsFiniteSet(0 .. m)
    BY FS_Interval
  <2>2. T \in SUBSET (0 .. m) /\ m \in T
    OBVIOUS
  <2> HIDE DEF T
  <2> QED BY <2>1, <2>2, FS_Subset, FS_RemoveElement
<1>2. Cardinality(T) \in Nat
  BY <1>1, FS_CardinalityType
<1>3. down \in [T -> T \ {m}]
  <2>1. ASSUME NEW k \in T PROVE k - 1 \in T \ {m}
    <3>1. k # 0 /\ k \in Nat /\ k <= m
      OBVIOUS
    <3>2. k - 1 \in Nat /\ (k - 1) + 1 = k /\ k - 1 # m /\ k - 1 \in 0 .. m
      BY <3>1
    <3>3. k - 1 \notin P
      BY <3>2
    <3> QED BY <3>2, <3>3
  <2> QED BY <2>1
<1>4. \A x, y \in T : down[x] = down[y] => x = y
  <2>1. T \subseteq Int
    OBVIOUS
  <2> QED BY <2>1
<1> HIDE DEF T, down
<1> QED BY <1>1, <1>2, <1>3, <1>4, FS_PigeonHole

(* A family of sets that holds the empty set, and every set one element    *)
(* larger than a member, holds each finite set.                            *)
LEMMA FiniteInduction ==
    ASSUME NEW S, IsFiniteSet(S), NEW P, {} \in P,
           \A T \in SUBSET S : \A x \in S \ T : T \in P => T \cup {x} \in P
    PROVE  S \in P
<1> DEFINE N == {n \in Nat : \A T \in SUBSET S : Cardinality(T) = n => T \in P}
<1>1. 0 \in N
  BY FS_EmptySet, FS_Subset
<1>2. ASSUME NEW n \in Nat, n \in N PROVE n + 1 \in N
  <2> SUFFICES ASSUME NEW T \in SUBSET S, Cardinality(T) = n + 1
               PROVE  T \in P
    OBVIOUS
  <2>1. IsFiniteSet(T) /\ T # {}
    BY FS_EmptySet, FS_Subset
  <2>2. PICK x : x \in T
    BY <2>1
  <2> HIDE DEF N
  <2>3. Cardinality(T \ {x}) = Cardinality(T) - 1
    BY <2>1, <2>2, FS_RemoveElement
  <2>6. Cardinality(T \ {x}) = n
    BY <2>3
  <2>4. T \ {x} \in P
    BY <1>2, <2>6 DEF N
  <2>5. T = (T \ {x}) \cup {x} /\ x \in S \ (T \ {x}) /\ T \ {x} \in SUBSET S
    BY <2>2
  <2> QED BY <2>4, <2>5
<1> HIDE DEF N
<1>3. \A n \in Nat : n \in N
  BY <1>1, <1>2, NatSetInduction
<1>4. Cardinality(S) \in Nat
  BY FS_CardinalityType
<1> QED BY <1>3, <1>4 DEF N

(* A set of integers in a range has a least element.                       *)
LEMMA LeastInRange ==
    ASSUME NEW a \in Int, NEW b \in Int, NEW S \in SUBSET (a .. b), S # {}
    PROVE  \E p \in S : \A q \in S : p <= q
<1> SUFFICES ASSUME \A p \in S : \E q \in S : q < p PROVE FALSE
  OBVIOUS
<1> DEFINE K == {n \in Nat : \A q \in S : q > a + n}
<1>1. \A q \in S : q \in Int /\ q >= a
  OBVIOUS
<1>2. 0 \in K
  <2>1. ASSUME NEW q \in S PROVE q > a + 0
    <3>1. PICK p \in S : p < q
      OBVIOUS
    <3> QED BY <1>1, <3>1
  <2> QED BY <2>1
<1>3. ASSUME NEW n \in Nat, n \in K PROVE n + 1 \in K
  <2>1. \A q \in S : q >= a + (n + 1)
    BY <1>1, <1>3
  <2>2. a + (n + 1) \notin S
    BY <1>1, <2>1
  <2> QED BY <1>1, <2>1, <2>2
<1>4. \A q \in S : q - a \in Nat /\ ~(q > a + (q - a))
  BY <1>1
<1> HIDE DEF K
<1>5. \A q \in S : q - a \in K
  BY <1>2, <1>3, <1>4, NatSetInduction
<1> QED BY <1>4, <1>5 DEF K

-----------------------------------------------------------------------------
(* The recursion of SumFunctionOnSet.                                      *)

Picked(s) == CHOOSE x \in s : TRUE

IsSummation(iter, f, S) ==
    iter = [s \in SUBSET S |->
              IF s = {} THEN 0 ELSE f[Picked(s)] + iter[s \ {Picked(s)}]]

(* The library's sum is a CHOOSE of the function that sums recursively.    *)
LEMMA SumUnfolds ==
    ASSUME NEW f, NEW S
    PROVE  SumFunctionOnSet(f, S) = (CHOOSE iter : IsSummation(iter, f, S))[S]
BY DEF SumFunctionOnSet, FoldFunctionOnSet, MapThenFoldSet, IsSummation, Picked

(* The element the recursion takes out is one of the set.                  *)
LEMMA PickedIsIn == \A s : s # {} => Picked(s) \in s
BY DEF Picked

(* On a finite set the recursion has a solution: it is built up by the     *)
(* size of the subsets it is asked about.                                  *)
LEMMA SummationExists ==
    ASSUME NEW f, NEW S, IsFiniteSet(S)
    PROVE  IsSummation(CHOOSE iter : IsSummation(iter, f, S), f, S)
<1> DEFINE
      UpTo(n) == {s \in SUBSET S : Cardinality(s) <= n}
      Solves(g, n) ==
        g = [s \in UpTo(n) |->
               IF s = {} THEN 0 ELSE f[Picked(s)] + g[s \ {Picked(s)}]]
      N == {n \in Nat : \E g : Solves(g, n)}
<1>1. \A s \in SUBSET S : IsFiniteSet(s) /\ Cardinality(s) \in Nat
  BY FS_Subset, FS_CardinalityType
<1>2. 0 \in N
  <2> DEFINE g == [s \in UpTo(0) |-> 0]
  <2>1. \A s \in UpTo(0) : s = {}
    BY <1>1, FS_EmptySet
  <2>2. Solves(g, 0)
    BY <2>1
  <2> QED BY <2>2
<1>3. ASSUME NEW n \in Nat, n \in N PROVE n + 1 \in N
  <2>1. PICK g : Solves(g, n)
    BY <1>3
  <2> DEFINE h == [s \in UpTo(n + 1) |->
                     IF s = {} THEN 0 ELSE f[Picked(s)] + g[s \ {Picked(s)}]]
  <2>2. UpTo(n) \subseteq UpTo(n + 1)
    BY <1>1
  <2>3. \A s \in UpTo(n) : h[s] = g[s]
    BY <2>1, <2>2, Zenon
  <2>4. ASSUME NEW s \in UpTo(n + 1), s # {}
        PROVE  s \ {Picked(s)} \in UpTo(n)
    <3>1. Cardinality(s \ {Picked(s)}) = Cardinality(s) - 1
      BY <1>1, <2>4, PickedIsIn, FS_RemoveElement
    <3> QED BY <1>1, <3>1
  <2>5. h = [s \in UpTo(n + 1) |->
               IF s = {} THEN 0 ELSE f[Picked(s)] + h[s \ {Picked(s)}]]
    <3>1. \A s \in UpTo(n + 1) :
             (IF s = {} THEN 0 ELSE f[Picked(s)] + g[s \ {Picked(s)}])
               = (IF s = {} THEN 0 ELSE f[Picked(s)] + h[s \ {Picked(s)}])
      BY <2>3, <2>4
    <3> HIDE DEF UpTo
    <3> QED BY <3>1
  <2>6. Solves(h, n + 1)
    BY <2>5
  <2> HIDE DEF Solves
  <2> QED BY <2>6
<1> HIDE DEF N
<1>4. Cardinality(S) \in N
  BY <1>2, <1>3, FS_CardinalityType, NatSetInduction
<1>5. UpTo(Cardinality(S)) = SUBSET S
  BY FS_Subset
<1>6. \E g : IsSummation(g, f, S)
  BY <1>4, <1>5 DEF N, IsSummation
<1> QED BY <1>6

(* The value of a summation on a subset depends on the subset alone.       *)
LEMMA SummationsAgree ==
    ASSUME NEW f, NEW S, IsFiniteSet(S), NEW T \in SUBSET S,
           NEW g, IsSummation(g, f, S), NEW h, IsSummation(h, f, T)
    PROVE  g[T] = h[T]
<1> DEFINE N == {n \in Nat : \A s \in SUBSET T :
                                Cardinality(s) = n => g[s] = h[s]}
<1>1. \A s \in SUBSET T : IsFiniteSet(s) /\ Cardinality(s) \in Nat
  BY FS_Subset, FS_CardinalityType
<1>2. \A s \in SUBSET T :
         /\ g[s] = IF s = {} THEN 0 ELSE f[Picked(s)] + g[s \ {Picked(s)}]
         /\ h[s] = IF s = {} THEN 0 ELSE f[Picked(s)] + h[s \ {Picked(s)}]
  BY DEF IsSummation
<1>3. 0 \in N
  BY <1>1, <1>2, FS_EmptySet
<1>4. ASSUME NEW n \in Nat, n \in N PROVE n + 1 \in N
  <2> SUFFICES ASSUME NEW s \in SUBSET T, Cardinality(s) = n + 1
               PROVE  g[s] = h[s]
    OBVIOUS
  <2>1. IsFiniteSet(s) /\ s # {}
    BY <1>1, FS_EmptySet
  <2>2. Cardinality(s \ {Picked(s)}) = (n + 1) - 1
    BY <2>1, PickedIsIn, FS_RemoveElement
  <2>3. Cardinality(s \ {Picked(s)}) = n
    BY <2>2
  <2>4. g[s \ {Picked(s)}] = h[s \ {Picked(s)}]
    BY <1>4, <2>3
  <2> QED BY <1>2, <2>1, <2>4
<1> HIDE DEF N
<1>5. Cardinality(T) \in N
  BY <1>1, <1>3, <1>4, NatSetInduction
<1> QED BY <1>5 DEF N

(* So the sum over a finite set is what its equation says.                 *)
LEMMA SumPicks ==
    ASSUME NEW f, NEW S, IsFiniteSet(S)
    PROVE  SumFunctionOnSet(f, S) =
              IF S = {} THEN 0
              ELSE f[Picked(S)] + SumFunctionOnSet(f, S \ {Picked(S)})
<1> DEFINE g == CHOOSE iter : IsSummation(iter, f, S)
           R == S \ {Picked(S)}
           h == CHOOSE iter : IsSummation(iter, f, R)
<1>1. IsFiniteSet(R)
  BY FS_Subset
<1>2. IsSummation(g, f, S) /\ IsSummation(h, f, R)
  BY <1>1, SummationExists
<1>3. g[S] = IF S = {} THEN 0 ELSE f[Picked(S)] + g[R]
  BY <1>2 DEF IsSummation
<1>4. g[R] = h[R]
  BY <1>1, <1>2, SummationsAgree
<1>5. SumFunctionOnSet(f, S) = g[S] /\ SumFunctionOnSet(f, R) = h[R]
  BY SumUnfolds
<1> QED BY <1>3, <1>4, <1>5

-----------------------------------------------------------------------------
(* What a sum is.                                                          *)

(* The sum over the empty set is zero.                                     *)
LEMMA SumEmpty == \A f : SumFunctionOnSet(f, {}) = 0
BY SumPicks, FS_EmptySet

(* The sum of integers is an integer.                                      *)
LEMMA SumIsInt ==
    ASSUME NEW f, NEW S, IsFiniteSet(S), \A x \in S : f[x] \in Int
    PROVE  SumFunctionOnSet(f, S) \in Int
<1> DEFINE N == {n \in Nat : \A T \in SUBSET S :
                    Cardinality(T) = n => SumFunctionOnSet(f, T) \in Int}
<1>1. \A T \in SUBSET S : IsFiniteSet(T) /\ Cardinality(T) \in Nat
  BY FS_Subset, FS_CardinalityType
<1>2. 0 \in N
  BY <1>1, FS_EmptySet, SumEmpty
<1>3. ASSUME NEW n \in Nat, n \in N PROVE n + 1 \in N
  <2> SUFFICES ASSUME NEW T \in SUBSET S, Cardinality(T) = n + 1
               PROVE  SumFunctionOnSet(f, T) \in Int
    OBVIOUS
  <2> HIDE DEF N
  <2>1. IsFiniteSet(T) /\ T # {}
    BY <1>1, FS_EmptySet
  <2>2. Cardinality(T \ {Picked(T)}) = Cardinality(T) - 1
    BY <2>1, PickedIsIn, FS_RemoveElement
  <2>3. Cardinality(T \ {Picked(T)}) = n
    BY <2>2
  <2>4. SumFunctionOnSet(f, T \ {Picked(T)}) \in Int
    BY <1>3, <2>3 DEF N
  <2>5. f[Picked(T)] \in Int
    BY <2>1, PickedIsIn
  <2> QED BY <2>1, <2>4, <2>5, SumPicks
<1> HIDE DEF N
<1>4. Cardinality(S) \in N
  BY <1>1, <1>2, <1>3, NatSetInduction
<1> QED BY <1>4 DEF N

(* Any element may be taken out first, not just the one the recursion      *)
(* picks.                                                                  *)
LEMMA SumRemove ==
    ASSUME NEW f, NEW S, IsFiniteSet(S), \A x \in S : f[x] \in Int, NEW e \in S
    PROVE  SumFunctionOnSet(f, S) = f[e] + SumFunctionOnSet(f, S \ {e})
<1> DEFINE N == {n \in Nat : \A T \in SUBSET S : \A x \in T :
                    Cardinality(T) = n =>
                      SumFunctionOnSet(f, T)
                        = f[x] + SumFunctionOnSet(f, T \ {x})}
<1>1. \A T \in SUBSET S : IsFiniteSet(T) /\ Cardinality(T) \in Nat
  BY FS_Subset, FS_CardinalityType
<1>2. 0 \in N
  BY <1>1, FS_EmptySet
<1>3. ASSUME NEW n \in Nat, n \in N PROVE n + 1 \in N
  <2> SUFFICES ASSUME NEW T \in SUBSET S, NEW x \in T, Cardinality(T) = n + 1
               PROVE  SumFunctionOnSet(f, T)
                        = f[x] + SumFunctionOnSet(f, T \ {x})
    OBVIOUS
  <2> HIDE DEF N
  <2> DEFINE p == Picked(T)
  <2>1. IsFiniteSet(T) /\ T # {} /\ p \in T
    BY <1>1, PickedIsIn
  <2>2. SumFunctionOnSet(f, T) = f[p] + SumFunctionOnSet(f, T \ {p})
    BY <2>1, SumPicks
  <2> HIDE DEF p
  <2>3. CASE x = p
    BY <2>2, <2>3
  <2>4. CASE x # p
    <3>1. /\ Cardinality(T \ {p}) = Cardinality(T) - 1
          /\ Cardinality(T \ {x}) = Cardinality(T) - 1
      BY <2>1, FS_RemoveElement
    <3>2. Cardinality(T \ {p}) = n /\ Cardinality(T \ {x}) = n
      BY <3>1
    <3>3. SumFunctionOnSet(f, T \ {p})
            = f[x] + SumFunctionOnSet(f, (T \ {p}) \ {x})
      BY <1>3, <2>1, <2>4, <3>2 DEF N
    <3>4. SumFunctionOnSet(f, T \ {x})
            = f[p] + SumFunctionOnSet(f, (T \ {x}) \ {p})
      BY <1>3, <2>1, <2>4, <3>2 DEF N
    <3>5. (T \ {x}) \ {p} = (T \ {p}) \ {x}
      OBVIOUS
    <3>6. /\ f[x] \in Int /\ f[p] \in Int
          /\ SumFunctionOnSet(f, (T \ {p}) \ {x}) \in Int
      <4>1. IsFiniteSet((T \ {p}) \ {x})
        BY <2>1, FS_RemoveElement
      <4> QED BY <2>1, <4>1, SumIsInt
    <3>7. SumFunctionOnSet(f, T \ {x})
            = f[p] + SumFunctionOnSet(f, (T \ {p}) \ {x})
      BY <3>4, <3>5
    <3> QED BY <2>2, <3>3, <3>6, <3>7
  <2> QED BY <2>3, <2>4
<1> HIDE DEF N
<1>4. Cardinality(S) \in N
  BY <1>1, <1>2, <1>3, NatSetInduction
<1> QED BY <1>4 DEF N

(* Adding an element adds its value.                                       *)
LEMMA SumInsert ==
    ASSUME NEW f, NEW S, IsFiniteSet(S), NEW e, e \notin S,
           \A x \in S \cup {e} : f[x] \in Int
    PROVE  SumFunctionOnSet(f, S \cup {e}) = f[e] + SumFunctionOnSet(f, S)
<1>1. IsFiniteSet(S \cup {e})
  BY FS_AddElement
<1>2. (S \cup {e}) \ {e} = S /\ e \in S \cup {e}
  OBVIOUS
<1> QED BY <1>1, <1>2, SumRemove

(* Functions that agree on the set have the same sum over it.              *)
LEMMA SumCongruent ==
    ASSUME NEW f, NEW g, NEW S, IsFiniteSet(S), \A x \in S : f[x] \in Int,
           \A x \in S : f[x] = g[x]
    PROVE  SumFunctionOnSet(f, S) = SumFunctionOnSet(g, S)
<1> DEFINE P == {T \in SUBSET S :
                    SumFunctionOnSet(f, T) = SumFunctionOnSet(g, T)}
<1>1. {} \in P
  BY SumEmpty
<1>2. ASSUME NEW T \in SUBSET S, NEW x \in S \ T, T \in P
      PROVE  T \cup {x} \in P
  <2>1. IsFiniteSet(T)
    BY FS_Subset
  <2>2. SumFunctionOnSet(f, T \cup {x}) = f[x] + SumFunctionOnSet(f, T)
    BY <2>1, SumInsert
  <2>3. SumFunctionOnSet(g, T \cup {x}) = g[x] + SumFunctionOnSet(g, T)
    BY <2>1, SumInsert
  <2> QED BY <1>2, <2>2, <2>3
<1> HIDE DEF P
<1>3. S \in P
  BY <1>1, <1>2, FiniteInduction
<1> QED BY <1>3 DEF P

(* Changing the value of one element by d changes the sum by d.            *)
LEMMA SumUpdate ==
    ASSUME NEW f, NEW g, NEW S, IsFiniteSet(S), NEW e \in S, NEW d \in Int,
           \A x \in S : f[x] \in Int,
           g[e] = f[e] + d, \A x \in S \ {e} : g[x] = f[x]
    PROVE  SumFunctionOnSet(g, S) = SumFunctionOnSet(f, S) + d
<1>1. IsFiniteSet(S \ {e})
  BY FS_RemoveElement
<1>2. SumFunctionOnSet(f, S \ {e}) = SumFunctionOnSet(g, S \ {e})
  BY <1>1, SumCongruent
<1>3. SumFunctionOnSet(f, S \ {e}) \in Int
  BY <1>1, SumIsInt
<1>4. \A x \in S : g[x] \in Int
  OBVIOUS
<1>5. /\ SumFunctionOnSet(g, S) = g[e] + SumFunctionOnSet(g, S \ {e})
      /\ SumFunctionOnSet(f, S) = f[e] + SumFunctionOnSet(f, S \ {e})
  BY <1>4, SumRemove
<1> QED BY <1>2, <1>3, <1>5

(* The sum over a singleton is the value there.                            *)
LEMMA SumSingleton ==
    ASSUME NEW f, NEW e, f[e] \in Int
    PROVE  SumFunctionOnSet(f, {e}) = f[e]
<1>1. {} \cup {e} = {e}
  OBVIOUS
<1>2. SumFunctionOnSet(f, {} \cup {e}) = f[e] + SumFunctionOnSet(f, {})
  BY SumInsert, FS_EmptySet
<1> QED BY <1>1, <1>2, SumEmpty

(* The sum of naturals is a natural.                                       *)
LEMMA SumIsNat ==
    ASSUME NEW f, NEW S, IsFiniteSet(S), \A x \in S : f[x] \in Nat
    PROVE  SumFunctionOnSet(f, S) \in Nat
<1> DEFINE P == {T \in SUBSET S : SumFunctionOnSet(f, T) \in Nat}
<1>1. {} \in P
  BY SumEmpty
<1>2. ASSUME NEW T \in SUBSET S, NEW x \in S \ T, T \in P
      PROVE  T \cup {x} \in P
  <2>1. IsFiniteSet(T)
    BY FS_Subset
  <2>2. SumFunctionOnSet(f, T \cup {x}) = f[x] + SumFunctionOnSet(f, T)
    BY <2>1, SumInsert
  <2> QED BY <1>2, <2>2
<1> HIDE DEF P
<1>3. S \in P
  BY <1>1, <1>2, FiniteInduction
<1> QED BY <1>3 DEF P

(* The sum over two disjoint sets.                                         *)
LEMMA SumDisjoint ==
    ASSUME NEW f, NEW S, NEW T, IsFiniteSet(S), IsFiniteSet(T), S \cap T = {},
           \A x \in S \cup T : f[x] \in Int
    PROVE  SumFunctionOnSet(f, S \cup T)
             = SumFunctionOnSet(f, S) + SumFunctionOnSet(f, T)
<1> DEFINE P == {U \in SUBSET T : SumFunctionOnSet(f, S \cup U)
                     = SumFunctionOnSet(f, S) + SumFunctionOnSet(f, U)}
<1>0. SumFunctionOnSet(f, S) \in Int
  BY SumIsInt
<1>1. {} \in P
  BY <1>0, SumEmpty
<1>2. ASSUME NEW U \in SUBSET T, NEW x \in T \ U, U \in P
      PROVE  U \cup {x} \in P
  <2>1. /\ IsFiniteSet(U) /\ IsFiniteSet(S \cup U)
        /\ SumFunctionOnSet(f, U) \in Int
    BY FS_Subset, FS_Union, SumIsInt
  <2>2. SumFunctionOnSet(f, U \cup {x}) = f[x] + SumFunctionOnSet(f, U)
    BY <2>1, SumInsert
  <2>3. SumFunctionOnSet(f, (S \cup U) \cup {x})
          = f[x] + SumFunctionOnSet(f, S \cup U)
    BY <2>1, SumInsert
  <2>4. (S \cup U) \cup {x} = S \cup (U \cup {x}) /\ f[x] \in Int
    OBVIOUS
  <2>5. SumFunctionOnSet(f, S \cup (U \cup {x}))
          = f[x] + SumFunctionOnSet(f, S \cup U)
    BY <2>3, <2>4
  <2> QED BY <1>0, <1>2, <2>1, <2>2, <2>4, <2>5
<1> HIDE DEF P
<1>3. T \in P
  BY <1>1, <1>2, FiniteInduction
<1> QED BY <1>3 DEF P

(* A part of a sum of naturals is no more than the whole.                  *)
LEMMA SumOfPart ==
    ASSUME NEW f, NEW S, NEW T \in SUBSET S, IsFiniteSet(S),
           \A x \in S : f[x] \in Nat
    PROVE  SumFunctionOnSet(f, T) <= SumFunctionOnSet(f, S)
<1>1. IsFiniteSet(T) /\ IsFiniteSet(S \ T)
  BY FS_Subset
<1>2. T \cup (S \ T) = S /\ T \cap (S \ T) = {}
  OBVIOUS
<1>3. SumFunctionOnSet(f, T \cup (S \ T))
        = SumFunctionOnSet(f, T) + SumFunctionOnSet(f, S \ T)
  BY <1>1, <1>2, SumDisjoint
<1>4. SumFunctionOnSet(f, T) \in Nat /\ SumFunctionOnSet(f, S \ T) \in Nat
  BY <1>1, SumIsNat
<1>5. SumFunctionOnSet(f, S)
        = SumFunctionOnSet(f, T) + SumFunctionOnSet(f, S \ T)
  BY <1>2, <1>3
<1> QED BY <1>4, <1>5

(* The sum does not depend on the names the elements are summed under.     *)
LEMMA SumReindexed ==
    ASSUME NEW f, NEW S, NEW T, IsFiniteSet(S), NEW b \in Bijection(S, T),
           NEW g, \A x \in S : g[x] = f[b[x]], \A y \in T : f[y] \in Int
    PROVE  SumFunctionOnSet(g, S) = SumFunctionOnSet(f, T)
<1> DEFINE image(U) == {b[x] : x \in U}
           P == {U \in SUBSET S : IsFiniteSet(image(U))
                    /\ SumFunctionOnSet(g, U) = SumFunctionOnSet(f, image(U))}
<1>1. /\ b \in [S -> T]
      /\ \A x, y \in S : b[x] = b[y] => x = y
      /\ \A y \in T : \E x \in S : b[x] = y
  BY DEF Bijection, Injection, Surjection, IsInjective
<1>2. {} \in P
  <2>1. image({}) = {}
    OBVIOUS
  <2> HIDE DEF image
  <2> QED BY <2>1, SumEmpty, FS_EmptySet
<1>3. ASSUME NEW U \in SUBSET S, NEW x \in S \ U, U \in P
      PROVE  U \cup {x} \in P
  <2>1. image(U \cup {x}) = image(U) \cup {b[x]}
    OBVIOUS
  <2>2. b[x] \notin image(U) /\ image(U) \subseteq T /\ b[x] \in T
    BY <1>1
  <2>3. \A y \in U \cup {x} : g[y] \in Int
    BY <1>1
  <2>4. IsFiniteSet(U)
    BY FS_Subset
  <2>5. SumFunctionOnSet(g, U \cup {x}) = g[x] + SumFunctionOnSet(g, U)
    BY <2>3, <2>4, SumInsert
  <2> HIDE DEF image
  <2>6. /\ IsFiniteSet(image(U))
        /\ SumFunctionOnSet(g, U) = SumFunctionOnSet(f, image(U))
    BY <1>3
  <2>7. \A y \in image(U) \cup {b[x]} : f[y] \in Int
    BY <2>2
  <2>8. SumFunctionOnSet(f, image(U) \cup {b[x]})
          = f[b[x]] + SumFunctionOnSet(f, image(U))
    BY <2>2, <2>6, <2>7, SumInsert
  <2>9. IsFiniteSet(image(U) \cup {b[x]})
    BY <2>6, FS_AddElement
  <2> QED BY <2>1, <2>5, <2>6, <2>8, <2>9
<1> HIDE DEF P
<1>4. S \in P
  BY <1>2, <1>3, FiniteInduction
<1>5. image(S) = T
  BY <1>1
<1> QED BY <1>4, <1>5 DEF P

=============================================================================
