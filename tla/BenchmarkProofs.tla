--------------------------- MODULE BenchmarkProofs ---------------------------
(***************************************************************************)
(* Theorems of the registrations of HostRuntimes, for every inventory.     *)
(*                                                                         *)
(*   1. RegistrationProbed   what was registered is the probe of its GPUs  *)
(*   2. TracksHardware       the fingerprint changes iff the GPUs do       *)
(*   3. ScoredByNames        the score is that of the rows that name them  *)
(*                                                                         *)
(* 2 is about orders: every enumeration of the GPUs can be sorted, a set of*)
(* integers has one sorted enumeration, and the set is the range of it.    *)
(* 3 is about the score tables, row by row, and about sums, which do not   *)
(* depend on the enumeration either.                                       *)
(***************************************************************************)
EXTENDS HostRuntimes, Sums

-----------------------------------------------------------------------------
(* Orders.                                                                 *)

InOrder(s) == \A i, j \in DOMAIN s : i < j => s[i] <= s[j]

(* A finite set of integers that is not empty has a greatest element.      *)
LEMMA GreatestElement ==
    ASSUME NEW S \in SUBSET Int, IsFiniteSet(S), S # {}
    PROVE  \E m \in S : \A x \in S : x <= m
<1> DEFINE P == {T \in SUBSET S : T # {} => \E m \in T : \A x \in T : x <= m}
<1>1. {} \in P
  OBVIOUS
<1>2. ASSUME NEW T \in SUBSET S, NEW y \in S \ T, T \in P
      PROVE  T \cup {y} \in P
  <2>1. CASE T = {}
    BY <2>1
  <2>2. CASE T # {}
    <3>1. PICK m \in T : \A x \in T : x <= m
      BY <1>2, <2>2
    <3>2. CASE y <= m
      BY <3>1, <3>2
    <3>3. CASE m <= y
      <4>1. \A x \in T : x <= y
        BY <3>1, <3>3
      <4> QED BY <4>1
    <3> QED BY <3>1, <3>2, <3>3
  <2> QED BY <2>1, <2>2
<1> HIDE DEF P
<1>3. S \in P
  BY <1>1, <1>2, FiniteInduction
<1> QED BY <1>3 DEF P

(* A finite set of integers can be enumerated in order: its greatest       *)
(* element is put after the others.                                        *)
LEMMA OrderExists ==
    ASSUME NEW S \in SUBSET Int, IsFiniteSet(S)
    PROVE  \E s \in Enumerations(S) : InOrder(s)
<1> DEFINE N == {n \in Nat : \A T \in SUBSET S : Cardinality(T) = n =>
                                \E s \in Enumerations(T) : InOrder(s)}
<1>1. \A T \in SUBSET S : IsFiniteSet(T) /\ Cardinality(T) \in Nat
  BY FS_Subset, FS_CardinalityType
<1>2. 0 \in N
  <2> SUFFICES ASSUME NEW T \in SUBSET S, Cardinality(T) = 0
               PROVE  \E s \in Enumerations(T) : InOrder(s)
    OBVIOUS
  <2>1. T = {} /\ 1 .. Cardinality(T) = {}
    BY <1>1, FS_EmptySet
  <2> DEFINE s == [i \in {} |-> 0]
  <2>2. s \in Enumerations(T) /\ InOrder(s)
    BY <2>1 DEF Enumerations, InOrder, Bijection, Injection, Surjection,
                IsInjective
  <2> QED BY <2>2
<1>3. ASSUME NEW n \in Nat, n \in N PROVE n + 1 \in N
  <2> SUFFICES ASSUME NEW T \in SUBSET S, Cardinality(T) = n + 1
               PROVE  \E s \in Enumerations(T) : InOrder(s)
    OBVIOUS
  <2>1. IsFiniteSet(T) /\ T # {} /\ T \in SUBSET Int
    BY <1>1, FS_EmptySet
  <2>2. PICK m \in T : \A x \in T : x <= m
    BY <2>1, GreatestElement
  <2>3. Cardinality(T \ {m}) = Cardinality(T) - 1
    BY <2>1, FS_RemoveElement
  <2>4. Cardinality(T \ {m}) = n
    BY <2>3
  <2>5. PICK s \in Enumerations(T \ {m}) : InOrder(s)
    BY <1>3, <2>4
  <2>6. /\ s \in [1 .. n -> T \ {m}]
        /\ \A i, j \in 1 .. n : s[i] = s[j] => i = j
        /\ \A x \in T \ {m} : \E i \in 1 .. n : s[i] = x
        /\ \A i, j \in 1 .. n : i < j => s[i] <= s[j]
    BY <2>4, <2>5 DEF Enumerations, InOrder, Bijection, Injection, Surjection,
                      IsInjective
  <2> DEFINE t == [i \in 1 .. n + 1 |-> IF i = n + 1 THEN m ELSE s[i]]
  <2>7. /\ t \in [1 .. n + 1 -> T]
        /\ t[n + 1] = m
        /\ \A i \in 1 .. n + 1 : i # n + 1 =>
              i \in 1 .. n /\ t[i] = s[i] /\ t[i] \in T \ {m}
    BY <2>6
  <2> HIDE DEF t
  <2>8. \A i, j \in 1 .. n + 1 : t[i] = t[j] => i = j
    BY <2>6, <2>7
  <2>9. \A x \in T : \E i \in 1 .. n + 1 : t[i] = x
    <3> SUFFICES ASSUME NEW x \in T PROVE \E i \in 1 .. n + 1 : t[i] = x
      OBVIOUS
    <3>1. CASE x = m
      BY <2>7, <3>1
    <3>2. CASE x # m
      <4>1. PICK i \in 1 .. n : s[i] = x
        BY <2>6, <3>2
      <4> QED BY <2>7, <4>1
    <3> QED BY <3>1, <3>2
  <2>10. \A i, j \in 1 .. n + 1 : i < j => t[i] <= t[j]
    <3> SUFFICES ASSUME NEW i \in 1 .. n + 1, NEW j \in 1 .. n + 1, i < j
                 PROVE  t[i] <= t[j]
      OBVIOUS
    <3>1. i # n + 1 /\ i \in 1 .. n
      OBVIOUS
    <3>2. CASE j = n + 1
      BY <2>2, <2>7, <3>1, <3>2
    <3>3. CASE j # n + 1
      BY <2>6, <2>7, <3>1, <3>3
    <3> QED BY <3>2, <3>3
  <2>11. t \in Enumerations(T)
    BY <2>7, <2>8, <2>9 DEF Enumerations, Bijection, Injection, Surjection,
                            IsInjective
  <2>12. InOrder(t)
    BY <2>7, <2>10 DEF InOrder
  <2> QED BY <2>11, <2>12
<1> HIDE DEF N
<1>4. Cardinality(S) \in N
  BY <1>1, <1>2, <1>3, NatSetInduction
<1> QED BY <1>4 DEF N

(* There is only one such enumeration: at the first place where two differ *)
(* the smaller value would not occur in the other.                         *)
LEMMA OrderIsUnique ==
    ASSUME NEW S \in SUBSET Int, IsFiniteSet(S),
           NEW s \in Enumerations(S), NEW t \in Enumerations(S),
           InOrder(s), InOrder(t)
    PROVE  s = t
<1> DEFINE n == Cardinality(S)
           D == 1 .. n
           N == {k \in Nat : \A i \in D : i <= k => s[i] = t[i]}
<1>0. n \in Nat
  BY FS_CardinalityType
<1> HIDE DEF n
<1>1. /\ s \in [D -> S] /\ t \in [D -> S]
      /\ \A i, j \in D : s[i] = s[j] => i = j
      /\ \A i, j \in D : t[i] = t[j] => i = j
      /\ \A x \in S : (\E i \in D : s[i] = x) /\ (\E i \in D : t[i] = x)
      /\ \A i, j \in D : i < j => s[i] <= s[j] /\ t[i] <= t[j]
  BY DEF Enumerations, InOrder, Bijection, Injection, Surjection,
         IsInjective, n
<1>2. 0 \in N
  OBVIOUS
<1>3. ASSUME NEW k \in Nat, k \in N PROVE k + 1 \in N
  <2> SUFFICES ASSUME k + 1 \in D PROVE s[k + 1] = t[k + 1]
    BY <1>0, <1>3
  <2>1. \A i \in D : i < k + 1 => s[i] = t[i]
    BY <1>0, <1>3
  <2>2. s[k + 1] \in S /\ t[k + 1] \in S
    BY <1>1
  <2>3. PICK i \in D : t[i] = s[k + 1]
    BY <1>1, <2>2
  <2>4. PICK j \in D : s[j] = t[k + 1]
    BY <1>1, <2>2
  <2>5. i >= k + 1 /\ j >= k + 1
    <3>1. i < k + 1 => FALSE
      BY <1>0, <1>1, <2>1, <2>3
    <3>2. j < k + 1 => FALSE
      BY <1>0, <1>1, <2>1, <2>4
    <3> QED BY <1>0, <3>1, <3>2
  <2>6. s[k + 1] \in Int /\ t[k + 1] \in Int /\ i \in Int /\ j \in Int
    <3>1. D \subseteq Int
      BY <1>0
    <3>2. s[k + 1] \in Int /\ t[k + 1] \in Int
      BY <2>2
    <3>3. i \in Int /\ j \in Int
      BY <3>1
    <3> QED BY <3>2, <3>3
  <2>7. t[k + 1] <= t[i]
    <3>1. CASE i = k + 1
      BY <2>6, <3>1
    <3>2. CASE i # k + 1
      <4>1. k + 1 < i
        BY <2>5, <2>6, <3>2
      <4> QED BY <1>1, <4>1
    <3> QED BY <3>1, <3>2
  <2>8. s[k + 1] <= s[j]
    <3>1. CASE j = k + 1
      BY <2>6, <3>1
    <3>2. CASE j # k + 1
      <4>1. k + 1 < j
        BY <2>5, <2>6, <3>2
      <4> QED BY <1>1, <4>1
    <3> QED BY <3>1, <3>2
  <2> QED BY <2>3, <2>4, <2>6, <2>7, <2>8
<1> HIDE DEF N
<1>4. n \in N
  BY <1>0, <1>2, <1>3, NatSetInduction
<1>5. \A i \in D : s[i] = t[i]
  BY <1>0, <1>4 DEF N
<1> HIDE DEF D
<1> QED BY <1>1, <1>5

(* benchmark.rs:159: an enumeration of distinct integers can be sorted, and*)
(* what the sort gives enumerates the same integers in order.              *)
LEMMA SortOrders ==
    ASSUME NEW S \in SUBSET Int, IsFiniteSet(S), NEW s \in Enumerations(S)
    PROVE  Sort(s) \in Enumerations(S) /\ InOrder(Sort(s))
<1> DEFINE D == 1 .. Cardinality(S)
           sorts == {[i \in D |-> s[p[i]]] : p \in Bijection(D, D)}
<1>1. /\ s \in [D -> S]
      /\ \A i, j \in D : s[i] = s[j] => i = j
      /\ \A x \in S : \E i \in D : s[i] = x
  BY DEF Enumerations, Bijection, Injection, Surjection, IsInjective
<1>2. PICK u \in Enumerations(S) : InOrder(u)
  BY OrderExists
<1>3. /\ u \in [D -> S]
      /\ \A i, j \in D : u[i] = u[j] => i = j
      /\ \A x \in S : \E i \in D : u[i] = x
      /\ \A i, j \in D : i < j => u[i] <= u[j]
  BY <1>2 DEF Enumerations, Bijection, Injection, Surjection, IsInjective,
              InOrder
<1>4. \E t \in sorts : \A i, j \in D : i < j => t[i] <= t[j]
  <2> HIDE DEF D
  <2> DEFINE p == [i \in D |-> CHOOSE j \in D : s[j] = u[i]]
  <2>1. \A i \in D : \E j \in D : s[j] = u[i]
    BY <1>1, <1>3
  <2>2. p \in [D -> D] /\ \A i \in D : s[p[i]] = u[i]
    BY <2>1
  <2> HIDE DEF p
  <2>3. \A i, j \in D : p[i] = p[j] => i = j
    <3> SUFFICES ASSUME NEW i \in D, NEW j \in D, p[i] = p[j] PROVE i = j
      OBVIOUS
    <3>1. u[i] = u[j]
      BY <2>2, Zenon
    <3> QED BY <1>3, <3>1
  <2>4. \A j \in D : \E i \in D : p[i] = j
    <3> SUFFICES ASSUME NEW j \in D PROVE \E i \in D : p[i] = j
      OBVIOUS
    <3>1. s[j] \in S
      BY <1>1
    <3>2. PICK i \in D : u[i] = s[j]
      BY <1>3, <3>1
    <3>3. p[i] = j
      BY <1>1, <2>2, <3>2
    <3> QED BY <3>3
  <2>5. p \in Bijection(D, D)
    BY <2>2, <2>3, <2>4 DEF Bijection, Injection, Surjection, IsInjective
  <2>6. [i \in D |-> s[p[i]]] = u
    BY <1>3, <2>2
  <2>7. u \in sorts
    BY <2>5, <2>6
  <2> QED BY <1>3, <2>7
<1>5. Sort(s) = CHOOSE t \in sorts : \A i, j \in D : i < j => t[i] <= t[j]
  <2>1. DOMAIN s = D
    BY <1>1
  <2> HIDE DEF D
  <2> QED BY <2>1 DEF Sort
<1> HIDE DEF D
<1>6. Sort(s) \in sorts
      /\ \A i, j \in D : i < j => Sort(s)[i] <= Sort(s)[j]
  <2> HIDE DEF sorts
  <2> QED BY <1>4, <1>5
<1>7. PICK p \in Bijection(D, D) : Sort(s) = [i \in D |-> s[p[i]]]
  BY <1>6
<1>8. /\ p \in [D -> D]
      /\ \A i, j \in D : p[i] = p[j] => i = j
      /\ \A j \in D : \E i \in D : p[i] = j
  BY DEF Bijection, Injection, Surjection, IsInjective
<1>9. Sort(s) \in [D -> S] /\ \A i \in D : Sort(s)[i] = s[p[i]]
  BY <1>1, <1>7, <1>8
<1>10. \A i, j \in D : Sort(s)[i] = Sort(s)[j] => i = j
  <2> SUFFICES ASSUME NEW i \in D, NEW j \in D, Sort(s)[i] = Sort(s)[j]
               PROVE  i = j
    OBVIOUS
  <2>1. s[p[i]] = s[p[j]] /\ p[i] \in D /\ p[j] \in D
    BY <1>8, <1>9
  <2> QED BY <1>1, <1>8, <2>1
<1>11. \A x \in S : \E i \in D : Sort(s)[i] = x
  <2> SUFFICES ASSUME NEW x \in S PROVE \E i \in D : Sort(s)[i] = x
    OBVIOUS
  <2>1. PICK j \in D : s[j] = x
    BY <1>1
  <2>2. PICK i \in D : p[i] = j
    BY <1>8
  <2> QED BY <1>9, <2>1, <2>2
<1>12. Sort(s) \in Bijection(D, S)
  BY <1>9, <1>10, <1>11 DEF Bijection, Injection, Surjection, IsInjective
<1>13. InOrder(Sort(s))
  BY <1>6, <1>9 DEF InOrder
<1> QED BY <1>12, <1>13 DEF Enumerations, D

-----------------------------------------------------------------------------
(* Fingerprints.                                                           *)

Tuples(gpus) == {g.tuple : g \in gpus}

(* What a host registers identifies its GPUs by their tuples.              *)
Identified(gpus) ==
    /\ IsFiniteSet(gpus)
    /\ \A g \in gpus : g.tuple \in Int
    /\ \A g, h \in gpus : g.tuple = h.tuple => g = h

(* benchmark.rs:153-155: whatever the enumeration of the GPUs, what is     *)
(* hashed is their tuples in order.                                        *)
LEMMA FingerprintIsSorted ==
    ASSUME NEW gpus, Identified(gpus), NEW e \in Enumerations(gpus)
    PROVE  /\ Tuples(gpus) \in SUBSET Int /\ IsFiniteSet(Tuples(gpus))
           /\ Fingerprint(e) \in Enumerations(Tuples(gpus))
           /\ InOrder(Fingerprint(e))
<1> DEFINE n == Cardinality(gpus)
           D == 1 .. n
           s == [i \in D |-> e[i].tuple]
           T == Tuples(gpus)
<1>1. n \in Nat
  BY FS_CardinalityType DEF Identified
<1>2. /\ e \in [D -> gpus]
      /\ \A i, j \in D : e[i] = e[j] => i = j
      /\ \A g \in gpus : \E i \in D : e[i] = g
  BY DEF Enumerations, Bijection, Injection, Surjection, IsInjective
<1>3. T \in SUBSET Int
  BY DEF Tuples, Identified
<1> HIDE DEF n
<1>4. s \in Bijection(D, T)
  <2>1. s \in [D -> T] /\ \A i \in D : s[i] = e[i].tuple
    BY <1>2 DEF Tuples
  <2> HIDE DEF s
  <2>2. \A i, j \in D : s[i] = s[j] => i = j
    <3> SUFFICES ASSUME NEW i \in D, NEW j \in D, s[i] = s[j] PROVE i = j
      OBVIOUS
    <3>1. e[i] \in gpus /\ e[j] \in gpus /\ e[i].tuple = e[j].tuple
      BY <1>2, <2>1
    <3> QED BY <1>2, <3>1 DEF Identified
  <2>3. \A x \in T : \E i \in D : s[i] = x
    BY <1>2, <2>1 DEF Tuples
  <2> QED BY <2>1, <2>2, <2>3 DEF Bijection, Injection, Surjection, IsInjective
<1> HIDE DEF s, T
<1>5. ExistsBijection(D, T)
  BY <1>4 DEF ExistsBijection
<1>6. IsFiniteSet(T) /\ Cardinality(T) = n
  BY <1>1, <1>5, FS_NatBijection, FS_CountingElements
<1>7. s \in Enumerations(T)
  BY <1>4, <1>6 DEF Enumerations
<1>8. Fingerprint(e) = Sort(s)
  BY <1>2 DEF Fingerprint, s
<1>9. Sort(s) \in Enumerations(T) /\ InOrder(Sort(s))
  BY <1>3, <1>6, <1>7, SortOrders
<1> QED BY <1>3, <1>6, <1>8, <1>9 DEF T

(* benchmark.rs:155-156: two fingerprints are the same exactly when the    *)
(* GPUs are, whatever the order of each enumeration.                       *)
LEMMA FingerprintsAgree ==
    ASSUME NEW G, NEW H, Identified(G \cup H),
           NEW d \in Enumerations(G), NEW e \in Enumerations(H)
    PROVE  Fingerprint(d) = Fingerprint(e) <=> G = H
<1>1. Identified(G) /\ Identified(H)
  BY FS_Subset DEF Identified
<1>2. /\ Tuples(G) \in SUBSET Int /\ IsFiniteSet(Tuples(G))
      /\ Fingerprint(d) \in Enumerations(Tuples(G))
      /\ InOrder(Fingerprint(d))
  BY <1>1, FingerprintIsSorted
<1>3. /\ Fingerprint(e) \in Enumerations(Tuples(H))
      /\ InOrder(Fingerprint(e))
  BY <1>1, FingerprintIsSorted
<1>4. ASSUME G = H PROVE Fingerprint(d) = Fingerprint(e)
  BY <1>2, <1>3, <1>4, OrderIsUnique
<1>5. ASSUME Fingerprint(d) = Fingerprint(e) PROVE G = H
  <2>1. Tuples(G) = Tuples(H)
    <3>1. /\ Tuples(G) = Range(Fingerprint(d))
          /\ Tuples(H) = Range(Fingerprint(e))
      BY <1>2, <1>3 DEF Enumerations, Bijection, Injection, Surjection, Range
    <3> QED BY <1>5, <3>1
  <2>2. \A g \in G : g \in H
    BY <2>1 DEF Tuples, Identified
  <2>3. \A h \in H : h \in G
    BY <2>1 DEF Tuples, Identified
  <2> QED BY <2>2, <2>3
<1> QED BY <1>4, <1>5

-----------------------------------------------------------------------------
(* Registrations.                                                          *)

(* main: what was registered last was said of an inventory of the host, in *)
(* one of the orders its GPUs can be enumerated in.                        *)
RegistrationInv ==
    /\ platform \in Platforms
    /\ hardware \in Inventories[platform]
    /\ registered # Never =>
          /\ registered.gpus \in Inventories[platform]
          /\ \E e \in Enumerations(registered.gpus) :
                /\ registered.fingerprint = Fingerprint(e)
                /\ registered.dlperf = Dlperf(e)

(* A registration is made by a boot, of the hardware the host has then.    *)
LEMMA BootProbes ==
    ASSUME Boot
    PROVE  /\ UNCHANGED <<platform, hardware>>
           /\ registered'.gpus = hardware
           /\ \E e \in Enumerations(hardware) :
                 /\ registered'.fingerprint = Fingerprint(e)
                 /\ registered'.dlperf = Dlperf(e)
<1>1. PICK probed \in Probe(hardware) :
         registered' = [gpus        |-> hardware,
                        fingerprint |-> probed.fingerprint,
                        dlperf      |-> probed.dlperf]
  BY DEF Boot
<1>2. PICK e \in Enumerations(hardware) :
         probed = [fingerprint |-> Fingerprint(e), dlperf |-> Dlperf(e)]
  BY DEF Probe
<1>3. /\ registered'.gpus = hardware
      /\ registered'.fingerprint = Fingerprint(e)
      /\ registered'.dlperf = Dlperf(e)
  BY <1>1, <1>2
<1> QED BY <1>3 DEF Boot

(* Nothing else a host does changes what it registered.                    *)
LEMMA OnlyBootRegisters ==
    ASSUME [HostNext]_hostVars, registered' # registered
    PROVE  Boot
BY DEF HostNext, SwapHardware, host, hostVars

(* What was registered is the probe of GPUs the host has had.              *)
THEOREM RegistrationProbed == HostSpec => []RegistrationInv
<1>1. HostInit => RegistrationInv
  BY DEF HostInit, RegistrationInv
<1>2. RegistrationInv /\ [HostNext]_hostVars => RegistrationInv'
  <2> SUFFICES ASSUME RegistrationInv, [HostNext]_hostVars
               PROVE  RegistrationInv'
    OBVIOUS
  <2>1. platform' = platform /\ hardware' \in Inventories[platform]
    BY DEF RegistrationInv, HostNext, Boot, SwapHardware, host, hostVars
  <2>2. CASE registered' = registered
    BY <2>1, <2>2 DEF RegistrationInv
  <2>3. CASE registered' # registered
    <3>1. Boot
      BY <2>3, OnlyBootRegisters
    <3> QED BY <2>1, <3>1, BootProbes DEF RegistrationInv
  <2> QED BY <2>2, <2>3
<1> QED BY <1>1, <1>2, PTL DEF HostSpec

(* Any two inventories of a host tell their GPUs apart by the tuples.      *)
LEMMA InventoriesIdentified ==
    ASSUME NEW p \in Platforms,
           NEW G \in Inventories[p], NEW H \in Inventories[p]
    PROVE  Identified(G \cup H)
<1>1. IsFiniteSet(G \cup H)
  BY InventoryAssumption, FS_Union
<1>2. \A g \in G \cup H : g.tuple \in Int
  BY InventoryAssumption DEF IsGpu
<1>3. \A g, h \in G \cup H : g.tuple = h.tuple => g = h
  <2>1. G \cup H \subseteq UNION Inventories[p]
    OBVIOUS
  <2> QED BY <2>1, InventoryAssumption
<1> QED BY <1>1, <1>2, <1>3 DEF Identified

(* SPEC 6, benchmark.rs:153-156: across restarts the fingerprint changes   *)
(* exactly when the hardware does, in whatever order the GPUs are listed.  *)
THEOREM TracksHardware == HostSpec => FingerprintTracksHardware
<1>1. ASSUME RegistrationInv, [HostNext]_hostVars
      PROVE  registered # Never /\ registered' # registered =>
               (registered'.fingerprint = registered.fingerprint
                  <=> registered'.gpus = registered.gpus)
  <2> SUFFICES ASSUME registered # Never, registered' # registered
               PROVE  registered'.fingerprint = registered.fingerprint
                        <=> registered'.gpus = registered.gpus
    OBVIOUS
  <2>1. PICK d \in Enumerations(registered.gpus) :
           registered.fingerprint = Fingerprint(d)
    BY <1>1 DEF RegistrationInv
  <2>2. Boot
    BY <1>1, OnlyBootRegisters
  <2>3. PICK e \in Enumerations(hardware) :
           registered'.fingerprint = Fingerprint(e)
    BY <2>2, BootProbes
  <2>4. registered'.gpus = hardware
    BY <2>2, BootProbes
  <2>5. Identified(registered.gpus \cup hardware)
    BY <1>1, InventoriesIdentified DEF RegistrationInv
  <2>6. Fingerprint(d) = Fingerprint(e) <=> registered.gpus = hardware
    BY <2>5, FingerprintsAgree
  <2> QED BY <2>1, <2>3, <2>4, <2>6
<1> QED BY <1>1, RegistrationProbed, PTL
        DEF HostSpec, FingerprintTracksHardware

-----------------------------------------------------------------------------
(* The score tables, row by row.                                           *)

(* A row of the tables is one of their rows.                               *)
LEMMA RowNumbers ==
    /\ \A i \in 1 .. 25 :
                     i = 1 \/ i = 2 \/ i = 3 \/ i = 4 \/ i = 5 \/ i = 6
                     \/ i = 7 \/ i = 8 \/ i = 9 \/ i = 10 \/ i = 11
                     \/ i = 12 \/ i = 13 \/ i = 14 \/ i = 15 \/ i = 16
                     \/ i = 17 \/ i = 18 \/ i = 19 \/ i = 20 \/ i = 21
                     \/ i = 22 \/ i = 23 \/ i = 24 \/ i = 25
    /\ \A i \in 1 .. 15 :
                     i = 1 \/ i = 2 \/ i = 3 \/ i = 4 \/ i = 5 \/ i = 6
                     \/ i = 7 \/ i = 8 \/ i = 9 \/ i = 10 \/ i = 11
                     \/ i = 12 \/ i = 13 \/ i = 14 \/ i = 15
OBVIOUS

(* benchmark.rs:203-231: both tables have their sizes and integer scores.  *)
LEMMA TableShapes ==
    /\ DOMAIN Table = 1 .. 25 /\ \A i \in 1 .. 25 : Table[i][2] \in Int
    /\ DOMAIN AppleTable = 1 .. 15
    /\ \A i \in 1 .. 15 : AppleTable[i][2] \in Int
<1>1. DOMAIN Table = 1 .. 25 /\ \A i \in 1 .. 25 : Table[i][2] \in Int
  BY DEF Table
<1>2. /\ DOMAIN AppleTable = 1 .. 15
      /\ \A i \in 1 .. 15 : AppleTable[i][2] \in Int
  BY DEF AppleTable
<1> QED BY <1>1, <1>2

(* benchmark.rs:203-231: the entries of the first table, in their order.   *)
LEMMA NvidiaRows ==
    /\ Table[1][1] = "h200"
    /\ Table[2][1] = "h100"
    /\ Table[3][1] = "a100"
    /\ Table[4][1] = "l40s"
    /\ Table[5][1] = "l40"
    /\ Table[6][1] = "a40"
    /\ Table[7][1] = "a30"
    /\ Table[8][1] = "a10g"
    /\ Table[9][1] = "a10"
    /\ Table[10][1] = "l4"
    /\ Table[11][1] = "v100"
    /\ Table[12][1] = "t4"
    /\ Table[13][1] = "rtx 6000 ada"
    /\ Table[14][1] = "rtx a6000"
    /\ Table[15][1] = "rtx a5000"
    /\ Table[16][1] = "rtx a4000"
    /\ Table[17][1] = "4090"
    /\ Table[18][1] = "4080"
    /\ Table[19][1] = "4070 ti"
    /\ Table[20][1] = "4070"
    /\ Table[21][1] = "3090 ti"
    /\ Table[22][1] = "3090"
    /\ Table[23][1] = "3080"
    /\ Table[24][1] = "3070"
    /\ Table[25][1] = "2080 ti"
BY DEF Table

(* benchmark.rs:255-271: the entries of Apple's table, in their order.     *)
LEMMA AppleRows ==
    /\ AppleTable[1][1] = "m3 ultra"
    /\ AppleTable[2][1] = "m2 ultra"
    /\ AppleTable[3][1] = "m1 ultra"
    /\ AppleTable[4][1] = "m4 max"
    /\ AppleTable[5][1] = "m3 max"
    /\ AppleTable[6][1] = "m2 max"
    /\ AppleTable[7][1] = "m1 max"
    /\ AppleTable[8][1] = "m4 pro"
    /\ AppleTable[9][1] = "m3 pro"
    /\ AppleTable[10][1] = "m2 pro"
    /\ AppleTable[11][1] = "m1 pro"
    /\ AppleTable[12][1] = "m4"
    /\ AppleTable[13][1] = "m3"
    /\ AppleTable[14][1] = "m2"
    /\ AppleTable[15][1] = "m1"
BY DEF AppleTable

(* Where the entries that occur in others, and those others, are.          *)
LEMMA NvidiaPlaces ==
    \A i \in 1 .. 25 :
       /\ Table[i][1] = "a100" => i = 3
       /\ Table[i][1] = "l40s" => i = 4
       /\ Table[i][1] = "l40" => i = 5
       /\ Table[i][1] = "a10g" => i = 8
       /\ Table[i][1] = "a10" => i = 9
       /\ Table[i][1] = "l4" => i = 10
       /\ Table[i][1] = "4070 ti" => i = 19
       /\ Table[i][1] = "4070" => i = 20
       /\ Table[i][1] = "3090 ti" => i = 21
       /\ Table[i][1] = "3090" => i = 22
       /\ Table[i][1] \notin {"m1", "m2", "m3", "m4", "none"}
BY NvidiaRows, RowNumbers, Zenon

(* Where the entries of Apple's table are.                                 *)
LEMMA ApplePlaces ==
    \A i \in 1 .. 15 :
       /\ AppleTable[i][1] = "m3 ultra" => i = 1
       /\ AppleTable[i][1] = "m2 ultra" => i = 2
       /\ AppleTable[i][1] = "m1 ultra" => i = 3
       /\ AppleTable[i][1] = "m4 max" => i = 4
       /\ AppleTable[i][1] = "m3 max" => i = 5
       /\ AppleTable[i][1] = "m2 max" => i = 6
       /\ AppleTable[i][1] = "m1 max" => i = 7
       /\ AppleTable[i][1] = "m4 pro" => i = 8
       /\ AppleTable[i][1] = "m3 pro" => i = 9
       /\ AppleTable[i][1] = "m2 pro" => i = 10
       /\ AppleTable[i][1] = "m1 pro" => i = 11
       /\ AppleTable[i][1] = "m4" => i = 12
       /\ AppleTable[i][1] = "m3" => i = 13
       /\ AppleTable[i][1] = "m2" => i = 14
       /\ AppleTable[i][1] = "m1" => i = 15
       /\ AppleTable[i][1] \notin
             {"a10", "l40", "l4", "a40", "4070", "3090", "none"}
BY AppleRows, RowNumbers, Zenon

(* OccursIn, one pair of entries at a time.                                *)
Occurs(d, e) ==
    \/ d = "a10"  /\ e \in {"a100", "a10g"}
    \/ d = "l40"  /\ e = "l40s"
    \/ d = "l4"   /\ e \in {"l40s", "l40"}
    \/ d = "a40"  /\ e = "rtx a4000"
    \/ d = "4070" /\ e = "4070 ti"
    \/ d = "3090" /\ e = "3090 ti"
    \/ d = "m4"   /\ e \in {"m4 max", "m4 pro"}
    \/ d = "m3"   /\ e \in {"m3 ultra", "m3 max", "m3 pro"}
    \/ d = "m2"   /\ e \in {"m2 ultra", "m2 max", "m2 pro"}
    \/ d = "m1"   /\ e \in {"m1 ultra", "m1 max", "m1 pro"}

(* The members of OccursIn are these pairs.                                *)
LEMMA OccursPairs == \A d, e : <<d, e>> \in OccursIn => Occurs(d, e)
BY DEF OccursIn, Occurs

(* benchmark.rs:201: "Most specific substrings first": but for the exempt  *)
(* row, an entry comes before those that occur in it.                      *)
LEMMA SpecificFirst ==
    ASSUME NEW i \in 1 .. 25, NEW j \in 1 .. 25,
           <<Table[i][1], Table[j][1]>> \in OccursIn,
           Table[j][1] \notin Shadowed
    PROVE  j < i
<1>1. Occurs(Table[i][1], Table[j][1])
  BY OccursPairs
<1>2. \/ i = 9 /\ j \in {3, 8}
      \/ i = 5 /\ j = 4
      \/ i = 10 /\ j \in {4, 5}
      \/ i = 20 /\ j = 19
      \/ i = 22 /\ j = 21
  BY <1>1, NvidiaPlaces, Zenon DEF Occurs, Shadowed
<1> QED BY <1>2

(* benchmark.rs:252-253: "m4 max" is not captured by "m4".                 *)
LEMMA AppleSpecificFirst ==
    ASSUME NEW i \in 1 .. 15, NEW j \in 1 .. 15,
           <<AppleTable[i][1], AppleTable[j][1]>> \in OccursIn
    PROVE  j < i
<1>1. Occurs(AppleTable[i][1], AppleTable[j][1])
  BY OccursPairs
<1>2. \/ i = 12 /\ j \in {4, 8}
      \/ i = 13 /\ j \in {1, 5, 9}
      \/ i = 14 /\ j \in {2, 6, 10}
      \/ i = 15 /\ j \in {3, 7, 11}
  BY <1>1, ApplePlaces, Zenon DEF Occurs
<1> QED BY <1>2

-----------------------------------------------------------------------------
(* Scores.                                                                 *)

(* The first of a table's rows in a set that is not empty.                 *)
LEMMA FirstOfRows ==
    ASSUME NEW n \in Nat, NEW rows \in SUBSET (1 .. n), rows # {}
    PROVE  First(rows) \in rows /\ \A j \in rows : First(rows) <= j
<1>1. 1 \in Int /\ n \in Int
  OBVIOUS
<1>2. \E i \in rows : \A j \in rows : i <= j
  BY <1>1, LeastInRange
<1> QED BY <1>2 DEF First

(* benchmark.rs:240-244: in a table whose specific entries come first, the *)
(* first row a name contains is the row that names it, if there is one.    *)
LEMMA FirstMatchIsNamed ==
    ASSUME NEW n \in Nat, NEW table, DOMAIN table = 1 .. n,
           \A i \in 1 .. n : table[i][2] \in Int,
           NEW default \in Int, NEW contains, NEW model,
           NEW rows \in SUBSET (1 .. n),
           \A i \in 1 .. n : i \in rows <=> table[i][1] = model,
           \A i \in 1 .. n : table[i][1] \in contains <=>
              i \in rows \/ <<table[i][1], model>> \in OccursIn,
           rows # {} \/ \A d : <<d, model>> \notin OccursIn,
           \A i \in 1 .. n, j \in rows :
              <<table[i][1], model>> \in OccursIn => j < i
    PROVE  /\ FirstMatch(table, contains, default) =
                 IF rows # {} THEN table[First(rows)][2] ELSE default
           /\ FirstMatch(table, contains, default) \in Int
<1> DEFINE hits == {i \in 1 .. n : table[i][1] \in contains}
<1>1. FirstMatch(table, contains, default)
        = IF hits = {} THEN default ELSE table[First(hits)][2]
  BY DEF FirstMatch
<1>3. \A i \in 1 .. n : i \in hits <=>
         i \in rows \/ <<table[i][1], model>> \in OccursIn
  OBVIOUS
<1>4. CASE rows = {}
  <2>1. hits = {}
    BY <1>3, <1>4
  <2> QED BY <1>1, <1>4, <2>1
<1>5. CASE rows # {}
  <2>1. rows \subseteq hits /\ hits # {} /\ hits \in SUBSET (1 .. n)
    BY <1>3, <1>5
  <2> HIDE DEF hits
  <2>2. First(hits) \in hits /\ \A j \in hits : First(hits) <= j
    BY <2>1, FirstOfRows
  <2>3. First(rows) \in rows /\ \A j \in rows : First(rows) <= j
    BY <1>5, FirstOfRows
  <2>4. First(hits) \in 1 .. n /\ First(rows) \in 1 .. n
    BY <2>1, <2>2, <2>3
  <2>5. First(hits) <= First(rows)
    BY <2>1, <2>2, <2>3
  <2>6. <<table[First(hits)][1], model>> \notin OccursIn
    <3> SUFFICES ASSUME <<table[First(hits)][1], model>> \in OccursIn
                 PROVE  FALSE
      OBVIOUS
    <3>1. First(rows) < First(hits)
      BY <2>3, <2>4
    <3> QED BY <2>4, <2>5, <3>1
  <2>7. First(hits) \in rows
    BY <1>3, <2>2, <2>4, <2>6
  <2>8. First(rows) <= First(hits)
    BY <2>3, <2>7
  <2>9. First(hits) = First(rows)
    BY <2>4, <2>5, <2>8
  <2> QED BY <1>1, <1>5, <2>1, <2>4, <2>9
<1> QED BY <1>4, <1>5

(* benchmark.rs:202-271: a GPU is looked up in the right table, and scores *)
(* by the row that names it.                                               *)
LEMMA LookupByName ==
    ASSUME NEW g, IsGpu(g), g.model \notin Shadowed
    PROVE  Lookup(g.contains) = ScoreByName(g) /\ Lookup(g.contains) \in Int
<1>1. ASSUME NEW d, <<d, "none">> \in OccursIn PROVE FALSE
  <2>1. Occurs(d, "none")
    BY <1>1, OccursPairs
  <2> QED BY <2>1, Zenon DEF Occurs
<1>2. CASE "apple" \in g.contains
  <2>1. TableOf(g) = AppleTable
    BY <1>2 DEF TableOf
  <2>2. /\ g.model \in Entries(AppleTable) \cup {"none"}
        /\ g.contains \cap Entries(AppleTable) =
             {d \in Entries(AppleTable) :
                d = g.model \/ <<d, g.model>> \in OccursIn}
    BY <2>1, Zenon DEF IsGpu
  <2>3. g.model \in Entries(AppleTable)
        \/ \A d : <<d, g.model>> \notin OccursIn
    BY <1>1, <2>2
  <2> DEFINE rows == {i \in 1 .. 15 : AppleTable[i][1] = g.model}
  <2>4. UnknownApple \in Int
    BY DEF UnknownApple
  <2>5. \A i, j \in 1 .. 15 :
           <<AppleTable[i][1], AppleTable[j][1]>> \in OccursIn
           /\ AppleTable[j][1] = g.model => j < i
    BY AppleSpecificFirst
  <2>6. /\ FirstMatch(AppleTable, g.contains, UnknownApple) =
             IF rows # {} THEN AppleTable[First(rows)][2] ELSE UnknownApple
        /\ FirstMatch(AppleTable, g.contains, UnknownApple) \in Int
    <3>1. DOMAIN AppleTable = 1 .. 15
      BY TableShapes
    <3>2. \A i \in 1 .. 15 : AppleTable[i][2] \in Int
      BY TableShapes
    <3>3. \A i \in 1 .. 15 : AppleTable[i][1] \in Entries(AppleTable)
      BY <3>1 DEF Entries
    <3>4. \A i \in 1 .. 15 : AppleTable[i][1] \in g.contains <=>
             i \in rows \/ <<AppleTable[i][1], g.model>> \in OccursIn
      BY <2>2, <3>3
    <3>5. rows # {} \/ \A d : <<d, g.model>> \notin OccursIn
      BY <2>3, <3>1 DEF Entries
    <3>6. \A i \in 1 .. 15, j \in rows :
             <<AppleTable[i][1], g.model>> \in OccursIn => j < i
      BY <2>5
    <3>7. 15 \in Nat /\ rows \in SUBSET (1 .. 15)
          /\ \A i \in 1 .. 15 : i \in rows <=> AppleTable[i][1] = g.model
      OBVIOUS
    <3> HIDE DEF rows
    <3> QED BY <2>4, <3>1, <3>2, <3>4, <3>5, <3>6, <3>7, FirstMatchIsNamed
  <2>7. Lookup(g.contains)
          = FirstMatch(AppleTable, g.contains, UnknownApple)
    BY <1>2 DEF Lookup
  <2>8. ScoreByName(g) =
          IF rows # {} THEN AppleTable[First(rows)][2] ELSE UnknownApple
    BY <1>2, <2>1, TableShapes DEF ScoreByName
  <2> QED BY <2>6, <2>7, <2>8
<1>3. CASE "apple" \notin g.contains
  <2>1. TableOf(g) = Table
    BY <1>3 DEF TableOf
  <2>2. /\ g.model \in Entries(Table) \cup {"none"}
        /\ g.contains \cap Entries(Table) =
             {d \in Entries(Table) :
                d = g.model \/ <<d, g.model>> \in OccursIn}
    BY <2>1, Zenon DEF IsGpu
  <2>3. g.model \in Entries(Table)
        \/ \A d : <<d, g.model>> \notin OccursIn
    BY <1>1, <2>2
  <2> DEFINE rows == {i \in 1 .. 25 : Table[i][1] = g.model}
  <2>4. Unknown \in Int
    BY DEF Unknown
  <2>5. \A i, j \in 1 .. 25 :
           <<Table[i][1], Table[j][1]>> \in OccursIn
           /\ Table[j][1] = g.model => j < i
    BY SpecificFirst
  <2>6. /\ FirstMatch(Table, g.contains, Unknown) =
             IF rows # {} THEN Table[First(rows)][2] ELSE Unknown
        /\ FirstMatch(Table, g.contains, Unknown) \in Int
    <3>1. DOMAIN Table = 1 .. 25
      BY TableShapes
    <3>2. \A i \in 1 .. 25 : Table[i][2] \in Int
      BY TableShapes
    <3>3. \A i \in 1 .. 25 : Table[i][1] \in Entries(Table)
      BY <3>1 DEF Entries
    <3>4. \A i \in 1 .. 25 : Table[i][1] \in g.contains <=>
             i \in rows \/ <<Table[i][1], g.model>> \in OccursIn
      BY <2>2, <3>3
    <3>5. rows # {} \/ \A d : <<d, g.model>> \notin OccursIn
      BY <2>3, <3>1 DEF Entries
    <3>6. \A i \in 1 .. 25, j \in rows :
             <<Table[i][1], g.model>> \in OccursIn => j < i
      BY <2>5
    <3>7. 25 \in Nat /\ rows \in SUBSET (1 .. 25)
          /\ \A i \in 1 .. 25 : i \in rows <=> Table[i][1] = g.model
      OBVIOUS
    <3> HIDE DEF rows
    <3> QED BY <2>4, <3>1, <3>2, <3>4, <3>5, <3>6, <3>7, FirstMatchIsNamed
  <2>7. Lookup(g.contains) = FirstMatch(Table, g.contains, Unknown)
    BY <1>3 DEF Lookup
  <2>8. ScoreByName(g) =
          IF rows # {} THEN Table[First(rows)][2] ELSE Unknown
    BY <1>3, <2>1, TableShapes DEF ScoreByName
  <2> QED BY <2>6, <2>7, <2>8
<1> QED BY <1>2, <1>3

(* benchmark.rs:198-201: the score sent is that of the rows that name the  *)
(* GPUs, although several rows match a name and the first one counts.      *)
THEOREM ScoredByNames == HostSpec => []ScoredByName
<1>1. RegistrationInv => ScoredByName
  <2> SUFFICES ASSUME RegistrationInv,
                      \A g \in registered.gpus : g.model \notin Shadowed
               PROVE  registered.dlperf =
                        SumFunction([g \in registered.gpus |-> ScoreByName(g)])
    BY DEF ScoredByName
  <2>1. CASE registered = Never
    <3>1. registered.gpus = {} /\ registered.dlperf = 0
      BY <2>1 DEF Never
    <3> QED BY <3>1, SumEmpty DEF SumFunction
  <2>2. CASE registered # Never
    <3> DEFINE G == registered.gpus
               D == 1 .. Cardinality(G)
    <3>1. PICK e \in Enumerations(G) : registered.dlperf = Dlperf(e)
      BY <2>2 DEF RegistrationInv
    <3>2. IsFiniteSet(G) /\ \A g \in G : IsGpu(g)
      BY <2>2, InventoryAssumption DEF RegistrationInv
    <3>3. e \in Bijection(D, G) /\ e \in [D -> G] /\ IsFiniteSet(D)
      <4>1. Cardinality(G) \in Int /\ 1 \in Int
        BY <3>2, FS_CardinalityType
      <4>2. IsFiniteSet(D)
        BY <4>1, FS_Interval
      <4> QED BY <4>2 DEF Enumerations, Bijection, Injection
    <3> HIDE DEF G, D
    <3> DEFINE f == [g \in G |-> ScoreByName(g)]
               h == [i \in D |-> Lookup(e[i].contains)]
    <3>4. \A g \in G : Lookup(g.contains) = f[g] /\ f[g] \in Int
      BY <3>2, LookupByName DEF G
    <3>5. DOMAIN f = G /\ DOMAIN h = D
          /\ \A i \in D : e[i] \in G /\ h[i] = Lookup(e[i].contains)
      BY <3>3
    <3>6. Dlperf(e) = SumFunctionOnSet(h, D)
      BY <3>3 DEF Dlperf, SumFunction
    <3>7. SumFunction(f) = SumFunctionOnSet(f, G)
      BY <3>5 DEF SumFunction
    <3> HIDE DEF f, h
    <3>8. \A i \in D : h[i] = f[e[i]]
      BY <3>4, <3>5
    <3>9. SumFunctionOnSet(h, D) = SumFunctionOnSet(f, G)
      BY <3>3, <3>4, <3>8, SumReindexed
    <3> QED BY <3>1, <3>6, <3>7, <3>9 DEF f, G
  <2> QED BY <2>1, <2>2
<1> QED BY <1>1, RegistrationProbed, PTL
=============================================================================
