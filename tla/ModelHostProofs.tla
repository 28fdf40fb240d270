-------------------------- MODULE ModelHostProofs --------------------------
(***************************************************************************)
(* An engine process counts its slots and references exactly, keeps the     *)
(* realtime reservation, never holds more models than allowed and evicts    *)
(* none that is in use, for any number of workers, models, eviction passes  *)
(* and crashes.                                                             *)
(***************************************************************************)
EXTENDS ModelHost, SequenceTheorems, WellFoundedInduction, FiniteSetTheorems, TLAPS

-----------------------------------------------------------------------------
(* Induction over the natural numbers in a form that the provers can use, and *)
(* what Without computes for every sequence.                                  *)

\* A set of natural numbers that is not empty has a least element.
LEMMA LeastNumber ==
    ASSUME NEW N, N \subseteq Nat, N # {}
    PROVE  \E x \in N : \A y \in N : x <= y
<1> DEFINE R == OpToRel(<, Nat)
<1>1. IsWellFoundedOn(R, Nat)
  BY NatLessThanWellFounded
<1>2. PICK x \in N : \A y \in N : ~(<<y, x>> \in R)
  <2> HIDE DEF R
  <2> QED BY <1>1, WFMin
<1>3. \A y \in N : ~(y < x)
  BY <1>2 DEF OpToRel
<1> QED BY <1>3

\* A set that has zero and the successors of its elements has every natural number.
LEMMA Induction ==
    ASSUME NEW N, 0 \in N, \A n \in Nat : n \in N => n + 1 \in N
    PROVE  Nat \subseteq N
<1> SUFFICES ASSUME Nat \ N # {} PROVE FALSE
  OBVIOUS
<1>1. PICK x \in Nat \ N : \A y \in Nat \ N : x <= y
  BY LeastNumber
<1>2. x # 0 /\ x - 1 \in Nat
  OBVIOUS
<1>3. x - 1 \in N
  BY <1>1, <1>2
<1> QED BY <1>2, <1>3

\* What is an element of a sequence.
LEMMA Elements ==
    ASSUME NEW T, NEW s \in Seq(T), NEW y
    PROVE  y \in ToSet(s) <=> \E i \in 1 .. Len(s) : s[i] = y
<1>1. DOMAIN s = 1 .. Len(s)
  OBVIOUS
<1> QED BY <1>1 DEF ToSet

\* Appending adds one element.
LEMMA AppendElements ==
    ASSUME NEW T, NEW s \in Seq(T), NEW x \in T
    PROVE  ToSet(Append(s, x)) = ToSet(s) \cup {x}
<1>1. Append(s, x) \in Seq(T) /\ Len(Append(s, x)) = Len(s) + 1 /\ Len(s) \in Nat
  OBVIOUS
<1>2. \A i \in 1 .. Len(s) : Append(s, x)[i] = s[i]
  OBVIOUS
<1>3. Append(s, x)[Len(s) + 1] = x
  OBVIOUS
<1>4. \A y : y \in ToSet(Append(s, x)) <=> y \in ToSet(s) \/ y = x
  <2> TAKE y
  <2>1. y \in ToSet(Append(s, x)) <=> \E i \in 1 .. Len(s) + 1 : Append(s, x)[i] = y
    BY Elements, <1>1
  <2>2. y \in ToSet(s) <=> \E i \in 1 .. Len(s) : s[i] = y
    BY Elements
  <2> QED BY <2>1, <2>2, <1>1, <1>2, <1>3
<1> QED BY <1>4

\* The equation that the recursion of Without solves, for the first n elements.
Keeps(f, s, S, n) ==
    f = [i \in 0 .. n |-> IF i = 0 THEN <<>> ELSE IF s[i] \in S THEN f[i - 1]
                          ELSE Append(f[i - 1], s[i])]

\* A solution read at one place.
LEMMA KeepsAt ==
    ASSUME NEW f, NEW s, NEW S, NEW n \in Nat, Keeps(f, s, S, n)
    PROVE  /\ f[0] = <<>>
           /\ \A i \in 1 .. n : f[i] = IF s[i] \in S THEN f[i - 1] ELSE Append(f[i - 1], s[i])
<1> DEFINE h == [i \in 0 .. n |-> IF i = 0 THEN <<>> ELSE IF s[i] \in S THEN f[i - 1]
                                  ELSE Append(f[i - 1], s[i])]
<1>1. /\ h[0] = <<>>
      /\ \A i \in 1 .. n : h[i] = IF s[i] \in S THEN f[i - 1] ELSE Append(f[i - 1], s[i])
  OBVIOUS
<1>2. f = h
  BY DEF Keeps
<1> HIDE DEF h
<1> QED BY <1>1, <1>2

\* The recursion has a solution.
LEMMA KeptExists ==
    ASSUME NEW s, NEW S, NEW n \in Nat
    PROVE  \E f : Keeps(f, s, S, n)
<1> DEFINE N == {k \in Nat : \E f : Keeps(f, s, S, k)}
<1>1. 0 \in N
  <2>1. Keeps([i \in 0 .. 0 |-> <<>>], s, S, 0)
    BY DEF Keeps
  <2> QED BY <2>1
<1>2. ASSUME NEW k \in Nat, k \in N PROVE k + 1 \in N
  <2>1. PICK f : Keeps(f, s, S, k)
    BY <1>2
  <2>2. /\ f[0] = <<>>
        /\ \A i \in 1 .. k : f[i] = IF s[i] \in S THEN f[i - 1] ELSE Append(f[i - 1], s[i])
    BY <2>1, KeepsAt
  <2> DEFINE g == [i \in 0 .. k + 1 |-> IF i <= k THEN f[i] ELSE IF s[i] \in S THEN f[i - 1]
                                        ELSE Append(f[i - 1], s[i])]
  <2>3. \A i \in 0 .. k : g[i] = f[i]
    OBVIOUS
  <2>4. \A i \in 0 .. k + 1 : g[i] = IF i = 0 THEN <<>> ELSE IF s[i] \in S THEN g[i - 1]
                                     ELSE Append(g[i - 1], s[i])
    <3> TAKE i \in 0 .. k + 1
    <3>1. CASE i = 0
      BY <3>1, <2>2, <2>3
    <3>2. CASE i \in 1 .. k
      BY <3>2, <2>2, <2>3
    <3>3. CASE i = k + 1
      <4>1. g[i - 1] = f[i - 1]
        BY <3>3, <2>3
      <4> QED BY <3>3, <4>1
    <3> QED BY <3>1, <3>2, <3>3
  <2>5. Keeps(g, s, S, k + 1)
    <3> HIDE DEF g
    <3>1. g = [i \in 0 .. k + 1 |-> g[i]]
      BY DEF g
    <3> QED BY <2>4, <3>1 DEF Keeps
  <2> HIDE DEF g
  <2> QED BY <2>5
<1>3. Nat \subseteq N
  <2> HIDE DEF N
  <2> QED BY <1>1, <1>2, Induction
<1> QED BY <1>3

\* Without follows its recursion.
LEMMA KeptSteps ==
    ASSUME NEW T, NEW s \in Seq(T), NEW S
    PROVE  \E f : /\ Without(s, S) = f[Len(s)] /\ f[0] = <<>>
                  /\ \A i \in 1 .. Len(s) :
                        f[i] = IF s[i] \in S THEN f[i - 1] ELSE Append(f[i - 1], s[i])
<1> DEFINE f == CHOOSE g : Keeps(g, s, S, Len(s))
<1>1. Len(s) \in Nat
  OBVIOUS
<1>2. Keeps(f, s, S, Len(s))
  BY <1>1, KeptExists
<1>3. Without(s, S) = f[Len(s)]
  BY DEF Without, Keeps
<1> HIDE DEF f
<1> QED BY <1>1, <1>2, <1>3, KeepsAt

\* What is left is a sequence of the elements that are not in S, no longer than before.
LEMMA WithoutElements ==
    ASSUME NEW T, NEW s \in Seq(T), NEW S
    PROVE  /\ Without(s, S) \in Seq(T)
           /\ ToSet(Without(s, S)) = ToSet(s) \ S
           /\ Len(Without(s, S)) <= Len(s)
<1>0. PICK f : /\ Without(s, S) = f[Len(s)] /\ f[0] = <<>>
               /\ \A i \in 1 .. Len(s) :
                     f[i] = IF s[i] \in S THEN f[i - 1] ELSE Append(f[i - 1], s[i])
  BY KeptSteps
<1>1. Len(s) \in Nat /\ \A i \in 1 .. Len(s) : s[i] \in T
  OBVIOUS
<1> DEFINE Good(i) == /\ f[i] \in Seq(T) /\ Len(f[i]) <= i
                      /\ \A y : y \in ToSet(f[i]) <=> y \notin S /\ \E k \in 1 .. i : s[k] = y
           N == {i \in Nat : i <= Len(s) => Good(i)}
<1>2. 0 \in N
  <2>1. \A y : y \in ToSet(<<>>) <=> \E i \in 1 .. 0 : <<>>[i] = y
    BY EmptySeq, Elements
  <2>2. \A y : y \notin ToSet(<<>>)
    BY <2>1
  <2>3. Good(0)
    BY <1>0, <2>2
  <2> QED BY <2>3
<1>3. ASSUME NEW i \in Nat, i \in N PROVE i + 1 \in N
  <2> SUFFICES ASSUME i + 1 <= Len(s) PROVE Good(i + 1)
    OBVIOUS
  <2>1. Good(i)
    BY <1>3, <1>1
  <2>2. i + 1 \in 1 .. Len(s) /\ (i + 1) - 1 = i /\ s[i + 1] \in T
    BY <1>1
  <2>3. f[i + 1] = IF s[i + 1] \in S THEN f[i] ELSE Append(f[i], s[i + 1])
    BY <1>0, <2>2
  <2>4. \A y : (\E k \in 1 .. i + 1 : s[k] = y) <=> (\E k \in 1 .. i : s[k] = y) \/ y = s[i + 1]
    BY <2>2
  <2>5. CASE s[i + 1] \in S
    BY <2>1, <2>3, <2>4, <2>5
  <2>6. CASE s[i + 1] \notin S
    <3>1. f[i + 1] = Append(f[i], s[i + 1])
      BY <2>3, <2>6
    <3>2. f[i + 1] \in Seq(T) /\ Len(f[i + 1]) = Len(f[i]) + 1 /\ Len(f[i]) \in Nat
      BY <3>1, <2>1, <2>2
    <3>3. ToSet(f[i + 1]) = ToSet(f[i]) \cup {s[i + 1]}
      BY <3>1, <2>1, <2>2, AppendElements
    <3>4. Len(f[i + 1]) <= i + 1
      BY <3>2, <2>1
    <3> QED BY <3>2, <3>3, <3>4, <2>1, <2>4, <2>6
  <2> QED BY <2>5, <2>6
<1>4. Nat \subseteq N
  <2> HIDE DEF N
  <2> QED BY <1>2, <1>3, Induction
<1>5. Good(Len(s))
  <2> HIDE DEF Good
  <2> QED BY <1>1, <1>4
<1>6. \A y : y \in ToSet(s) <=> \E i \in 1 .. Len(s) : s[i] = y
  BY Elements
<1> QED BY <1>0, <1>5, <1>6

\* What is left keeps its order: it is read from s at growing places, and from fewer of
\* them when something was taken out.
THEOREM WithoutOrder ==
    ASSUME NEW T, NEW s \in Seq(T), NEW S
    PROVE  /\ \E e \in [1 .. Len(Without(s, S)) -> 1 .. Len(s)] :
                /\ \A j \in 1 .. Len(Without(s, S)) : Without(s, S)[j] = s[e[j]]
                /\ \A j, k \in 1 .. Len(Without(s, S)) : j < k => e[j] < e[k]
           /\ Len(Without(s, S)) <= Len(s)
           /\ (\E i \in 1 .. Len(s) : s[i] \in S) => Len(Without(s, S)) < Len(s)
<1>0. PICK f : /\ Without(s, S) = f[Len(s)] /\ f[0] = <<>>
               /\ \A i \in 1 .. Len(s) :
                     f[i] = IF s[i] \in S THEN f[i - 1] ELSE Append(f[i - 1], s[i])
  BY KeptSteps
<1>1. Len(s) \in Nat /\ \A i \in 1 .. Len(s) : s[i] \in T
  OBVIOUS
<1> DEFINE Places(i, e) == /\ e \in [1 .. Len(f[i]) -> 1 .. i]
                           /\ \A j \in 1 .. Len(f[i]) : f[i][j] = s[e[j]]
                           /\ \A j, k \in 1 .. Len(f[i]) : j < k => e[j] < e[k]
           Good(i) == /\ f[i] \in Seq(T) /\ Len(f[i]) <= i
                      /\ (\E k \in 1 .. i : s[k] \in S) => Len(f[i]) < i
                      /\ \E e : Places(i, e)
           N == {i \in Nat : i <= Len(s) => Good(i)}
<1>2. 0 \in N
  <2>1. f[0] \in Seq(T) /\ Len(f[0]) = 0
    BY <1>0
  <2>2. Places(0, [j \in 1 .. 0 |-> 1])
    BY <2>1
  <2> HIDE DEF Places
  <2>3. Good(0)
    BY <2>1, <2>2
  <2> HIDE DEF Good
  <2> QED BY <2>3
<1>3. ASSUME NEW i \in Nat, i \in N PROVE i + 1 \in N
  <2> SUFFICES ASSUME i + 1 <= Len(s) PROVE Good(i + 1)
    OBVIOUS
  <2>1. Good(i)
    <3> HIDE DEF Good
    <3> QED BY <1>3, <1>1
  <2>2. i + 1 \in 1 .. Len(s) /\ (i + 1) - 1 = i /\ s[i + 1] \in T
    BY <1>1
  <2>3. f[i + 1] = IF s[i + 1] \in S THEN f[i] ELSE Append(f[i], s[i + 1])
    BY <1>0, <2>2
  <2>4. PICK e : Places(i, e)
    BY <2>1
  <2>5. CASE s[i + 1] \in S
    <3>1. f[i + 1] = f[i]
      BY <2>3, <2>5
    <3>2. Places(i + 1, e)
      BY <3>1, <2>4
    <3>3. f[i + 1] \in Seq(T) /\ Len(f[i + 1]) < i + 1
      BY <3>1, <2>1
    <3> HIDE DEF Places
    <3> QED BY <3>2, <3>3
  <2>6. CASE s[i + 1] \notin S
    <3>1. f[i + 1] = Append(f[i], s[i + 1])
      BY <2>3, <2>6
    <3>2. f[i + 1] \in Seq(T) /\ Len(f[i + 1]) = Len(f[i]) + 1 /\ Len(f[i]) \in Nat
      BY <3>1, <2>1, <2>2
    <3>3. /\ f[i + 1][Len(f[i]) + 1] = s[i + 1]
          /\ \A j \in 1 .. Len(f[i]) : f[i + 1][j] = f[i][j]
      BY <3>1, <2>1, <2>2
    <3> DEFINE d == [j \in 1 .. Len(f[i]) + 1 |-> IF j = Len(f[i]) + 1 THEN i + 1 ELSE e[j]]
    <3>4. d \in [1 .. Len(f[i + 1]) -> 1 .. i + 1]
      BY <3>2, <2>4
    <3>a. /\ d[Len(f[i]) + 1] = i + 1
          /\ \A j \in 1 .. Len(f[i]) : d[j] = e[j] /\ e[j] \in 1 .. i
      BY <3>2, <2>4
    <3>b. \A j \in 1 .. Len(f[i + 1]) : j \in 1 .. Len(f[i]) \/ j = Len(f[i]) + 1
      BY <3>2
    <3>5. \A j \in 1 .. Len(f[i + 1]) : f[i + 1][j] = s[d[j]]
      <4> HIDE DEF d
      <4> QED BY <3>a, <3>b, <3>3, <2>4
    <3>6. \A j, k \in 1 .. Len(f[i + 1]) : j < k => d[j] < d[k]
      <4> HIDE DEF d
      <4> TAKE j, k \in 1 .. Len(f[i + 1])
      <4> HAVE j < k
      <4>1. j \in 1 .. Len(f[i])
        BY <3>2
      <4>2. d[j] = e[j] /\ e[j] < i + 1
        BY <3>a, <4>1, <2>2
      <4>3. CASE k \in 1 .. Len(f[i])
        BY <3>a, <4>1, <4>2, <4>3, <2>4
      <4>4. CASE k = Len(f[i]) + 1
        BY <3>a, <4>2, <4>4
      <4> QED BY <3>b, <4>3, <4>4
    <3>7. Places(i + 1, d)
      BY <3>4, <3>5, <3>6
    <3>8. (\E k \in 1 .. i + 1 : s[k] \in S) => Len(f[i + 1]) < i + 1
      BY <3>2, <2>1, <2>6
    <3> HIDE DEF Places, d
    <3> QED BY <3>2, <3>7, <3>8, <2>1
  <2> QED BY <2>5, <2>6
<1>4. Nat \subseteq N
  <2> HIDE DEF N
  <2> QED BY <1>2, <1>3, Induction
<1>5. Good(Len(s))
  <2> HIDE DEF Good
  <2> QED BY <1>1, <1>4
<1> QED BY <1>0, <1>5

\* A sequence without repetitions stays one.
LEMMA WithoutDistinct ==
    ASSUME NEW T, NEW s \in Seq(T), NEW S,
           \A i, j \in 1 .. Len(s) : s[i] = s[j] => i = j
    PROVE  \A i, j \in 1 .. Len(Without(s, S)) : Without(s, S)[i] = Without(s, S)[j] => i = j
<1>1. PICK e \in [1 .. Len(Without(s, S)) -> 1 .. Len(s)] :
           /\ \A j \in 1 .. Len(Without(s, S)) : Without(s, S)[j] = s[e[j]]
           /\ \A j, k \in 1 .. Len(Without(s, S)) : j < k => e[j] < e[k]
  BY WithoutOrder
<1>2. Len(Without(s, S)) \in Nat /\ Len(s) \in Nat
  BY WithoutElements
<1> QED BY <1>1, <1>2

-----------------------------------------------------------------------------
(* The host *)

USE HostAssumption

Distinct(s) == \A i, j \in 1 .. Len(s) : s[i] = s[j] => i = j

\* Moving a model to the end of a sequence keeps the other elements.
LEMMA Touch ==
    ASSUME NEW s \in Seq(Models), NEW m \in Models
    PROVE  LET t == Append(Without(s, {m}), m)
           IN  /\ t \in Seq(Models) /\ ToSet(t) = ToSet(s) \cup {m}
               /\ m \in ToSet(s) => Len(t) <= Len(s)
               /\ Distinct(s) => Distinct(t)
<1> DEFINE r == Without(s, {m})
<1>1. r \in Seq(Models) /\ ToSet(r) = ToSet(s) \ {m}
  BY WithoutElements
<1>2. Append(r, m) \in Seq(Models) /\ ToSet(Append(r, m)) = ToSet(s) \cup {m}
  <2> HIDE DEF r
  <2> QED BY <1>1, AppendElements
<1>3. Len(Append(r, m)) = Len(r) + 1 /\ Len(r) \in Nat /\ Len(s) \in Nat
  <2> HIDE DEF r
  <2> QED BY <1>1
<1>4. ASSUME m \in ToSet(s) PROVE Len(Append(r, m)) <= Len(s)
  <2>1. \E i \in 1 .. Len(s) : s[i] \in {m}
    BY <1>4, Elements
  <2>2. Len(r) < Len(s)
    BY <2>1, WithoutOrder
  <2> HIDE DEF r
  <2> QED BY <1>3, <2>2
<1>5. ASSUME Distinct(s) PROVE Distinct(Append(r, m))
  <2>1. Distinct(r)
    BY <1>5, WithoutDistinct DEF Distinct
  <2>2. \A i \in 1 .. Len(r) : r[i] # m
    <3>1. \A i \in 1 .. Len(r) : r[i] \in ToSet(r)
      <4> HIDE DEF r
      <4> QED BY <1>1, Elements
    <3> HIDE DEF r
    <3> QED BY <1>1, <3>1
  <2> HIDE DEF r
  <2>3. /\ \A i \in 1 .. Len(r) : Append(r, m)[i] = r[i]
        /\ Append(r, m)[Len(r) + 1] = m
    BY <1>1
  <2>4. \A i \in 1 .. Len(Append(r, m)) : i \in 1 .. Len(r) \/ i = Len(r) + 1
    BY <1>3
  <2> QED BY <2>1, <2>2, <2>3, <2>4 DEF Distinct
<1> QED BY <1>2, <1>4, <1>5

\* The process starts empty.
LEMMA HostInit == Init => HostInv
<1> SUFFICES ASSUME Init PROVE HostInv
  OBVIOUS
<1>0. ToSet(<<>>) = {} /\ <<>> \in Seq(Models)
  BY DEF ToSet
<1>1. TypeOK
  <2>1. AdmissionOK /\ ManagerOK /\ WorkersOK
    BY <1>0 DEF Init, AdmissionOK, ManagerOK, WorkersOK
  <2>2. StorageOK
    BY <1>0 DEF Init, StorageOK
  <2>3. PassesOK
    BY <1>0 DEF Init, PassesOK, Resting, PassSteps
  <2>4. stopped \in BOOLEAN
    BY DEF Init
  <2>5. crashes = 0
    BY DEF Init
  <2> QED BY <2>1, <2>2, <2>3, <2>4, <2>5 DEF TypeOK
<1>d. LoaderAlone
  BY DEF Init, LoaderAlone
<1>2. /\ {w \in Batch : pc[w] # "out"} = {} /\ {w \in Realtime : pc[w] # "out"} = {}
      /\ \A m \in Models : Users(m) = {}
  BY DEF Init, Workers, Users
<1>3. SlotsCounted /\ UsedStaysLoaded
  <2>1. Cardinality({}) = 0
    BY FS_EmptySet
  <2>2. SlotsCounted
    BY <1>2, <2>1 DEF Init, SlotsCounted
  <2>3. RefsExact
    <3>1. \A m \in Models : refs[m] = 0
      BY DEF Init
    <3> QED BY <3>1, <1>2, <2>1 DEF RefsExact
  <2> QED BY <2>2, <2>3 DEF UsedStaysLoaded
<1>4. RtReserved /\ Capacity /\ TornTraced /\ RemovesEntry
  BY DEF Init, RtReserved, Capacity, TornTraced, RemovesEntry, Resting
<1> QED BY <1>1, <1>d, <1>3, <1>4 DEF HostInv

\* The admission controller's numbers keep their types.
LEMMA AdmissionStep == ASSUME AdmissionOK, Next PROVE AdmissionOK'
<1> USE DEF AdmissionOK, admission
<1>1. ASSUME NEW w \in Workers, Admit(w) PROVE AdmissionOK'
  BY <1>1 DEF Admit
<1>2. ASSUME NEW w \in Workers, Leave(w) PROVE AdmissionOK'
  <2>1. active.batch \in Nat /\ active.rt \in Nat
    OBVIOUS
  <2>2. CASE w \in Batch
    BY <1>2, <2>1, <2>2 DEF Leave
  <2>3. CASE w \notin Batch
    BY <1>2, <2>1, <2>3 DEF Leave
  <2> QED BY <2>2, <2>3
<1>3. ASSUME NEW w \in Workers, Serve(w), ~Leave(w) PROVE AdmissionOK'
  BY <1>3 DEF Serve, Acquire, MakeRoom, NoRoom, FetchCached, Download, DownloadFails, Load, LoadFails, Release
<1>4. ASSUME NEW p \in Passes, Wake(p) \/ Evict(p) PROVE AdmissionOK'
  BY <1>4 DEF Wake, Evict, ScanEntries, Check, Choose, RemoveEntry, EntryRemoved, EndPass, Host
<1>5. CASE Age \/ EvictExpired \/ Reconfigure \/ Shutdown \/ Crash
  BY <1>5 DEF Age, EvictExpired, Reconfigure, Shutdown, Crash
<1> QED BY <1>1, <1>2, <1>3, <1>4, <1>5 DEF Next

\* The manager's bookkeeping keeps its types.
LEMMA ManagerStep == ASSUME ManagerOK, WorkersOK, LoaderAlone, Next PROVE ManagerOK'
<1> USE DEF ManagerOK, manager
<1>0. ToSet(<<>>) = {} /\ <<>> \in Seq(Models)
  BY DEF ToSet
<1>1. ASSUME NEW w \in Workers, pc[w] # "out" PROVE want[w] \in Models
  BY <1>1 DEF LoaderAlone
<1>2. ASSUME NEW w \in Workers, Admit(w) \/ Leave(w) PROVE ManagerOK'
  BY <1>2 DEF Admit, Leave
<1>3. ASSUME NEW w \in Workers, Acquire(w) PROVE ManagerOK'
  <2>1. want[w] \in Models
    BY <1>3, <1>1 DEF Acquire
  <2>2. loaded' \in Seq(Models) /\ ToSet(loaded') = ToSet(loaded) \cup {want[w]}
    BY <1>3, <2>1, Touch DEF Acquire
  <2>3. refs' \in [Models -> Nat] /\ cold' \subseteq cold /\ lock' = lock
    BY <1>3, <2>1 DEF Acquire
  <2> QED BY <2>2, <2>3
<1>4. ASSUME NEW w \in Workers, MakeRoom(w) PROVE ManagerOK'
  <2>1. PICK gone : loaded' = Without(loaded, gone) /\ cold' = cold \ gone
    BY <1>4 DEF MakeRoom
  <2>2. loaded' \in Seq(Models) /\ ToSet(loaded') = ToSet(loaded) \ gone
    BY <2>1, WithoutElements
  <2> QED BY <1>4, <2>1, <2>2 DEF MakeRoom
<1>5. ASSUME NEW w \in Workers,
             NoRoom(w) \/ FetchCached(w) \/ Download(w) \/ DownloadFails(w) \/ LoadFails(w)
      PROVE  ManagerOK'
  BY <1>5 DEF NoRoom, FetchCached, Download, DownloadFails, LoadFails, Fail
<1>6. ASSUME NEW w \in Workers, Load(w) PROVE ManagerOK'
  <2>1. want[w] \in Models
    BY <1>6, <1>1 DEF Load
  <2>2. loaded' \in Seq(Models) /\ ToSet(loaded') = ToSet(loaded) \cup {want[w]}
    BY <1>6, <2>1, AppendElements DEF Load
  <2> QED BY <1>6, <2>1, <2>2 DEF Load
<1>7. ASSUME NEW w \in Workers, Release(w) PROVE ManagerOK'
  <2>1. want[w] \in Models
    BY <1>7, <1>1 DEF Release
  <2>2. refs' \in [Models -> Nat]
    BY <1>7, <2>1 DEF Release
  <2> QED BY <1>7, <2>2 DEF Release
<1>8. CASE Age
  <2>1. cold' \subseteq ToSet(loaded)
    BY <1>8 DEF Age, ToSet
  <2> QED BY <1>8, <2>1 DEF Age
<1>9. CASE EvictExpired
  <2>1. loaded' \in Seq(Models) /\ ToSet(loaded') = ToSet(loaded) \ (cold \cap Idle)
    BY <1>9, WithoutElements DEF EvictExpired
  <2> QED BY <1>9, <2>1 DEF EvictExpired
<1>10. CASE Reconfigure
  BY <1>10 DEF Reconfigure
<1>11. CASE Shutdown \/ Crash
  <2>1. /\ loaded' = <<>> /\ cold' = {} /\ refs' = [m \in Models |-> 0]
        /\ lock' \in {lock, Nobody}
    BY <1>11 DEF Shutdown, Crash
  <2> QED BY <1>0, <2>1
<1>12. ASSUME NEW p \in Passes, Wake(p) \/ Evict(p) PROVE ManagerOK'
  BY <1>12 DEF Wake, Evict, ScanEntries, Check, Choose, RemoveEntry, EntryRemoved, EndPass, Host
<1> QED BY <1>2, <1>3, <1>4, <1>5, <1>6, <1>7, <1>8, <1>9, <1>10, <1>11, <1>12 DEF Next, Serve

\* The workers' steps keep their types.
LEMMA WorkersStep == ASSUME WorkersOK, Next PROVE WorkersOK'
<1> USE DEF WorkersOK
<1>1. ASSUME NEW w \in Workers, Admit(w) PROVE WorkersOK'
  <2>1. PICK m \in Models : want' = [want EXCEPT ![w] = m]
    BY <1>1 DEF Admit
  <2> QED BY <1>1, <2>1 DEF Admit
<1>2. ASSUME NEW w \in Workers, Serve(w) PROVE WorkersOK'
  BY <1>2 DEF Serve, Acquire, MakeRoom, NoRoom, FetchCached, Download, DownloadFails, Load, LoadFails,
             Release, Leave, Fail
<1>3. ASSUME NEW p \in Passes, Wake(p) \/ Evict(p) PROVE WorkersOK'
  BY <1>3 DEF Wake, Evict, ScanEntries, Check, Choose, RemoveEntry, EntryRemoved, EndPass, Host
<1>4. CASE Age \/ EvictExpired \/ Reconfigure \/ Shutdown \/ Crash
  BY <1>4 DEF Age, EvictExpired, Reconfigure, Shutdown, Crash
<1> QED BY <1>1, <1>2, <1>3, <1>4 DEF Next

\* The disk cache's order goes on listing what is there.
LEMMA StorageStep == ASSUME StorageOK, PassesOK, LoaderAlone, RemovesEntry, Next PROVE StorageOK'
<1> USE DEF StorageOK, storage
<1>1. ASSUME NEW w \in Workers, pc[w] # "out" PROVE want[w] \in Models
  BY <1>1 DEF LoaderAlone
<1>2. ASSUME NEW w \in Workers, FetchCached(w) PROVE StorageOK'
  <2>1. want[w] \in Models
    BY <1>1, <1>2 DEF FetchCached
  <2>2. order' \in Seq(Models) /\ ToSet(order') = ToSet(order) \cup {want[w]}
    BY <1>2, <2>1, Touch DEF FetchCached
  <2> QED BY <1>2, <2>1, <2>2 DEF FetchCached
<1>3. ASSUME NEW w \in Workers, Download(w) PROVE StorageOK'
  <2>1. want[w] \in Models
    BY <1>1, <1>3 DEF Download
  <2>2. order' \in Seq(Models) /\ ToSet(order') = ToSet(order) \cup {want[w]}
    BY <1>3, <2>1, Touch DEF Download, Downloaded
  <2>3. disk' = [disk EXCEPT ![want[w]] = "whole"]
    BY <1>3 DEF Download, Downloaded
  <2> QED BY <2>1, <2>2, <2>3
<1>4. ASSUME NEW w \in Workers, Admit(w) \/ Serve(w), ~FetchCached(w), ~Download(w) PROVE StorageOK'
  BY <1>4 DEF Admit, Serve, Acquire, MakeRoom, NoRoom, DownloadFails, Load, LoadFails, Release, Leave
<1>5. CASE Age \/ EvictExpired \/ Reconfigure \/ Shutdown \/ Crash
  BY <1>5 DEF Age, EvictExpired, Reconfigure, Shutdown, Crash
<1>6. ASSUME NEW p \in Passes, Wake(p) \/ ScanEntries(p) \/ Check(p) \/ Choose(p) \/ EndPass(p)
      PROVE  StorageOK'
  BY <1>6 DEF Wake, ScanEntries, Check, Choose, EndPass
<1>7. ASSUME NEW m \in Models, disk' = [disk EXCEPT ![m] = "absent"], order' = Without(order, {m})
      PROVE  StorageOK'
  <2>1. order' \in Seq(Models) /\ ToSet(order') = ToSet(order) \ {m}
    BY <1>7, WithoutElements
  <2> QED BY <1>7, <2>1
<1>8. ASSUME NEW p \in Passes, pass[p].list # <<>> PROVE Head(pass[p].list) \in Models
  <2>1. pass[p].list \in Seq(Models)
    BY DEF PassesOK
  <2> QED BY <1>8, <2>1
<1>9. ASSUME NEW p \in Passes, RemoveEntry(p) PROVE StorageOK'
  <2>1. Head(pass[p].list) \in Models
    BY <1>8, <1>9 DEF RemoveEntry
  <2>2. CASE disk' = [disk EXCEPT ![Head(pass[p].list)] = "absent"] /\ order' = Without(order, {Head(pass[p].list)})
    BY <1>7, <2>1, <2>2
  <2>3. CASE /\ disk[Head(pass[p].list)] # "absent"
             /\ disk' = [disk EXCEPT ![Head(pass[p].list)] = "torn"] /\ order' = order
    BY <2>1, <2>3
  <2> QED BY <1>9, <2>2, <2>3 DEF RemoveEntry
<1>10. ASSUME NEW p \in Passes, EntryRemoved(p) PROVE StorageOK'
  <2>1. CASE UNCHANGED storage
    BY <2>1
  <2>2. CASE /\ disk[Head(pass[p].list)] = "torn"
             /\ disk' = [disk EXCEPT ![Head(pass[p].list)] = "absent"] /\ order' = Without(order, {Head(pass[p].list)})
    <3>1. Head(pass[p].list) \in Models
      BY <1>8, <1>10 DEF EntryRemoved, RemovesEntry
    <3> QED BY <1>7, <2>2, <3>1
  <2> QED BY <1>10, <2>1, <2>2 DEF EntryRemoved
<1> QED BY <1>2, <1>3, <1>4, <1>5, <1>6, <1>9, <1>10 DEF Next, Evict

\* Eviction passes keep their types.
LEMMA PassesStep == ASSUME PassesOK, StorageOK, RemovesEntry, Next PROVE PassesOK'
<1> USE DEF PassesOK
<1>0. Resting \in [at : PassSteps, list : Seq(Models), ok : Seq(Models), n : Nat]
  <2>1. <<>> \in Seq(Models)
    OBVIOUS
  <2> QED BY <2>1 DEF Resting, PassSteps
<1>1. ASSUME NEW w \in Workers, Download(w) PROVE PassesOK'
  <2>1. CASE UNCHANGED pass
    BY <2>1
  <2>2. CASE \E p \in Passes : pass' = [pass EXCEPT ![p].at = "scan"]
    BY ZenonT(30), <2>2 DEF PassSteps
  <2> QED BY <1>1, <2>1, <2>2 DEF Download
<1>2. ASSUME NEW w \in Workers, Admit(w) \/ Serve(w), ~Download(w) PROVE PassesOK'
  BY <1>2 DEF Admit, Serve, Acquire, MakeRoom, NoRoom, FetchCached, DownloadFails, Load, LoadFails, Release, Leave
<1>3. CASE Age \/ EvictExpired \/ Reconfigure \/ Shutdown
  BY <1>3 DEF Age, EvictExpired, Reconfigure, Shutdown
<1>4. CASE Crash
  <2>1. pass' = [p \in Passes |-> Resting]
    BY <1>4 DEF Crash
  <2> QED BY <1>0, <2>1
<1>5. ASSUME NEW p \in Passes, Wake(p) PROVE PassesOK'
  <2>1. pass' = [pass EXCEPT ![p] = [Resting EXCEPT !.at = "scan"]]
    BY <1>5 DEF Wake, Step
  <2> QED BY <1>0, <2>1 DEF PassSteps
<1>6. ASSUME NEW p \in Passes, ScanEntries(p) PROVE PassesOK'
  <2>1. pass' = [pass EXCEPT ![p] = [at |-> "check", list |-> order, ok |-> <<>>, n |-> Len(order)]]
    BY <1>6 DEF ScanEntries, Step
  <2>2. order \in Seq(Models) /\ Len(order) \in Nat /\ <<>> \in Seq(Models)
    BY DEF StorageOK
  <2> QED BY <2>1, <2>2 DEF PassSteps
<1>7. ASSUME NEW p \in Passes PROVE pass[p].list \in Seq(Models) /\ pass[p].ok \in Seq(Models)
  OBVIOUS
<1>8. ASSUME NEW p \in Passes, Check(p) PROVE PassesOK'
  <2> DEFINE m == Head(pass[p].list)
             ok == IF m \in ToSet(loaded) THEN pass[p].ok ELSE Append(pass[p].ok, m)
  <2>1. pass' = [pass EXCEPT ![p] = [pass[p] EXCEPT !.list = Tail(@), !.ok = ok]]
    BY <1>8 DEF Check, Step
  <2>2. Tail(pass[p].list) \in Seq(Models) /\ m \in Models
    BY <1>7, <1>8 DEF Check
  <2>3. ok \in Seq(Models)
    BY <1>7, <2>2
  <2> HIDE DEF ok
  <2> QED BY <2>1, <2>2, <2>3
<1>9. ASSUME NEW p \in Passes, Choose(p) PROVE PassesOK'
  <2>1. PICK k \in 0 .. Len(pass[p].ok) :
             pass' = [pass EXCEPT ![p] = [pass[p] EXCEPT !.at = "remove", !.list = SubSeq(pass[p].ok, 1, k)]]
    BY <1>9 DEF Choose, Step
  <2>2. SubSeq(pass[p].ok, 1, k) \in Seq(Models)
    BY <1>7, SubSeqProperties
  <2> QED BY <2>1, <2>2 DEF PassSteps
<1>10. ASSUME NEW p \in Passes, RemoveEntry(p) PROVE PassesOK'
  <2>1. Tail(pass[p].list) \in Seq(Models)
    BY <1>7, <1>10 DEF RemoveEntry
  <2>2. \/ pass' = [pass EXCEPT ![p] = [pass[p] EXCEPT !.at = "removing"]]
        \/ pass' = [pass EXCEPT ![p] = [pass[p] EXCEPT !.list = Tail(@)]]
    BY <1>10 DEF RemoveEntry, Step
  <2> QED BY ZenonT(30), <2>1, <2>2 DEF PassSteps
<1>11. ASSUME NEW p \in Passes, EndPass(p) PROVE PassesOK'
  <2>1. pass' = [pass EXCEPT ![p] = Resting]
    BY <1>11 DEF EndPass, Step
  <2> QED BY <1>0, <2>1
<1>12. ASSUME NEW p \in Passes, EntryRemoved(p) PROVE PassesOK'
  <2>1. Tail(pass[p].list) \in Seq(Models)
    BY <1>7, <1>12 DEF EntryRemoved, RemovesEntry
  <2>2. pass' = [pass EXCEPT ![p] = [pass[p] EXCEPT !.at = "remove", !.list = Tail(@)]]
    BY <1>12 DEF EntryRemoved, Step
  <2> QED BY <2>1, <2>2 DEF PassSteps
<1> QED BY <1>1, <1>2, <1>3, <1>4, <1>5, <1>6, <1>8, <1>9, <1>10, <1>11, <1>12 DEF Next, Evict

\* Types are kept by every step.
LEMMA TypeStep == ASSUME HostInv, Next PROVE TypeOK'
<1>1. TypeOK /\ LoaderAlone /\ RemovesEntry
  BY DEF HostInv
<1>2. AdmissionOK' /\ ManagerOK' /\ WorkersOK' /\ StorageOK' /\ PassesOK'
  BY <1>1, AdmissionStep, ManagerStep, WorkersStep, StorageStep, PassesStep DEF TypeOK
<1>3. stopped' \in BOOLEAN
  BY <1>1 DEF TypeOK, Next, Admit, Serve, Acquire, MakeRoom, NoRoom, FetchCached, Download, DownloadFails,
             Load, LoadFails, Release, Leave, Wake, Evict, ScanEntries, Check, Choose, RemoveEntry,
             EntryRemoved, EndPass, Host, Age, EvictExpired, Reconfigure, Shutdown, Crash
<1>4. crashes' \in 0 .. MaxCrashes
  <2>1. CASE Crash
    BY <1>1, <2>1 DEF TypeOK, Crash
  <2>2. CASE ~Crash
    <3>1. crashes' = crashes
      BY <2>2 DEF Next, Admit, Serve, Acquire, MakeRoom, NoRoom, FetchCached, Download, DownloadFails,
                  Load, LoadFails, Release, Leave, Wake, Evict, ScanEntries, Check, Choose, RemoveEntry,
                  EntryRemoved, EndPass, Host, Age, EvictExpired, Reconfigure, Shutdown
    <3> QED BY <1>1, <3>1 DEF TypeOK
  <2> QED BY <2>1, <2>2
<1> QED BY <1>2, <1>3, <1>4 DEF TypeOK

\* A deletion that has begun is the first entry of its pass, whatever the others do.
LEMMA TornStep == ASSUME HostInv, Next PROVE RemovesEntry' /\ TornTraced'
<1>0. PassesOK /\ StorageOK /\ RemovesEntry /\ TornTraced /\ crashes \in Nat
  BY DEF HostInv, TypeOK
<1>1. ASSUME UNCHANGED <<disk, pass, crashes>> PROVE RemovesEntry' /\ TornTraced'
  BY <1>0, <1>1 DEF RemovesEntry, TornTraced
<1>2. ASSUME NEW w \in Workers, Admit(w) \/ Serve(w), ~Download(w) PROVE RemovesEntry' /\ TornTraced'
  BY <1>1, <1>2 DEF Admit, Serve, Acquire, MakeRoom, NoRoom, FetchCached, DownloadFails, Load, LoadFails,
                   Release, Leave, storage
<1>3. CASE Age \/ EvictExpired \/ Reconfigure \/ Shutdown
  BY <1>1, <1>3 DEF Age, EvictExpired, Reconfigure, Shutdown, storage
<1>4. CASE Crash
  <2>1. crashes' = crashes + 1 /\ pass' = [p \in Passes |-> Resting]
    BY <1>4 DEF Crash
  <2> QED BY <1>0, <2>1 DEF RemovesEntry, TornTraced, Resting
<1>5. ASSUME NEW w \in Workers, Download(w) PROVE RemovesEntry' /\ TornTraced'
  <2>1. disk' = [disk EXCEPT ![want[w]] = "whole"] /\ crashes' = crashes
    BY <1>5 DEF Download, Downloaded
  <2>2. \/ UNCHANGED pass
        \/ \E p \in Passes : pass[p].at = "idle" /\ pass' = [pass EXCEPT ![p].at = "scan"]
    BY <1>5 DEF Download
  <2>3. \A p \in Passes : /\ pass[p].at = "removing" => pass'[p] = pass[p]
                          /\ pass'[p].at = "removing" => pass'[p] = pass[p]
    BY <1>0, <2>2 DEF PassesOK
  <2> QED BY <1>0, <2>1, <2>3 DEF StorageOK, RemovesEntry, TornTraced
<1>6. ASSUME NEW p \in Passes,
             Wake(p) \/ ScanEntries(p) \/ Check(p) \/ Choose(p) \/ EndPass(p) \/ RemoveEntry(p) \/ EntryRemoved(p)
      PROVE  RemovesEntry' /\ TornTraced'
  <2>1. /\ crashes' = crashes /\ \A q \in Passes \ {p} : pass'[q] = pass[q]
    BY <1>0, <1>6 DEF PassesOK, Wake, ScanEntries, Check, Choose, EndPass, RemoveEntry, EntryRemoved, Step, Host
  <2>2. CASE Wake(p) \/ ScanEntries(p) \/ Check(p) \/ Choose(p) \/ EndPass(p)
    <3>1. disk' = disk /\ pass[p].at # "removing"
      BY <2>2 DEF Wake, ScanEntries, Check, Choose, EndPass, storage
    <3>2. pass'[p].at # "removing"
      <4>1. CASE Wake(p)
        BY <1>0, <4>1 DEF PassesOK, Wake, Step, Resting
      <4>2. CASE ScanEntries(p)
        BY <1>0, <4>2 DEF PassesOK, ScanEntries, Step
      <4>3. CASE Check(p)
        BY <1>0, <4>3 DEF PassesOK, Check, Step
      <4>4. CASE Choose(p)
        BY <1>0, <4>4 DEF PassesOK, Choose, Step
      <4>5. CASE EndPass(p)
        BY <1>0, <4>5 DEF PassesOK, EndPass, Step, Resting
      <4> QED BY <2>2, <4>1, <4>2, <4>3, <4>4, <4>5
    <3> QED BY <1>0, <2>1, <3>1, <3>2 DEF RemovesEntry, TornTraced
  <2>3. CASE RemoveEntry(p)
    <3>1. pass[p].at = "remove" /\ pass[p].list # <<>>
      BY <2>3 DEF RemoveEntry
    <3>2. CASE disk' = [disk EXCEPT ![Head(pass[p].list)] = "torn"] /\ pass' = [pass EXCEPT ![p] = [pass[p] EXCEPT !.at = "removing"]]
      <4>1. pass'[p].at = "removing" /\ pass'[p].list = pass[p].list
        BY <1>0, <3>2 DEF PassesOK
      <4> QED BY <1>0, <2>1, <3>1, <3>2, <4>1 DEF StorageOK, RemovesEntry, TornTraced
    <3>3. CASE disk' = [disk EXCEPT ![Head(pass[p].list)] = "absent"] /\ pass' = [pass EXCEPT ![p] = [pass[p] EXCEPT !.list = Tail(@)]]
      <4>1. pass'[p].at = "remove"
        BY <1>0, <3>1, <3>3 DEF PassesOK
      <4> QED BY <1>0, <2>1, <3>1, <3>3, <4>1 DEF StorageOK, RemovesEntry, TornTraced
    <3> QED BY <2>3, <3>2, <3>3 DEF RemoveEntry, Step
  <2>4. CASE EntryRemoved(p)
    <3>1. pass[p].at = "removing" /\ pass'[p].at = "remove"
      BY <1>0, <2>4 DEF EntryRemoved, Step, PassesOK
    <3>2. \A m \in Models : disk'[m] = "torn" => disk[m] = "torn" /\ m # Head(pass[p].list)
      BY <1>0, <2>4 DEF EntryRemoved, StorageOK, storage
    <3> QED BY <1>0, <2>1, <3>1, <3>2 DEF RemovesEntry, TornTraced
  <2> QED BY <1>6, <2>2, <2>3, <2>4
<1> QED BY <1>2, <1>3, <1>4, <1>5, <1>6 DEF Next, Evict

\* One model is loaded at a time, and the room made for it stays.
LEMMA LoaderStep == ASSUME HostInv, Next PROVE LoaderAlone'
<1>0. ManagerOK /\ WorkersOK /\ LoaderAlone /\ Capacity
  BY DEF HostInv, TypeOK
<1>1. ASSUME UNCHANGED <<pc, want, lock>>, ToSet(loaded') \subseteq ToSet(loaded), Len(loaded') <= Len(loaded),
             Len(loaded') \in Nat
      PROVE  LoaderAlone'
  BY <1>0, <1>1 DEF LoaderAlone, ManagerOK
<1>2. ASSUME UNCHANGED <<pc, want, lock, loaded>> PROVE LoaderAlone'
  BY <1>0, <1>2 DEF LoaderAlone
<1>3. ASSUME NEW w \in Workers, Admit(w) PROVE LoaderAlone'
  <2>1. PICK m \in Models : want' = [want EXCEPT ![w] = m]
    BY <1>3 DEF Admit
  <2> QED BY <1>0, <1>3, <2>1 DEF Admit, LoaderAlone, WorkersOK, manager
<1>4. ASSUME NEW w \in Workers, Leave(w) PROVE LoaderAlone'
  BY <1>0, <1>4 DEF Leave, LoaderAlone, WorkersOK, manager
<1>5. ASSUME NEW w \in Workers, Acquire(w) PROVE LoaderAlone'
  <2>1. lock = Nobody /\ lock' = Nobody /\ want' = want /\ pc' = [pc EXCEPT ![w] = "use"] /\ pc[w] = "in"
    BY <1>5 DEF Acquire
  <2>2. \A v \in Workers : v # Nobody
    OBVIOUS
  <2> QED BY <1>0, <2>1, <2>2 DEF LoaderAlone, WorkersOK
<1>6. ASSUME NEW w \in Workers, MakeRoom(w) PROVE LoaderAlone'
  <2>1. /\ lock = Nobody /\ lock' = w /\ want' = want /\ pc' = [pc EXCEPT ![w] = "fetch"] /\ pc[w] = "in"
        /\ want[w] \notin ToSet(loaded)
    BY <1>6 DEF MakeRoom
  <2>2. want[w] \notin ToSet(loaded') /\ Len(loaded') < MaxLoaded
    <3>1. CASE Full
      <4>1. Victims # {} /\ loaded' = Without(loaded, Victims)
        BY <1>6, <3>1 DEF MakeRoom
      <4>2. \E i \in 1 .. Len(loaded) : loaded[i] \in Victims
        <5>1. Victims \subseteq ToSet(loaded)
          BY DEF Victims, ToSet
        <5>2. PICK v \in ToSet(loaded) : v \in Victims
          BY <4>1, <5>1
        <5> QED BY <1>0, <5>2, Elements DEF ManagerOK
      <4>3. Len(loaded') < Len(loaded) /\ ToSet(loaded') = ToSet(loaded) \ Victims /\ loaded' \in Seq(Models)
        BY <1>0, <4>1, <4>2, WithoutOrder, WithoutElements DEF ManagerOK
      <4> QED BY <1>0, <2>1, <4>3 DEF Capacity, ManagerOK
    <3>2. CASE ~Full
      <4>1. loaded' = Without(loaded, {})
        BY <1>6, <3>2 DEF MakeRoom
      <4>2. Len(loaded') <= Len(loaded) /\ ToSet(loaded') = ToSet(loaded) /\ loaded' \in Seq(Models)
        <5>1. loaded \in Seq(Models)
          BY <1>0 DEF ManagerOK
        <5>2. Without(loaded, {}) \in Seq(Models) /\ ToSet(Without(loaded, {})) = ToSet(loaded) \ {}
          BY <5>1, WithoutElements
        <5>3. Len(Without(loaded, {})) <= Len(loaded)
          BY <5>1, WithoutOrder
        <5> QED BY <4>1, <5>2, <5>3
      <4> QED BY <1>0, <2>1, <3>2, <4>2 DEF Full, ManagerOK
    <3> QED BY <3>1, <3>2
  <2>3. \A v \in Workers : v # Nobody
    OBVIOUS
  <2> QED BY <1>0, <2>1, <2>2, <2>3 DEF LoaderAlone, WorkersOK
<1>7. ASSUME NEW w \in Workers, NoRoom(w) PROVE LoaderAlone'
  BY <1>0, <1>7 DEF NoRoom, LoaderAlone, WorkersOK, manager
<1>8. ASSUME NEW w \in Workers, FetchCached(w) \/ Download(w) PROVE LoaderAlone'
  <2>1. UNCHANGED <<lock, loaded, want>> /\ pc' = [pc EXCEPT ![w] = "load"] /\ pc[w] = "fetch"
    BY <1>8 DEF FetchCached, Download, manager
  <2> QED BY <1>0, <2>1 DEF LoaderAlone, WorkersOK
<1>9. ASSUME NEW w \in Workers, DownloadFails(w) \/ LoadFails(w) \/ Load(w) PROVE LoaderAlone'
  <2>1. /\ lock' = Nobody /\ want' = want /\ pc[w] \in {"fetch", "load"}
        /\ pc' \in {[pc EXCEPT ![w] = "use"], [pc EXCEPT ![w] = "failed"]}
    BY <1>9 DEF DownloadFails, LoadFails, Load, Fail
  <2>2. \A v \in Workers : v # Nobody
    OBVIOUS
  <2> QED BY <1>0, <2>1, <2>2 DEF LoaderAlone, WorkersOK
<1>10. ASSUME NEW w \in Workers, Release(w) PROVE LoaderAlone'
  <2>1. UNCHANGED <<lock, loaded, want>> /\ pc' = [pc EXCEPT ![w] = "done"] /\ pc[w] = "use"
    BY <1>10 DEF Release
  <2> QED BY <1>0, <2>1 DEF LoaderAlone, WorkersOK
<1>11. CASE Age \/ Reconfigure
  BY <1>2, <1>11 DEF Age, Reconfigure, manager
<1>12. CASE EvictExpired
  <2>1. UNCHANGED <<pc, want, lock>> /\ loaded' = Without(loaded, cold \cap Idle)
    BY <1>12 DEF EvictExpired
  <2>2. ToSet(loaded') \subseteq ToSet(loaded) /\ Len(loaded') <= Len(loaded) /\ loaded' \in Seq(Models)
    BY <1>0, <2>1, WithoutElements, WithoutOrder DEF ManagerOK
  <2>3. Len(loaded') \in Nat
    BY <2>2
  <2> QED BY <1>1, <2>1, <2>2, <2>3
<1>13. CASE Shutdown
  <2>1. UNCHANGED <<pc, want, lock>> /\ loaded' = <<>>
    BY <1>13 DEF Shutdown
  <2>2. ToSet(<<>>) = {}
    BY DEF ToSet
  <2> QED BY <1>0, <1>1, <2>1, <2>2 DEF ManagerOK
<1>14. CASE Crash
  <2>1. pc' = [w \in Workers |-> "out"] /\ lock' = Nobody
    BY <1>14 DEF Crash
  <2>2. \A v \in Workers : v # Nobody
    OBVIOUS
  <2> QED BY <2>1, <2>2 DEF LoaderAlone
<1>15. ASSUME NEW p \in Passes, Wake(p) \/ Evict(p) PROVE LoaderAlone'
  BY <1>2, <1>15 DEF Wake, Evict, ScanEntries, Check, Choose, RemoveEntry, EntryRemoved, EndPass, Host, manager
<1> QED BY <1>3, <1>4, <1>5, <1>6, <1>7, <1>8, <1>9, <1>10, <1>11, <1>12, <1>13, <1>14, <1>15 DEF Next, Serve

\* Neither the room made nor the model loaded goes over the limit or doubles a model.
LEMMA CapacityStep == ASSUME HostInv, Next PROVE Capacity'
<1>0. ManagerOK /\ WorkersOK /\ LoaderAlone /\ Capacity
  BY DEF HostInv, TypeOK
<1>a. Len(loaded) \in Nat /\ Len(loaded) <= MaxLoaded /\ Distinct(loaded) /\ loaded \in Seq(Models)
  BY <1>0 DEF Capacity, Distinct, ManagerOK
<1>b. ASSUME NEW s \in Seq(Models), loaded' = s, Len(s) <= MaxLoaded, Distinct(s) PROVE Capacity'
  BY <1>b DEF Capacity, Distinct
<1>1. ASSUME UNCHANGED loaded PROVE Capacity'
  BY <1>0, <1>1 DEF Capacity
<1>2. ASSUME NEW S, loaded' = Without(loaded, S) PROVE Capacity'
  <2>1. Without(loaded, S) \in Seq(Models) /\ Len(Without(loaded, S)) <= Len(loaded)
    BY <1>a, WithoutElements, WithoutOrder
  <2>2. Distinct(Without(loaded, S))
    BY <1>a, WithoutDistinct DEF Distinct
  <2>3. Len(Without(loaded, S)) \in Nat
    BY <2>1
  <2>4. Len(Without(loaded, S)) <= MaxLoaded
    BY <1>a, <2>1, <2>3
  <2> QED BY <1>2, <1>b, <2>1, <2>2, <2>4
<1>3. ASSUME NEW w \in Workers, Acquire(w) PROVE Capacity'
  <2>1. /\ pc[w] = "in" /\ want[w] \in ToSet(loaded) /\ loaded' = Append(Without(loaded, {want[w]}), want[w])
    BY <1>3 DEF Acquire
  <2>2. want[w] \in Models
    BY <1>0, <2>1 DEF LoaderAlone
  <2> DEFINE t == Append(Without(loaded, {want[w]}), want[w])
  <2>3. t \in Seq(Models) /\ Len(t) <= Len(loaded) /\ Distinct(t)
    BY <1>a, <2>1, <2>2, Touch
  <2> HIDE DEF t
  <2>4. Len(t) <= MaxLoaded
    BY <1>a, <2>3
  <2> QED BY <1>b, <2>1, <2>3, <2>4 DEF t
<1>4. ASSUME NEW w \in Workers, Load(w) PROVE Capacity'
  <2>1. pc[w] = "load" /\ loaded' = Append(loaded, want[w])
    BY <1>4 DEF Load
  <2>2. want[w] \in Models /\ want[w] \notin ToSet(loaded) /\ Len(loaded) < MaxLoaded
    BY <1>0, <2>1 DEF LoaderAlone
  <2>3. \A i \in 1 .. Len(loaded) : loaded[i] # want[w]
    BY <1>a, <2>2, Elements
  <2> DEFINE t == Append(loaded, want[w])
  <2>4. /\ t \in Seq(Models) /\ Len(t) = Len(loaded) + 1 /\ t[Len(loaded) + 1] = want[w]
        /\ \A i \in 1 .. Len(loaded) : t[i] = loaded[i]
    BY <1>a, <2>2
  <2> HIDE DEF t
  <2>5. \A i \in 1 .. Len(t) : i \in 1 .. Len(loaded) \/ i = Len(loaded) + 1
    BY <1>a, <2>4
  <2>6. Distinct(t)
    BY <1>a, <2>3, <2>4, <2>5 DEF Distinct
  <2>7. Len(t) <= MaxLoaded
    BY <1>a, <2>2, <2>4
  <2> QED BY <1>b, <2>1, <2>4, <2>6, <2>7 DEF t
<1>5. ASSUME NEW w \in Workers, Admit(w) \/ Serve(w), ~Acquire(w), ~Load(w), ~MakeRoom(w) PROVE Capacity'
  BY <1>1, <1>5 DEF Admit, Serve, NoRoom, FetchCached, Download, DownloadFails, LoadFails, Release, Leave, Fail, manager
<1>6. ASSUME NEW w \in Workers, MakeRoom(w) PROVE Capacity'
  BY <1>2, <1>6 DEF MakeRoom
<1>7. CASE EvictExpired
  BY <1>2, <1>7 DEF EvictExpired
<1>8. CASE Age \/ Reconfigure
  BY <1>1, <1>8 DEF Age, Reconfigure, manager
<1>9. CASE Shutdown \/ Crash
  <2>1. loaded' = <<>>
    BY <1>9 DEF Shutdown, Crash
  <2> QED BY <2>1 DEF Capacity
<1>10. ASSUME NEW p \in Passes, Wake(p) \/ Evict(p) PROVE Capacity'
  BY <1>1, <1>10 DEF Wake, Evict, ScanEntries, Check, Choose, RemoveEntry, EntryRemoved, EndPass, Host, manager
<1> QED BY <1>3, <1>4, <1>5, <1>6, <1>7, <1>8, <1>9, <1>10 DEF Next

\* Admission adds a worker to those counted, leaving takes it away.
LEMMA SlotsStep == ASSUME HostInv, Next PROVE SlotsCounted'
<1> DEFINE In(S)    == {v \in S : pc[v] # "out"}
           InNew(S) == {v \in S : pc'[v] # "out"}
<1>0. WorkersOK /\ SlotsCounted /\ active \in [batch : Nat, rt : Nat]
  BY DEF HostInv, TypeOK, AdmissionOK
<1>a. Batch \subseteq Workers /\ Realtime \subseteq Workers /\ \A w \in Workers : w \in Batch <=> w \notin Realtime
  BY DEF Workers
<1>b. IsFiniteSet(In(Batch)) /\ IsFiniteSet(In(Realtime))
  BY <1>a, FS_Subset
<1>c. /\ active.batch = Cardinality(In(Batch)) /\ active.batch \in Nat
      /\ active.rt = Cardinality(In(Realtime)) /\ active.rt \in Nat
  BY <1>0 DEF SlotsCounted
<1>1. ASSUME UNCHANGED active, InNew(Batch) = In(Batch), InNew(Realtime) = In(Realtime) PROVE SlotsCounted'
  BY <1>1, <1>c DEF SlotsCounted
<1>2. ASSUME NEW w \in Workers, NEW s \in {"in", "use", "done", "failed", "fetch", "load"},
             pc[w] # "out", pc' = [pc EXCEPT ![w] = s], UNCHANGED active
      PROVE  SlotsCounted'
  <2>1. \A v \in Workers : pc'[v] # "out" <=> pc[v] # "out"
    BY <1>0, <1>2 DEF WorkersOK
  <2>2. InNew(Batch) = In(Batch) /\ InNew(Realtime) = In(Realtime)
    BY <1>a, <2>1
  <2> HIDE DEF In, InNew
  <2> QED BY <1>1, <1>2, <2>2
<1>3. ASSUME NEW w \in Workers, Admit(w) PROVE SlotsCounted'
  <2>1. pc[w] = "out" /\ pc' = [pc EXCEPT ![w] = "in"]
    BY <1>3 DEF Admit
  <2>2. CASE w \in Batch /\ active' = [active EXCEPT !.batch = @ + 1]
    <3>1. InNew(Batch) = In(Batch) \cup {w} /\ InNew(Realtime) = In(Realtime) /\ w \notin In(Batch)
      BY <1>0, <1>a, <2>1, <2>2 DEF WorkersOK
    <3>2. active'.batch = active.batch + 1 /\ active'.rt = active.rt
      BY <1>0, <2>2
    <3>3. Cardinality(In(Batch) \cup {w}) = Cardinality(In(Batch)) + 1
      BY <1>b, <3>1, FS_AddElement
    <3> QED BY <1>c, <3>1, <3>2, <3>3 DEF SlotsCounted
  <2>3. CASE w \in Realtime /\ active' = [active EXCEPT !.rt = @ + 1]
    <3>1. InNew(Realtime) = In(Realtime) \cup {w} /\ InNew(Batch) = In(Batch) /\ w \notin In(Realtime)
      BY <1>0, <1>a, <2>1, <2>3 DEF WorkersOK
    <3>2. active'.rt = active.rt + 1 /\ active'.batch = active.batch
      BY <1>0, <2>3
    <3>3. Cardinality(In(Realtime) \cup {w}) = Cardinality(In(Realtime)) + 1
      BY <1>b, <3>1, FS_AddElement
    <3> QED BY <1>c, <3>1, <3>2, <3>3 DEF SlotsCounted
  <2> QED BY <1>3, <2>2, <2>3 DEF Admit
<1>4. ASSUME NEW w \in Workers, Leave(w) PROVE SlotsCounted'
  <2>1. pc[w] # "out" /\ pc' = [pc EXCEPT ![w] = "out"]
    BY <1>4 DEF Leave
  <2>2. CASE w \in Batch
    <3>1. InNew(Batch) = In(Batch) \ {w} /\ InNew(Realtime) = In(Realtime) /\ w \in In(Batch)
      BY <1>0, <1>a, <2>1, <2>2 DEF WorkersOK
    <3>2. Cardinality(In(Batch) \ {w}) = Cardinality(In(Batch)) - 1 /\ Cardinality(In(Batch)) # 0
      BY <1>b, <3>1, FS_RemoveElement, FS_EmptySet
    <3>3. active' = [active EXCEPT !.batch = IF @ > 0 THEN @ - 1 ELSE 0]
      BY <1>4, <2>2 DEF Leave
    <3> HIDE DEF In, InNew
    <3>4. active'.batch = active.batch - 1 /\ active'.rt = active.rt
      BY <1>0, <1>c, <3>2, <3>3
    <3> QED BY <1>c, <3>1, <3>2, <3>4 DEF SlotsCounted, InNew
  <2>3. CASE w \in Realtime
    <3>1. InNew(Realtime) = In(Realtime) \ {w} /\ InNew(Batch) = In(Batch) /\ w \in In(Realtime)
      BY <1>0, <1>a, <2>1, <2>3 DEF WorkersOK
    <3>2. Cardinality(In(Realtime) \ {w}) = Cardinality(In(Realtime)) - 1 /\ Cardinality(In(Realtime)) # 0
      BY <1>b, <3>1, FS_RemoveElement, FS_EmptySet
    <3>3. active' = [active EXCEPT !.rt = IF @ > 0 THEN @ - 1 ELSE 0]
      BY <1>4, <1>a, <2>3 DEF Leave
    <3> HIDE DEF In, InNew
    <3>4. active'.rt = active.rt - 1 /\ active'.batch = active.batch
      BY <1>0, <1>c, <3>2, <3>3
    <3> QED BY <1>c, <3>1, <3>2, <3>4 DEF SlotsCounted, InNew
  <2> QED BY <1>a, <2>2, <2>3
<1>5. ASSUME NEW w \in Workers, Acquire(w) \/ MakeRoom(w) \/ NoRoom(w) \/ FetchCached(w) \/ Download(w) \/ DownloadFails(w)
                                \/ Load(w) \/ LoadFails(w) \/ Release(w)
      PROVE  SlotsCounted'
  <2>1. /\ pc[w] # "out" /\ UNCHANGED active
        /\ \E s \in {"in", "use", "done", "failed", "fetch", "load"} : pc' = [pc EXCEPT ![w] = s]
    BY <1>5 DEF Acquire, MakeRoom, NoRoom, FetchCached, Download, DownloadFails, Load, LoadFails, Release, Fail, admission
  <2> HIDE DEF In, InNew
  <2> QED BY <1>2, <2>1
<1>6. CASE Age \/ EvictExpired \/ Reconfigure \/ Shutdown
  <2>1. UNCHANGED <<active, pc>>
    BY <1>6 DEF Age, EvictExpired, Reconfigure, Shutdown, admission
  <2> QED BY <1>1, <2>1
<1>7. CASE Crash
  <2>1. active' = [batch |-> 0, rt |-> 0] /\ pc' = [w \in Workers |-> "out"]
    BY <1>7 DEF Crash
  <2>2. InNew(Batch) = {} /\ InNew(Realtime) = {}
    BY <1>a, <2>1
  <2> QED BY <2>1, <2>2, FS_EmptySet DEF SlotsCounted
<1>8. ASSUME NEW p \in Passes, Wake(p) \/ Evict(p) PROVE SlotsCounted'
  <2>1. UNCHANGED <<active, pc>>
    BY <1>8 DEF Wake, Evict, ScanEntries, Check, Choose, RemoveEntry, EntryRemoved, EndPass, Host, admission
  <2> QED BY <1>1, <2>1
<1> HIDE DEF In, InNew
<1> QED BY <1>3, <1>4, <1>5, <1>6, <1>7, <1>8 DEF Next, Serve

\* A batch task is admitted only beside the slots kept for realtime sessions.
LEMMA ReservedStep == ASSUME HostInv, Next PROVE RtReserved'
<1>0. RtReserved /\ AdmissionOK
  BY DEF HostInv, TypeOK
<1>a. /\ active.batch \in Nat /\ active.rt \in Nat /\ inherited \in Nat
      /\ config.cap \in Nat /\ config.res \in Nat
  <2>1. config \in [cap : Nat, res : Nat, max : Nat]
    BY <1>0 DEF AdmissionOK
  <2> QED BY <1>0, <2>1 DEF AdmissionOK
<1>1. ASSUME NEW b \in Nat, b <= active.batch, active'.batch = b, UNCHANGED <<config, inherited>> PROVE RtReserved'
  BY <1>0, <1>a, <1>1 DEF RtReserved
<1>2. ASSUME NEW w \in Workers, Admit(w) PROVE RtReserved'
  <2>1. UNCHANGED <<config, inherited>>
    BY <1>2 DEF Admit
  <2>2. CASE w \in Batch /\ CanAcceptBatch /\ active' = [active EXCEPT !.batch = @ + 1]
    <3>1. active'.batch = active.batch + 1
      BY <1>0, <2>2 DEF AdmissionOK
    <3> QED BY <1>a, <2>1, <2>2, <3>1 DEF CanAcceptBatch, RtReserved
  <2>3. CASE active' = [active EXCEPT !.rt = @ + 1]
    <3>1. active'.batch = active.batch
      BY <1>0, <2>3 DEF AdmissionOK
    <3> QED BY <1>1, <1>a, <2>1, <3>1
  <2> QED BY <1>2, <2>2, <2>3 DEF Admit
<1>3. ASSUME NEW w \in Workers, Leave(w) PROVE RtReserved'
  <2>1. UNCHANGED <<config, inherited>>
    BY <1>3 DEF Leave
  <2>2. CASE active' = [active EXCEPT !.batch = IF @ > 0 THEN @ - 1 ELSE 0]
    <3>1. active'.batch = IF active.batch > 0 THEN active.batch - 1 ELSE 0
      BY <1>0, <2>2 DEF AdmissionOK
    <3> QED BY <1>1, <1>a, <2>1, <3>1
  <2>3. CASE active' = [active EXCEPT !.rt = IF @ > 0 THEN @ - 1 ELSE 0]
    <3>1. active'.batch = active.batch
      BY <1>0, <2>3 DEF AdmissionOK
    <3> QED BY <1>1, <1>a, <2>1, <3>1
  <2> QED BY <1>3, <2>2, <2>3 DEF Leave
<1>4. ASSUME UNCHANGED admission PROVE RtReserved'
  BY <1>0, <1>4 DEF RtReserved, admission
<1>5. ASSUME NEW w \in Workers, Acquire(w) \/ MakeRoom(w) \/ NoRoom(w) \/ FetchCached(w) \/ Download(w) \/ DownloadFails(w)
                                \/ Load(w) \/ LoadFails(w) \/ Release(w)
      PROVE  RtReserved'
  BY <1>4, <1>5 DEF Acquire, MakeRoom, NoRoom, FetchCached, Download, DownloadFails, Load, LoadFails, Release
<1>6. CASE Age \/ EvictExpired \/ Shutdown
  BY <1>4, <1>6 DEF Age, EvictExpired, Shutdown
<1>7. CASE Reconfigure
  <2>1. inherited' = active.batch /\ active' = active
    BY <1>7 DEF Reconfigure
  <2> QED BY <1>a, <2>1 DEF RtReserved
<1>8. CASE Crash
  <2>1. inherited' = 0 /\ active' = [batch |-> 0, rt |-> 0]
    BY <1>8 DEF Crash
  <2> QED BY <2>1 DEF RtReserved
<1>9. ASSUME NEW p \in Passes, Wake(p) \/ Evict(p) PROVE RtReserved'
  BY <1>4, <1>9 DEF Wake, Evict, ScanEntries, Check, Choose, RemoveEntry, EntryRemoved, EndPass, Host
<1> QED BY <1>2, <1>3, <1>5, <1>6, <1>7, <1>8, <1>9 DEF Next, Serve

\* References follow the workers that use the models, and only idle models are evicted.
LEMMA RefsStep ==
    ASSUME ManagerOK, WorkersOK, LoaderAlone, RefsExact, Next, ~Shutdown, ~Crash
    PROVE  RefsExact'
<1> DEFINE New(m) == {v \in Workers : pc'[v] = "use" /\ want'[v] = m}
<1>a. \A m \in Models : /\ IsFiniteSet(Users(m)) /\ refs[m] = Cardinality(Users(m)) /\ refs[m] \in Nat
                        /\ refs[m] > 0 => m \in ToSet(loaded)
  <2> TAKE m \in Models
  <2>1. Users(m) \in SUBSET Workers
    BY DEF Users
  <2> QED BY <2>1, FS_Subset DEF RefsExact, ManagerOK
<1>b. ASSUME \A m \in Models : refs'[m] = Cardinality(New(m)) /\ (refs'[m] > 0 => m \in ToSet(loaded'))
      PROVE  RefsExact'
  BY <1>b DEF RefsExact, Users
<1>1. ASSUME UNCHANGED refs, \A m \in Models : New(m) = Users(m) /\ (refs[m] > 0 => m \in ToSet(loaded'))
      PROVE  RefsExact'
  <2> HIDE DEF New
  <2> QED BY <1>1, <1>a, <1>b
<1>2. ASSUME NEW w \in Workers, pc[w] # "use", pc'[w] # "use", UNCHANGED <<refs, loaded>>,
             \A v \in Workers \ {w} : pc'[v] = pc[v] /\ want'[v] = want[v]
      PROVE  RefsExact'
  <2>1. \A m \in Models : New(m) = Users(m)
    BY <1>2 DEF Users
  <2> HIDE DEF New
  <2> QED BY <1>1, <1>2, <1>a, <2>1
<1>3. ASSUME NEW w \in Workers, Admit(w) PROVE RefsExact'
  <2>1. PICK m \in Models : want' = [want EXCEPT ![w] = m]
    BY <1>3 DEF Admit
  <2>2. pc' = [pc EXCEPT ![w] = "in"] /\ pc[w] = "out" /\ refs' = refs /\ loaded' = loaded
    BY <1>3 DEF Admit, manager
  <2>3. pc'[w] = "in" /\ \A v \in Workers \ {w} : pc'[v] = pc[v] /\ want'[v] = want[v]
    BY <2>1, <2>2 DEF WorkersOK
  <2> HIDE DEF New
  <2> QED BY <1>2, <2>2, <2>3
<1>4. ASSUME NEW w \in Workers, Leave(w) PROVE RefsExact'
  <2>1. /\ pc' = [pc EXCEPT ![w] = "out"] /\ want' = [want EXCEPT ![w] = Nobody] /\ refs' = refs /\ loaded' = loaded
        /\ pc[w] # "use"
    BY <1>4 DEF Leave, manager
  <2>2. pc'[w] = "out" /\ \A v \in Workers \ {w} : pc'[v] = pc[v] /\ want'[v] = want[v]
    BY <2>1 DEF WorkersOK
  <2> HIDE DEF New
  <2> QED BY <1>2, <2>1, <2>2
<1>5. ASSUME NEW w \in Workers, NoRoom(w) \/ FetchCached(w) \/ Download(w) \/ DownloadFails(w) \/ LoadFails(w)
      PROVE  RefsExact'
  <2>1. /\ pc' \in {[pc EXCEPT ![w] = "failed"], [pc EXCEPT ![w] = "load"]} /\ pc[w] # "use"
        /\ want' = want /\ refs' = refs /\ loaded' = loaded
    BY <1>5 DEF NoRoom, FetchCached, Download, DownloadFails, LoadFails, Fail, manager
  <2>2. pc'[w] # "use" /\ \A v \in Workers \ {w} : pc'[v] = pc[v] /\ want'[v] = want[v]
    BY <2>1 DEF WorkersOK
  <2> HIDE DEF New
  <2> QED BY <1>2, <2>1, <2>2
<1>6. ASSUME NEW w \in Workers, Acquire(w) PROVE RefsExact'
  <2> DEFINE m == want[w]
  <2>1. /\ pc[w] = "in" /\ pc' = [pc EXCEPT ![w] = "use"] /\ want' = want
        /\ refs' = [refs EXCEPT ![m] = @ + 1] /\ loaded' = Append(Without(loaded, {m}), m)
    BY <1>6 DEF Acquire
  <2>2. m \in Models
    BY <2>1 DEF LoaderAlone
  <2>3. ToSet(loaded') = ToSet(loaded) \cup {m}
    BY <2>1, <2>2, Touch DEF ManagerOK
  <2>4. New(m) = Users(m) \cup {w} /\ w \notin Users(m) /\ \A n \in Models \ {m} : New(n) = Users(n)
    BY <2>1 DEF Users, WorkersOK
  <2>5. Cardinality(New(m)) = Cardinality(Users(m)) + 1
    BY <1>a, <2>2, <2>4, FS_AddElement
  <2>6. refs'[m] = refs[m] + 1 /\ \A n \in Models \ {m} : refs'[n] = refs[n]
    BY <2>1, <2>2 DEF ManagerOK
  <2> HIDE DEF New, m
  <2> QED BY <1>a, <1>b, <2>2, <2>3, <2>4, <2>5, <2>6
<1>7. ASSUME NEW w \in Workers, MakeRoom(w) PROVE RefsExact'
  <2>1. PICK gone \in SUBSET Idle : loaded' = Without(loaded, gone)
    <3>1. Victims \subseteq Idle
      BY DEF Victims
    <3> QED BY <1>7, <3>1 DEF MakeRoom
  <2>2. ToSet(loaded') = ToSet(loaded) \ gone
    BY <2>1, WithoutElements DEF ManagerOK
  <2>3. \A m \in Models : refs[m] > 0 => m \in ToSet(loaded')
    BY <1>a, <2>1, <2>2 DEF Idle
  <2>4. pc[w] = "in" /\ pc' = [pc EXCEPT ![w] = "fetch"] /\ UNCHANGED <<want, refs>>
    BY <1>7 DEF MakeRoom
  <2>5. \A m \in Models : New(m) = Users(m)
    BY <2>4 DEF Users, WorkersOK
  <2> HIDE DEF New
  <2> QED BY <1>1, <2>3, <2>4, <2>5
<1>8. ASSUME NEW w \in Workers, Load(w) PROVE RefsExact'
  <2> DEFINE m == want[w]
  <2>1. /\ pc[w] = "load" /\ pc' = [pc EXCEPT ![w] = "use"] /\ want' = want
        /\ refs' = [refs EXCEPT ![m] = 1] /\ loaded' = Append(loaded, m)
    BY <1>8 DEF Load
  <2>2. m \in Models /\ m \notin ToSet(loaded)
    BY <2>1 DEF LoaderAlone
  <2>3. ToSet(loaded') = ToSet(loaded) \cup {m}
    BY <2>1, <2>2, AppendElements DEF ManagerOK
  <2>4. refs[m] = 0
    BY <1>a, <2>2
  <2>5. Users(m) = {}
    BY <1>a, <2>2, <2>4, FS_EmptySet
  <2>6. New(m) = Users(m) \cup {w} /\ w \notin Users(m) /\ \A n \in Models \ {m} : New(n) = Users(n)
    BY <2>1 DEF Users, WorkersOK
  <2>7. Cardinality(New(m)) = 1
    <3>1. Cardinality(Users(m) \cup {w}) = Cardinality(Users(m)) + 1
      BY <1>a, <2>2, <2>6, FS_AddElement
    <3>2. Cardinality(Users(m)) = 0
      BY <1>a, <2>2, <2>4
    <3> QED BY <2>6, <3>1, <3>2
  <2>8. refs'[m] = 1 /\ \A n \in Models \ {m} : refs'[n] = refs[n]
    BY <2>1, <2>2 DEF ManagerOK
  <2> HIDE DEF New, m
  <2> QED BY <1>a, <1>b, <2>2, <2>3, <2>6, <2>7, <2>8
<1>9. ASSUME NEW w \in Workers, Release(w) PROVE RefsExact'
  <2> DEFINE m == want[w]
  <2>1. /\ pc[w] = "use" /\ pc' = [pc EXCEPT ![w] = "done"] /\ want' = want /\ loaded' = loaded
        /\ refs' = [refs EXCEPT ![m] = IF m \in ToSet(loaded) /\ @ > 0 THEN @ - 1 ELSE @]
    BY <1>9 DEF Release
  <2>2. m \in Models
    BY <2>1 DEF LoaderAlone
  <2>3. New(m) = Users(m) \ {w} /\ w \in Users(m) /\ \A n \in Models \ {m} : New(n) = Users(n)
    BY <2>1 DEF Users, WorkersOK
  <2>4. Cardinality(New(m)) = Cardinality(Users(m)) - 1
    BY ZenonT(30), <1>a, <2>2, <2>3, FS_RemoveElement
  <2>5. refs[m] # 0
    BY <1>a, <2>2, <2>3, FS_EmptySet
  <2>6. refs[m] > 0 /\ m \in ToSet(loaded)
    BY <1>a, <2>2, <2>5
  <2>7. refs'[m] = refs[m] - 1 /\ \A n \in Models \ {m} : refs'[n] = refs[n]
    BY <2>1, <2>2, <2>6 DEF ManagerOK
  <2> HIDE DEF New, m
  <2> QED BY <1>a, <1>b, <2>1, <2>2, <2>3, <2>4, <2>6, <2>7
<1>10. CASE EvictExpired
  <2>1. loaded' = Without(loaded, cold \cap Idle) /\ UNCHANGED <<refs, pc, want>>
    BY <1>10 DEF EvictExpired
  <2>2. ToSet(loaded') = ToSet(loaded) \ (cold \cap Idle)
    BY <2>1, WithoutElements DEF ManagerOK
  <2>3. \A m \in Models : refs[m] > 0 => m \in ToSet(loaded')
    BY <1>a, <2>2 DEF Idle
  <2>4. \A m \in Models : New(m) = Users(m)
    BY <2>1 DEF Users
  <2> HIDE DEF New
  <2> QED BY <1>1, <2>1, <2>3, <2>4
<1>11. ASSUME UNCHANGED <<refs, loaded, pc, want>> PROVE RefsExact'
  BY <1>11 DEF RefsExact, Users
<1>12. CASE Age \/ Reconfigure
  BY <1>11, <1>12 DEF Age, Reconfigure, manager
<1>13. ASSUME NEW p \in Passes, Wake(p) \/ Evict(p) PROVE RefsExact'
  BY <1>11, <1>13 DEF Wake, Evict, ScanEntries, Check, Choose, RemoveEntry, EntryRemoved, EndPass, Host, manager
<1> QED BY <1>3, <1>4, <1>5, <1>6, <1>7, <1>8, <1>9, <1>10, <1>12, <1>13 DEF Next, Serve

\* Only shutdown and a crash let a model in use go.
LEMMA UsedStep == ASSUME HostInv, Next PROVE UsedStaysLoaded'
<1>0. ManagerOK /\ WorkersOK /\ LoaderAlone /\ UsedStaysLoaded /\ stopped \in BOOLEAN
  BY DEF HostInv, TypeOK
<1>1. CASE Shutdown
  BY <1>1 DEF Shutdown, UsedStaysLoaded
<1>2. CASE Crash
  <2>1. refs' = [m \in Models |-> 0] /\ pc' = [w \in Workers |-> "out"]
    BY <1>2 DEF Crash
  <2>2. \A m \in Models : {w \in Workers : pc'[w] = "use" /\ want'[w] = m} = {} /\ refs'[m] = 0
    BY <2>1
  <2>3. RefsExact'
    BY <2>2, FS_EmptySet DEF RefsExact, Users
  <2> QED BY <2>3 DEF UsedStaysLoaded
<1>3. CASE ~Shutdown /\ ~Crash
  <2>1. stopped' = stopped
    BY <1>3 DEF Next, Admit, Serve, Acquire, MakeRoom, NoRoom, FetchCached, Download, DownloadFails,
                Load, LoadFails, Release, Leave, Wake, Evict, ScanEntries, Check, Choose, RemoveEntry,
                EntryRemoved, EndPass, Host, Age, EvictExpired, Reconfigure
  <2>2. ASSUME RefsExact PROVE RefsExact'
    BY <1>0, <1>3, <2>2, RefsStep
  <2> QED BY <1>0, <2>1, <2>2 DEF UsedStaysLoaded
<1> QED BY <1>1, <1>2, <1>3

\* A step that changes nothing keeps everything.
LEMMA HostStutter == ASSUME HostInv, UNCHANGED vars PROVE HostInv'
<1>1. TypeOK'
  BY DEF HostInv, TypeOK, AdmissionOK, ManagerOK, WorkersOK, StorageOK, PassesOK, vars, admission, manager, storage
<1>2. LoaderAlone' /\ SlotsCounted' /\ RtReserved' /\ Capacity' /\ RemovesEntry' /\ TornTraced'
  BY DEF HostInv, LoaderAlone, SlotsCounted, RtReserved, Capacity, RemovesEntry, TornTraced, vars,
         admission, manager, storage
<1>3. RefsExact = RefsExact' /\ stopped' = stopped
  BY DEF RefsExact, Users, vars, manager
<1> QED BY <1>1, <1>2, <1>3 DEF HostInv, UsedStaysLoaded

\* An engine process stays consistent, whatever workers, evictions, reconfigurations,
\* shutdowns and crashes interleave (HostInv): slots (admission.py) and references
\* (model_manager.py) are exact, the limits hold, no model in use is evicted, and only a
\* deletion leaves half a model on disk (model_storage.py, disk_cache.py).
THEOREM HostInvariant == Spec => []HostInv
<1>1. HostInv /\ [Next]_vars => HostInv'
  <2> SUFFICES ASSUME HostInv, [Next]_vars PROVE HostInv'
    OBVIOUS
  <2>1. CASE Next
    BY <2>1, TypeStep, LoaderStep, SlotsStep, ReservedStep, CapacityStep, UsedStep, TornStep DEF HostInv
  <2>2. CASE UNCHANGED vars
    BY <2>2, HostStutter
  <2> QED BY <2>1, <2>2
<1> QED BY <1>1, HostInit, PTL DEF Spec

=============================================================================
