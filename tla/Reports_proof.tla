---------------------------- MODULE Reports_proof -----------------------------
(***************************************************************************)
(* The reports of the agent, for any tasks, any number of threads and any  *)
(* answers of the services: what a report counts adds up, a run fails and  *)
(* a section is missing only for the reasons named, and only a task of the *)
(* same type built later changes the language of a report.                 *)
(***************************************************************************)
EXTENDS Reports, FiniteSetTheorems, FunctionTheorems, TLAPS

(***************************************************************************)
(* Bijections and counting.                                                *)
(***************************************************************************)

\* Sets that a one-to-one function maps onto each other are equally large.
LEMMA SameSize ==
  ASSUME NEW S, IsFiniteSet(S), NEW T, NEW f \in [S -> T],
         \A x, y \in S : f[x] = f[y] => x = y,
         \A y \in T : \E x \in S : f[x] = y
  PROVE  IsFiniteSet(T) /\ Cardinality(T) = Cardinality(S)
<1>1. f \in Bijection(S, T)
  BY Fun_IsBij
<1>2. ExistsBijection(S, T)
  BY <1>1, Fun_ExistsBij
<1>3. QED
  BY <1>2, FS_Bijection

\* A one-to-one function into a set of the same size reaches all of it.
LEMMA Reaches ==
  ASSUME NEW S, IsFiniteSet(S), NEW T, IsFiniteSet(T), Cardinality(S) = Cardinality(T),
         NEW f \in [S -> T], \A x, y \in S : f[x] = f[y] => x = y
  PROVE  \A y \in T : \E x \in S : f[x] = y
<1>1. f \in Injection(S, T)
  BY Fun_IsInj
<1>2. f \in Surjection(S, T)
  BY <1>1, FS_Injection
<1>3. QED
  BY <1>2, Fun_SurjectionProperties

\* The numbers 1 .. n: their count.
LEMMA Interval ==
  ASSUME NEW n \in Nat
  PROVE  IsFiniteSet(1 .. n) /\ Cardinality(1 .. n) = n
<1>1. /\ IsFiniteSet(1 .. n)
      /\ Cardinality(1 .. n) = IF 1 > n THEN 0 ELSE n - 1 + 1
  BY FS_Interval
<1>2. QED
  BY <1>1

\* before is a total order of S; f lists S, each element once.
Orders(before, S) ==
  /\ before \in [S -> SUBSET S]
  /\ \A x \in S : x \notin before[x]
  /\ \A x, y \in S : x \in before[y] => before[x] \subseteq before[y]
  /\ \A x, y \in S : x = y \/ x \in before[y] \/ y \in before[x]

Lists(f, S) ==
  /\ IsFiniteSet(S) /\ Cardinality(S) \in Nat
  /\ f \in [1 .. Cardinality(S) -> S]
  /\ \A m, n \in 1 .. Cardinality(S) : f[m] = f[n] => m = n
  /\ \A x \in S : \E n \in 1 .. Cardinality(S) : f[n] = x

\* A group: what stands at some places, in some order.
GroupOf(g, s, I) ==
  \E order : Lists(order, I) /\ g = [m \in 1 .. Cardinality(I) |-> s[order[m]]]

\* An element has its place by how many come before it.
LEMMA ArrangedLists ==
  ASSUME NEW S, IsFiniteSet(S), NEW before, Orders(before, S)
  PROVE  /\ Lists(Arranged(S, before), S)
         /\ \A n \in 1 .. Cardinality(S) : Cardinality(before[Arranged(S, before)[n]]) = n - 1
<1> DEFINE c == Cardinality(S)
<1> DEFINE place == [x \in S |-> Cardinality(before[x]) + 1]
<1> /\ before \in [S -> SUBSET S]
    /\ \A x \in S : x \notin before[x]
    /\ \A x, y \in S : x \in before[y] => before[x] \subseteq before[y]
    /\ \A x, y \in S : x = y \/ x \in before[y] \/ y \in before[x]
  BY DEF Orders
<1>1. c \in Nat
  BY FS_CardinalityType
<1>2. \A x \in S : /\ IsFiniteSet(before[x]) /\ Cardinality(before[x]) \in Nat
                   /\ Cardinality(before[x]) < c
  <2> SUFFICES ASSUME NEW x \in S
               PROVE  /\ IsFiniteSet(before[x]) /\ Cardinality(before[x]) \in Nat
                      /\ Cardinality(before[x]) < c
    OBVIOUS
  <2>1. before[x] \in SUBSET S
    OBVIOUS
  <2>2. IsFiniteSet(before[x]) /\ Cardinality(before[x]) <= c
        /\ (c = Cardinality(before[x]) => S = before[x])
    BY <2>1, FS_Subset
  <2>3. Cardinality(before[x]) \in Nat
    BY <2>2, FS_CardinalityType
  <2>4. S # before[x]
    OBVIOUS
  <2>5. QED
    BY <1>1, <2>2, <2>3, <2>4
<1>3. place \in [S -> 1 .. c]
  <2> SUFFICES ASSUME NEW x \in S PROVE Cardinality(before[x]) + 1 \in 1 .. c
    OBVIOUS
  <2>1. QED
    BY <1>1, <1>2
<1>4. \A x, y \in S : x \in before[y] => Cardinality(before[x]) < Cardinality(before[y])
  <2> SUFFICES ASSUME NEW x \in S, NEW y \in S, x \in before[y]
               PROVE  Cardinality(before[x]) < Cardinality(before[y])
    OBVIOUS
  <2>1. before[x] \in SUBSET before[y]
    OBVIOUS
  <2>2. before[x] # before[y]
    OBVIOUS
  <2>3. Cardinality(before[x]) <= Cardinality(before[y])
        /\ (Cardinality(before[y]) = Cardinality(before[x]) => before[y] = before[x])
    BY <1>2, <2>1, FS_Subset
  <2>4. Cardinality(before[x]) \in Nat /\ Cardinality(before[y]) \in Nat
    BY <1>2
  <2>5. QED
    BY <2>2, <2>3, <2>4
<1>5. \A x, y \in S : Cardinality(before[x]) = Cardinality(before[y]) => x = y
  <2> SUFFICES ASSUME NEW x \in S, NEW y \in S, x # y
               PROVE  Cardinality(before[x]) # Cardinality(before[y])
    OBVIOUS
  <2>1. Cardinality(before[x]) \in Nat /\ Cardinality(before[y]) \in Nat
    BY <1>2
  <2>2. CASE x \in before[y]
    <3>1. Cardinality(before[x]) < Cardinality(before[y])
      BY <1>4, <2>2
    <3>2. QED
      BY <2>1, <3>1
  <2>3. CASE y \in before[x]
    <3>1. Cardinality(before[y]) < Cardinality(before[x])
      BY <1>4, <2>3
    <3>2. QED
      BY <2>1, <3>1
  <2>4. QED
    BY <2>2, <2>3
<1>6. \A x, y \in S : place[x] = place[y] => x = y
  <2> SUFFICES ASSUME NEW x \in S, NEW y \in S, place[x] = place[y] PROVE x = y
    OBVIOUS
  <2>1. Cardinality(before[x]) = Cardinality(before[y])
    BY <1>2
  <2>2. QED
    BY <1>5, <2>1
<1>7. \A n \in 1 .. c : \E x \in S : place[x] = n
  <2>1. IsFiniteSet(1 .. c) /\ Cardinality(1 .. c) = c
    BY <1>1, Interval
  <2>2. PICK places : places = 1 .. c
    OBVIOUS
  <2>3. IsFiniteSet(places) /\ Cardinality(S) = Cardinality(places) /\ place \in [S -> places]
    BY <1>3, <2>1, <2>2
  <2> HIDE DEF place, c
  <2>4. \A n \in places : \E x \in S : place[x] = n
    BY <1>6, <2>3, Reaches
  <2>5. QED
    BY <2>2, <2>4
<1>8. \A n \in 1 .. c : /\ Arranged(S, before)[n] \in S
                        /\ place[Arranged(S, before)[n]] = n
  <2> SUFFICES ASSUME NEW n \in 1 .. c
               PROVE  /\ Arranged(S, before)[n] \in S
                      /\ place[Arranged(S, before)[n]] = n
    OBVIOUS
  <2>1. PICK x \in S : place[x] = n
    BY <1>7
  <2>2. Cardinality(before[x]) = n - 1
    BY <1>2, <2>1
  <2>3. Arranged(S, before)[n] = CHOOSE y \in S : Cardinality(before[y]) = n - 1
    BY DEF Arranged
  <2>4. /\ Arranged(S, before)[n] \in S
        /\ Cardinality(before[Arranged(S, before)[n]]) = n - 1
    BY <2>2, <2>3
  <2>5. QED
    BY <2>4
<1>9. Arranged(S, before) = [n \in 1 .. c |-> Arranged(S, before)[n]]
  BY DEF Arranged
<1>10. Arranged(S, before) \in [1 .. c -> S]
  BY <1>8, <1>9
<1>11. \A m, n \in 1 .. c : Arranged(S, before)[m] = Arranged(S, before)[n] => m = n
  BY <1>8
<1>12. \A x \in S : \E n \in 1 .. c : Arranged(S, before)[n] = x
  <2> SUFFICES ASSUME NEW x \in S PROVE \E n \in 1 .. c : Arranged(S, before)[n] = x
    OBVIOUS
  <2> HIDE DEF place, c
  <2>1. place[x] \in 1 .. c
    BY <1>3
  <2>2. Arranged(S, before)[place[x]] = x
    BY <1>6, <1>8, <2>1
  <2>3. QED
    BY <2>1, <2>2
<1>13. \A n \in 1 .. c : Cardinality(before[Arranged(S, before)[n]]) = n - 1
  <2> SUFFICES ASSUME NEW n \in 1 .. c
               PROVE  Cardinality(before[Arranged(S, before)[n]]) = n - 1
    OBVIOUS
  <2> PICK x : x = Arranged(S, before)[n]
    OBVIOUS
  <2>1. x \in S /\ place[x] = n
    BY <1>8
  <2>2. Cardinality(before[x]) \in Nat /\ place[x] = Cardinality(before[x]) + 1
    BY <1>2, <2>1
  <2>3. QED
    BY <2>1, <2>2
<1> HIDE DEF place
<1>14. QED
  BY <1>1, <1>10, <1>11, <1>12, <1>13 DEF Lists

LEMMA AscendingLists ==
  ASSUME NEW S \in SUBSET Int, IsFiniteSet(S)
  PROVE  /\ Lists(Ascending(S), S)
         /\ \A m, n \in 1 .. Cardinality(S) : m < n => Ascending(S)[m] < Ascending(S)[n]
         /\ \A n \in 1 .. Cardinality(S) :
              Cardinality({j \in S : j < Ascending(S)[n]}) = n - 1
<1> DEFINE before == [k \in S |-> {j \in S : j < k}]
<1>1. before \in [S -> SUBSET S]
  OBVIOUS
<1>2. \A x \in S : x \notin before[x]
  OBVIOUS
<1>3. \A x, y \in S : x \in before[y] => before[x] \subseteq before[y]
  <2> SUFFICES ASSUME NEW x \in S, NEW y \in S, x \in before[y], NEW z \in S, z < x
               PROVE  z < y
    OBVIOUS
  <2>1. x < y /\ x \in Int /\ y \in Int /\ z \in Int
    OBVIOUS
  <2>2. QED
    BY <2>1
<1>4. \A x, y \in S : x = y \/ x \in before[y] \/ y \in before[x]
  OBVIOUS
<1>5. Ascending(S) = Arranged(S, before)
  BY DEF Ascending
<1> HIDE DEF before
<1>6. Orders(before, S)
  BY <1>1, <1>2, <1>3, <1>4 DEF Orders
<1> PICK c : c = Cardinality(S)
  OBVIOUS
<1> PICK a : a = Ascending(S)
  OBVIOUS
<1>7. Lists(a, S) /\ \A n \in 1 .. c : Cardinality(before[a[n]]) = n - 1
  BY <1>5, <1>6, ArrangedLists
<1>8. c \in Nat /\ \A n \in 1 .. c : a[n] \in S
  BY <1>7 DEF Lists
<1>9. \A n \in 1 .. c : before[a[n]] = {j \in S : j < a[n]}
  BY <1>8 DEF before
<1>10. ASSUME NEW m \in 1 .. c, NEW n \in 1 .. c, m < n PROVE a[m] < a[n]
  <2>1. PICK A : A = {j \in S : j < a[m]}
    OBVIOUS
  <2>2. PICK B : B = {j \in S : j < a[n]}
    OBVIOUS
  <2>3. Cardinality(A) = m - 1 /\ Cardinality(B) = n - 1
    BY <1>7, <1>9, <2>1, <2>2
  <2>4. a[m] \in Int /\ a[n] \in Int
    BY <1>8
  <2>5. ASSUME ~(a[m] < a[n]) PROVE FALSE
    <3>1. A \in SUBSET S /\ B \in SUBSET A
      <4>1. ASSUME NEW j \in B PROVE j \in A
        <5>1. j \in S /\ j < a[n] /\ j \in Int
          BY <2>2
        <5>2. j < a[m]
          BY <2>4, <2>5, <5>1
        <5>3. QED
          BY <2>1, <5>1, <5>2
      <4>2. A \subseteq S
        BY <2>1
      <4>3. QED
        BY <4>1, <4>2
    <3>2. IsFiniteSet(A)
      BY <3>1, FS_Subset
    <3>3. Cardinality(B) <= Cardinality(A)
      BY <3>1, <3>2, FS_Subset
    <3>4. QED
      BY <1>8, <1>10, <2>3, <3>3
  <2>6. QED
    BY <2>5
<1>11. QED
  BY <1>7, <1>9, <1>10

\* The ascending list of a set is the only one.
LEMMA AscendingOnly ==
  ASSUME NEW S \in SUBSET Int, NEW f, Lists(f, S),
         \A m, n \in 1 .. Cardinality(S) : m < n => f[m] < f[n]
  PROVE  f = Ascending(S)
<1> PICK c : c = Cardinality(S)
  OBVIOUS
<1> PICK a : a = Ascending(S)
  OBVIOUS
<1>1. /\ IsFiniteSet(S) /\ c \in Nat /\ f \in [1 .. c -> S]
      /\ \A m, n \in 1 .. c : f[m] = f[n] => m = n
      /\ \A x \in S : \E n \in 1 .. c : f[n] = x
  BY DEF Lists
<1>2. /\ a \in [1 .. c -> S]
      /\ \A n \in 1 .. c : Cardinality({j \in S : j < a[n]}) = n - 1
  BY <1>1, AscendingLists DEF Lists
<1>3. ASSUME NEW n \in 1 .. c PROVE Cardinality({j \in S : j < f[n]}) = n - 1
  <2>1. PICK N : N = 1 .. (n - 1)
    OBVIOUS
  <2>2. PICK B : B = {j \in S : j < f[n]}
    OBVIOUS
  <2>3. IsFiniteSet(N) /\ Cardinality(N) = n - 1
    <3>1. PICK k : k = n - 1
      OBVIOUS
    <3>2. k \in Nat
      BY <1>1, <3>1
    <3>3. IsFiniteSet(1 .. k) /\ Cardinality(1 .. k) = k
      BY <3>2, Interval
    <3>4. QED
      BY <2>1, <3>1, <3>3
  <2>4. PICK g : g = [m \in N |-> f[m]]
    OBVIOUS
  <2>5. ASSUME NEW m \in N PROVE m \in 1 .. c /\ m < n /\ f[m] \in B
    BY <1>1, <2>1, <2>2
  <2>6. g \in [N -> B] /\ \A m \in N : g[m] = f[m]
    BY <2>4, <2>5
  <2>7. \A x, y \in N : g[x] = g[y] => x = y
    BY <1>1, <2>5, <2>6
  <2>8. ASSUME NEW b \in B PROVE \E m \in N : g[m] = b
    <3>1. b \in S /\ b < f[n]
      BY <2>2
    <3>2. PICK m \in 1 .. c : f[m] = b
      BY <1>1, <3>1
    <3>3. b \in Int /\ f[n] \in Int
      BY <1>1, <3>1
    <3>4. n < m => f[n] < f[m]
      OBVIOUS
    <3>5. ~(n < m) /\ n # m
      BY <3>1, <3>2, <3>3, <3>4
    <3>6. m \in N
      BY <1>1, <2>1, <3>5
    <3>7. QED
      BY <2>6, <3>2, <3>6
  <2>9. \A b \in B : \E m \in N : g[m] = b
    BY <2>8
  <2>10. Cardinality(B) = Cardinality(N)
    BY <2>3, <2>6, <2>7, <2>9, SameSize
  <2>11. QED
    BY <2>2, <2>3, <2>10
<1>4. ASSUME NEW n \in 1 .. c PROVE f[n] = a[n]
  <2>1. PICK k \in 1 .. c : f[k] = a[n]
    BY <1>1, <1>2
  <2>2. k - 1 = n - 1
    BY <1>2, <1>3, <2>1
  <2>3. QED
    BY <1>1, <2>1, <2>2
<1>5. QED
  BY <1>1, <1>2, <1>4

LEMMA Listing ==
  ASSUME NEW S, IsFiniteSet(S)
  PROVE  \E f : Lists(f, S)
<1> PICK c : c = Cardinality(S)
  OBVIOUS
<1>1. c \in Nat /\ ExistsBijection(1 .. c, S)
  BY FS_CardinalityType
<1>2. PICK places : places = 1 .. c
  OBVIOUS
<1>3. PICK f : f \in Bijection(places, S)
  BY <1>1, <1>2, Fun_ExistsBij
<1>4. /\ f \in [places -> S]
      /\ \A m, n \in places : f[m] = f[n] => m = n
      /\ \A x \in S : \E n \in places : f[n] = x
  BY <1>3, Fun_BijectionProperties
<1>5. Lists(f, S)
  BY <1>1, <1>2, <1>4 DEF Lists
<1>6. QED
  BY <1>5

\* A sequence given by its elements.
LEMMA SequenceOf ==
  ASSUME NEW T, NEW n \in Nat, NEW s \in [1 .. n -> T]
  PROVE  s \in Seq(T) /\ Len(s) = n /\ DOMAIN s = 1 .. n
  OBVIOUS

LEMMA DomainOf ==
  ASSUME NEW T, NEW s \in Seq(T)
  PROVE  /\ Len(s) \in Nat /\ DOMAIN s = 1 .. Len(s) /\ s \in [1 .. Len(s) -> T]
         /\ IsFiniteSet(DOMAIN s) /\ Cardinality(DOMAIN s) = Len(s)
<1>1. Len(s) \in Nat /\ DOMAIN s = 1 .. Len(s) /\ s \in [1 .. Len(s) -> T]
  OBVIOUS
<1>2. IsFiniteSet(1 .. Len(s)) /\ Cardinality(1 .. Len(s)) = Len(s)
  BY <1>1, Interval
<1>3. QED
  BY <1>1, <1>2

LEMMA PickIs ==
  ASSUME NEW s, NEW places \in SUBSET Int, IsFiniteSet(places)
  PROVE  GroupOf(Pick(s, places), s, places)
<1>1. Lists(Ascending(places), places)
  BY AscendingLists
<1>2. DOMAIN Ascending(places) = 1 .. Cardinality(places)
  BY <1>1 DEF Lists
<1>3. Pick(s, places) = [n \in DOMAIN Ascending(places) |-> s[Ascending(places)[n]]]
  BY DEF Pick
<1>4. QED
  BY <1>1, <1>2, <1>3 DEF GroupOf

LEMMA SortedIs ==
  ASSUME NEW T, NEW s \in Seq(T), NEW key \in [DOMAIN s -> Int]
  PROVE  GroupOf(Sorted(s, key), s, DOMAIN s)
<1> DEFINE D == DOMAIN s
<1> DEFINE Precedes(j, i) == key[j] < key[i] \/ (key[j] = key[i] /\ j < i)
<1> DEFINE before == [i \in D |-> {j \in D : Precedes(j, i)}]
<1>1. D \subseteq Int /\ IsFiniteSet(D) /\ Cardinality(D) = Len(s)
  BY DomainOf
<1>2. key \in [D -> Int]
  OBVIOUS
<1>3. Orders(before, D)
  <2> HIDE DEF D
  <2>1. before \in [D -> SUBSET D]
    OBVIOUS
  <2>2. \A i \in D : i \notin before[i]
    BY <1>1, <1>2
  <2>3. \A i, j \in D : i \in before[j] => before[i] \subseteq before[j]
    <3> SUFFICES ASSUME NEW i \in D, NEW j \in D, i \in before[j], NEW k \in D, k \in before[i]
                 PROVE  k \in before[j]
      BY <2>1
    <3>1. Precedes(i, j) /\ Precedes(k, i)
      OBVIOUS
    <3>2. i \in Int /\ j \in Int /\ k \in Int
          /\ key[i] \in Int /\ key[j] \in Int /\ key[k] \in Int
      BY <1>1, <1>2
    <3>3. Precedes(k, j)
      BY <3>1, <3>2
    <3>4. QED
      BY <3>3
  <2>4. \A i, j \in D : i = j \/ i \in before[j] \/ j \in before[i]
    <3> SUFFICES ASSUME NEW i \in D, NEW j \in D
                 PROVE  i = j \/ Precedes(i, j) \/ Precedes(j, i)
      OBVIOUS
    <3>1. i \in Int /\ j \in Int /\ key[i] \in Int /\ key[j] \in Int
      BY <1>1, <1>2
    <3>2. QED
      BY <3>1
  <2> HIDE DEF before
  <2>5. QED
    BY <2>1, <2>2, <2>3, <2>4 DEF Orders
<1>4. Lists(Arranged(D, before), D)
  <2> HIDE DEF before, D
  <2>1. QED
    BY <1>1, <1>3, ArrangedLists
<1>5. Sorted(s, key) = [n \in DOMAIN Arranged(D, before) |-> s[Arranged(D, before)[n]]]
  BY DEF Sorted
<1> HIDE DEF before, D
<1>6. DOMAIN Arranged(D, before) = 1 .. Cardinality(D)
  BY <1>4 DEF Lists
<1>7. QED
  BY <1>4, <1>5, <1>6 DEF D, GroupOf

\* However they are listed, the elements of a part are as many.
LEMMA PartListed ==
  ASSUME NEW S, NEW f, Lists(f, S), NEW A \in SUBSET S
  PROVE  Cardinality({n \in 1 .. Cardinality(S) : f[n] \in A}) = Cardinality(A)
<1> PICK c : c = Cardinality(S)
  OBVIOUS
<1>1. /\ c \in Nat /\ f \in [1 .. c -> S]
      /\ \A m, n \in 1 .. c : f[m] = f[n] => m = n
      /\ \A x \in S : \E n \in 1 .. c : f[n] = x
  BY DEF Lists
<1> DEFINE N == {n \in 1 .. c : f[n] \in A}
<1> DEFINE g == [n \in N |-> f[n]]
<1>2. IsFiniteSet(N)
  <2>1. IsFiniteSet(1 .. c)
    BY <1>1, Interval
  <2>2. N \in SUBSET (1 .. c)
    OBVIOUS
  <2>3. QED
    BY <2>1, <2>2, FS_Subset
<1>3. g \in [N -> A]
  OBVIOUS
<1>4. \A m, n \in N : g[m] = g[n] => m = n
  BY <1>1
<1>5. \A x \in A : \E n \in N : g[n] = x
  BY <1>1
<1> HIDE DEF N, g
<1>6. Cardinality(A) = Cardinality(N)
  BY <1>2, <1>3, <1>4, <1>5, SameSize
<1>7. QED
  BY <1>6 DEF N

\* The places of a value, and the places where a member of A stands.
At(I, key, v) == {i \in I : key[i] = v}
Within(s, I, A) == {i \in I : s[i] \in A}

\* Numbers that count the parts of a set add up to its size.
LEMMA TotalOfParts ==
  ASSUME NEW I, IsFiniteSet(I), NEW f, NEW key \in [I -> DOMAIN f],
         \A x \in DOMAIN f : f[x] = Cardinality(At(I, key, x))
  PROVE  Total(f) = Cardinality(I)
<1> PICK D : D = DOMAIN f
  OBVIOUS
<1> DEFINE P(x) == {i \in I : key[i] = x}
<1>0. \A x \in D : f[x] = Cardinality(P(x))
  BY DEF At
<1> DEFINE b == [x \in D |-> CHOOSE g : Lists(g, P(x))]
<1>1. \A x \in D : Lists(b[x], P(x))
  <2> SUFFICES ASSUME NEW x \in D PROVE Lists(b[x], P(x))
    OBVIOUS
  <2>1. P(x) \in SUBSET I
    OBVIOUS
  <2> HIDE DEF P
  <2>2. IsFiniteSet(P(x))
    BY <2>1, FS_Subset
  <2>3. \E g : Lists(g, P(x))
    BY <2>2, Listing
  <2>4. QED
    BY <2>3
<1>2. \A x \in D : /\ b[x] \in [1 .. f[x] -> P(x)]
                   /\ \A k, l \in 1 .. f[x] : b[x][k] = b[x][l] => k = l
                   /\ \A i \in P(x) : \E k \in 1 .. f[x] : b[x][k] = i
  <2> SUFFICES ASSUME NEW x \in D
               PROVE  /\ b[x] \in [1 .. f[x] -> P(x)]
                      /\ \A k, l \in 1 .. f[x] : b[x][k] = b[x][l] => k = l
                      /\ \A i \in P(x) : \E k \in 1 .. f[x] : b[x][k] = i
    OBVIOUS
  <2>1. Lists(b[x], P(x)) /\ f[x] = Cardinality(P(x))
    BY <1>0, <1>1
  <2> HIDE DEF b, P
  <2>2. QED
    BY <2>1 DEF Lists
<1> HIDE DEF b
<1> DEFINE Pairs == UNION {{x} \X (1 .. f[x]) : x \in D}
<1> DEFINE h == [i \in I |-> <<key[i], CHOOSE k \in 1 .. f[key[i]] : b[key[i]][k] = i>>]
<1>3. \A i \in I : /\ key[i] \in D
                   /\ h[i][1] = key[i] /\ h[i][2] \in 1 .. f[key[i]]
                   /\ b[key[i]][h[i][2]] = i
  <2> SUFFICES ASSUME NEW i \in I
               PROVE  /\ key[i] \in D
                      /\ h[i][1] = key[i] /\ h[i][2] \in 1 .. f[key[i]]
                      /\ b[key[i]][h[i][2]] = i
    OBVIOUS
  <2>1. key[i] \in D
    OBVIOUS
  <2>2. \E k \in 1 .. f[key[i]] : b[key[i]][k] = i
    BY <1>2, <2>1
  <2>3. h[i] = <<key[i], CHOOSE k \in 1 .. f[key[i]] : b[key[i]][k] = i>>
    OBVIOUS
  <2>4. QED
    BY <2>1, <2>2, <2>3
<1>4. h \in [I -> Pairs]
  <2> SUFFICES ASSUME NEW i \in I PROVE h[i] \in Pairs
    OBVIOUS
  <2>1. h[i] = <<h[i][1], h[i][2]>>
    OBVIOUS
  <2>2. h[i] \in {key[i]} \X (1 .. f[key[i]])
    BY <1>3, <2>1
  <2>3. key[i] \in D
    BY <1>3
  <2> HIDE DEF h
  <2>4. QED
    BY <2>2, <2>3
<1> HIDE DEF h
<1>5. \A i, j \in I : h[i] = h[j] => i = j
  BY <1>3
<1>6. \A p \in Pairs : \E i \in I : h[i] = p
  <2> SUFFICES ASSUME NEW p \in Pairs PROVE \E i \in I : h[i] = p
    OBVIOUS
  <2>1. PICK x \in D : p \in {x} \X (1 .. f[x])
    OBVIOUS
  <2>2. PICK k \in 1 .. f[x] : p = <<x, k>>
    BY <2>1
  <2>3. b[x] \in [1 .. f[x] -> P(x)]
    BY <1>2
  <2>4. b[x][k] \in P(x)
    BY <2>2, <2>3
  <2>5. PICK i \in I : i = b[x][k] /\ key[i] = x
    BY <2>4
  <2>6. h[i][1] = x /\ h[i][2] \in 1 .. f[x] /\ b[x][h[i][2]] = i
    BY <1>3, <2>5
  <2>7. h[i][2] = k
    BY <1>2, <2>5, <2>6
  <2>8. h[i] \in Pairs
    BY <1>4
  <2>9. PICK y \in D : h[i] \in {y} \X (1 .. f[y])
    BY <2>8
  <2>10. h[i] = <<h[i][1], h[i][2]>>
    BY <2>9
  <2>11. QED
    BY <2>2, <2>6, <2>7, <2>10
<1>7. Total(f) = Cardinality(Pairs)
  BY DEF Total
<1> HIDE DEF Pairs
<1>8. QED
  BY <1>4, <1>5, <1>6, <1>7, SameSize

\* A set of natural numbers below a bound has a greatest element: the one
\* from which the bound is least far.
LEMMA Greatest ==
  ASSUME NEW I \in SUBSET Nat, NEW n \in Nat, \A i \in I : i <= n, I # {}
  PROVE  \E i \in I : \A j \in I : i >= j
<1> DEFINE J == {n - i : i \in I}
<1>1. J \in SUBSET Nat /\ J # {}
  <2>1. \A i \in I : n - i \in Nat
    OBVIOUS
  <2>2. QED
    BY <2>1
<1> HIDE DEF J
<1>2. PICK m \in J : \A k \in J : ~(<<k, m>> \in OpToRel(<, Nat))
  BY <1>1, WFMin, NatLessThanWellFounded
<1>3. \A k \in J : ~(k < m)
  BY <1>1, <1>2 DEF OpToRel
<1>4. PICK i \in I : m = n - i
  BY DEF J
<1>5. ASSUME NEW j \in I PROVE i >= j
  <2>1. n - j \in J
    BY DEF J
  <2>2. ~(n - j < n - i)
    BY <1>3, <1>4, <2>1
  <2>3. i \in Nat /\ j \in Nat
    OBVIOUS
  <2>4. QED
    BY <2>2, <2>3
<1>6. QED
  BY <1>5

-----------------------------------------------------------------------------
(***************************************************************************)
(* The inductive invariant. The objects first: only an object of a meter   *)
(* task loses its sections.                                                *)
(***************************************************************************)
Words ==
  STRING \cup {"host", "user", "status", "type", "severity", "time", "response",
               "user_statistics", "vm_statistics", "cpu", "mem", "swap", "partition"}

Objects == [task : Tasks, content : Seq(Words), nobody : BOOLEAN]

ObjectsKept ==
  /\ objects \in Seq(Objects)
  /\ \A i \in DOMAIN objects :
       IF objects[i].nobody THEN Info[objects[i].task].type = "meter"
       ELSE objects[i].content = Content(objects[i].task)

\* The language of a type is that of its latest object.
TranslationKept ==
  /\ translation \in [Types -> {Null, "Chinese", "English"}]
  /\ \A i \in DOMAIN objects : translation[Info[objects[i].task].type] \in LanguagesFrom(i)

\* Alarms as zeus gives them, and what may be left of one: its type rewritten.
Given(s) == s \in Seq(Alarms) /\ \A i \in DOMAIN s : s[i].severity \notin Statuses

Alike(a, b) ==
  /\ a.resource = b.resource /\ a.severity = b.severity /\ a.status = b.status
  /\ a.time = b.time /\ a.stamp = b.stamp
  /\ StartsWithV(a.type) = StartsWithV(b.type)

Left == [resource : DOMAIN Machine, type : STRING \cup {"vm", "physical"}, severity : STRING,
         status : STRING, time : {"first", "middle", "end"}, stamp : {"text"}]

Permutes(s, given) ==
  /\ s \in Seq(Left) /\ Len(s) = Len(given)
  /\ \E p \in [DOMAIN s -> DOMAIN given] :
       /\ \A m, n \in DOMAIN s : p[m] = p[n] => m = n
       /\ \A n \in DOMAIN s : Alike(s[n], given[p[n]])

ChartTells(c, chart, given) ==
  /\ c = "type" => TypesTell(chart, given)
  /\ c = "status" => StatusesTell(chart, Rows(given), given)
  /\ c = "user" => UsersTell(chart, given)
  /\ c = "time" => TimesTell(chart, given)
  /\ c = "host" => HostsTell(chart, given)

\* A run x that works with the object o.
AlarmFailure(x, o) ==
  \/ ~CanStart(o.task)
  \/ ~x.answered
  \/ \E i \in DOMAIN x.work.given :
       \/ "status" \in ToSet(o.content) /\ x.work.given[i].status \notin Statuses
       \/ "severity" \in ToSet(o.content) /\ x.work.given[i].severity \notin Severities

AlarmCharts(x, o) ==
  LET w == x.work IN
  /\ Given(w.given) /\ w.given # <<>> /\ Permutes(w.alarms, w.given) /\ w.rows = Rows(w.given)
  /\ w.left \in Seq(Words) /\ ToSet(w.left) \subseteq ToSet(o.content)
  /\ ToSet(o.content) \cap ChartOpts \subseteq DOMAIN w.charts \cup ToSet(w.left)
  /\ \A c \in DOMAIN w.charts : c \in ChartOpts /\ ChartTells(c, w.charts[c], w.given)
  /\ DOMAIN x.drawn = {"Contents", "name", "summary"} /\ x.drawn["summary"] = Rows(w.given)

AlarmFiled(x, o) ==
  LET given == x.work.given IN
  /\ Given(given)
  /\ x.drawn["summary"] = Rows(given)
  /\ \A c \in DOMAIN x.drawn : ChartTells(c, x.drawn[c], given)
  /\ given # <<>> => ToSet(o.content) \cap ChartOpts \subseteq DOMAIN x.drawn

AlarmRun(x, o) ==
  /\ x.stage \in {"fetch", "table", "chart", "filed", "failed"}
  /\ x.stage \in {"fetch", "table"} => DOMAIN x.drawn = {}
  /\ x.stage = "table" => Given(x.work.given) /\ x.work = Fetched(x.work.given)
  /\ x.stage = "chart" => AlarmCharts(x, o)
  /\ x.stage = "filed" => AlarmFiled(x, o)
  /\ x.stage = "failed" => AlarmFailure(x, o)

MeterRun(x, o) ==
  LET asked == ToSet(Content(o.task))
      d == DOMAIN x.drawn
  IN
  /\ x.stage \in {"fetch", "users", "user_vms", "vms", "filed", "failed"}
  /\ x.stage = "failed" => ~CanStart(o.task)
  /\ x.stage \notin {"fetch", "failed"} => x.work \in MeterAnswers \cup {<<>>}
  /\ x.stage \notin {"filed", "failed"} =>
       d \subseteq {"Contents", "name", "user_statistics", "User VM Creation"}
  /\ x.stage = "user_vms" => "user_statistics" \in d
  /\ x.stage \in {"vms", "filed"} /\ ~o.nobody /\ "user_statistics" \in asked =>
       "user_statistics" \in d
  /\ x.stage = "filed" /\ ~o.nobody /\ "vm_statistics" \in asked /\ x.work # <<>> =>
       "vm_statistics" \in d
  /\ x.stage = "filed" /\ "vm_statistics" \in d =>
       /\ x.drawn["vm_statistics"] = StateDistribution(x.work)
       /\ x.drawn["flavors"] = FlavorDistribution(x.work)
       /\ "days" \in d => x.drawn["days"] = TimeDistribution(x.work)

Sections(o) == ToSet(o.content) \cap {"cpu", "mem", "swap", "partition"}

Shows(x, server, parts) == \A m \in parts : Titling(server, m) \in DOMAIN x.drawn

MonitorRun(x, o) ==
  LET metrics == ToSet(o.content) \cap {"cpu", "mem", "swap"}
      server == x.work.server
  IN
  /\ x.stage \in {"fetch", "details", "filed", "failed"}
  /\ x.stage \in {"fetch", "details"} =>
       /\ server \in {"physical", "virtual"}
       /\ x.answered /\ server = "virtual" => Shows(x, "physical", Sections(o))
  /\ x.stage = "details" =>
       /\ x.work.answer \in MonitorAnswers /\ x.work.left \subseteq metrics
       /\ Shows(x, server, metrics \ x.work.left)
  /\ x.stage = "filed" /\ x.answered =>
       Shows(x, "physical", Sections(o)) /\ Shows(x, "virtual", Sections(o))
  /\ x.stage = "failed" =>
       \/ ~CanStart(o.task)
       \/ ~x.answered
       \/ \E m \in metrics : Wanting(x.work.answer, m)

RunKept(x, o) ==
  /\ x.answered \in BOOLEAN
  /\ x.stage # "failed" => CanStart(o.task)
  /\ Info[o.task].type = "alarm" => AlarmRun(x, o)
  /\ Info[o.task].type = "meter" => MeterRun(x, o)
  /\ Info[o.task].type = "monitor" => MonitorRun(x, o)

Inv ==
  /\ ObjectsKept
  /\ TranslationKept
  /\ DOMAIN run = Runs
  /\ \A r \in Runs : run[r] # Null =>
       /\ run[r].object \in DOMAIN objects
       /\ run[r].langs \subseteq LanguagesFrom(run[r].object)
       /\ RunKept(run[r], objects[run[r].object])

-----------------------------------------------------------------------------
(* Objects are built, runs begin.                                          *)

LEMMA LanguageOfTask ==
  ASSUME NEW t \in Tasks
  PROVE  /\ Info[t].type \in Types /\ Info[t].language \in {"Chinese", "English"}
         /\ Info[t].content \in Seq(STRING)
<1>1. Info[t] \in [type : Types, language : {"Chinese", "English"},
                   period : {"day", "week", "month", "year", "once"},
                   filetype : {"pdf", "excel"},
                   hosts : SUBSET Nat, content : Seq(STRING)]
  BY InfoAssumption
<1>2. QED
  BY <1>1

LEMMA Tuples ==
  ASSUME NEW S, NEW a \in S, NEW b \in S, NEW c \in S, NEW d \in S, NEW e \in S, NEW f \in S,
         NEW g \in S
  PROVE  <<a, b, c, d, e, f, g>> \in Seq(S) /\ <<a, b, c, d>> \in Seq(S) /\ <<a, b>> \in Seq(S)
  OBVIOUS

LEMMA ContentType ==
  ASSUME NEW t \in Tasks
  PROVE  Content(t) \in Seq(Words)
<1>1. Info[t].type \in Types /\ Info[t].content \in Seq(STRING)
  BY LanguageOfTask
<1> PICK W : W = Words
  OBVIOUS
<1>2. /\ "host" \in W /\ "user" \in W /\ "status" \in W /\ "type" \in W /\ "severity" \in W
      /\ "time" \in W /\ "response" \in W /\ "user_statistics" \in W /\ "vm_statistics" \in W
      /\ "cpu" \in W /\ "mem" \in W /\ "swap" \in W /\ "partition" \in W
  BY DEF Words
<1>3. /\ <<"host", "user", "status", "type", "severity", "time", "response">> \in Seq(W)
      /\ <<"user_statistics", "vm_statistics">> \in Seq(W)
      /\ <<"cpu", "mem", "swap", "partition">> \in Seq(W)
  BY <1>2, Tuples
<1>4. Defaults[Info[t].type] \in Seq(W)
  <2>1. /\ Defaults["alarm"] =
             <<"host", "user", "status", "type", "severity", "time", "response">>
        /\ Defaults["meter"] = <<"user_statistics", "vm_statistics">>
        /\ Defaults["monitor"] = <<"cpu", "mem", "swap", "partition">>
    BY DEF Defaults
  <2>2. Info[t].type = "alarm" \/ Info[t].type = "meter" \/ Info[t].type = "monitor"
    BY <1>1 DEF Types
  <2>3. CASE Info[t].type = "alarm"
    BY <1>3, <2>1, <2>3
  <2>4. CASE Info[t].type = "meter"
    BY <1>3, <2>1, <2>4
  <2>5. CASE Info[t].type = "monitor"
    BY <1>3, <2>1, <2>5
  <2>6. QED
    BY <2>2, <2>3, <2>4, <2>5
<1>5. Info[t].content \in Seq(W)
  <2> PICK s : s = Info[t].content
    OBVIOUS
  <2>1. Len(s) \in Nat /\ s \in [1 .. Len(s) -> STRING]
    BY <1>1
  <2>2. ASSUME NEW i \in 1 .. Len(s) PROVE s[i] \in W
    <3>1. s[i] \in STRING
      BY <2>1
    <3>2. QED
      BY <3>1 DEF Words
  <2>3. s \in [1 .. Len(s) -> W]
    BY <2>1, <2>2
  <2>4. QED
    BY <2>1, <2>3
<1>6. QED
  BY <1>4, <1>5 DEF Content

LEMMA InvHolds ==
  TaskInit => Inv
<1> SUFFICES ASSUME TaskInit PROVE Inv
  OBVIOUS
<1>1. objects = <<>> /\ translation = [ty \in Types |-> Null] /\ run = [r \in Runs |-> Null]
  BY DEF TaskInit
<1>2. ObjectsKept
  BY <1>1 DEF ObjectsKept
<1>3. TranslationKept
  BY <1>1 DEF TranslationKept
<1>4. QED
  BY <1>1, <1>2, <1>3 DEF Inv

LEMMA ObjectTask ==
  ASSUME Inv, NEW i \in DOMAIN objects
  PROVE  /\ objects[i].task \in Tasks
         /\ objects[i].nobody \in BOOLEAN
         /\ objects[i].content \in Seq(Words)
         /\ ~objects[i].nobody => objects[i].content = Content(objects[i].task)
         /\ objects[i].nobody => Info[objects[i].task].type = "meter"
         /\ translation[Info[objects[i].task].type] \in LanguagesFrom(i)
<1>1. objects[i] \in Objects
  BY DEF Inv, ObjectsKept
<1>2. QED
  BY <1>1 DEF Inv, ObjectsKept, TranslationKept, Objects

LEMMA BuildKeeps ==
  ASSUME Inv, NEW t \in Tasks, Build(t)
  PROVE  Inv'
<1> PICK o : o = [task |-> t, content |-> Content(t), nobody |-> FALSE]
  OBVIOUS
<1>1. /\ objects' = Append(objects, o) /\ run' = run
      /\ translation' = [translation EXCEPT ![Info[t].type] = Info[t].language]
  BY DEF Build, Translated
<1>2. o \in Objects
  BY ContentType DEF Objects
<1>3. objects \in Seq(Objects)
  BY DEF Inv, ObjectsKept
<1>4. /\ objects' \in Seq(Objects)
      /\ DOMAIN objects' = DOMAIN objects \cup {Len(objects) + 1}
      /\ \A i \in DOMAIN objects : objects'[i] = objects[i]
      /\ objects'[Len(objects) + 1] = o
  BY <1>1, <1>2, <1>3
<1>5. o.task = t /\ o.content = Content(t) /\ ~o.nobody
  OBVIOUS
<1>6. ObjectsKept'
  <2> SUFFICES ASSUME NEW i \in DOMAIN objects'
               PROVE  IF objects'[i].nobody THEN Info[objects'[i].task].type = "meter"
                      ELSE objects'[i].content = Content(objects'[i].task)
    BY <1>4 DEF ObjectsKept
  <2>1. CASE i \in DOMAIN objects
    BY <1>4, <2>1 DEF Inv, ObjectsKept
  <2>2. CASE i = Len(objects) + 1
    BY <1>4, <1>5, <2>2
  <2>3. QED
    BY <1>4, <2>1, <2>2
<1>7. Len(objects) \in Nat /\ DOMAIN objects = 1 .. Len(objects)
  BY <1>3
<1>8. ASSUME NEW i \in DOMAIN objects PROVE LanguagesFrom(i) \subseteq LanguagesFrom(i)'
  BY <1>4 DEF LanguagesFrom
<1>9. ASSUME NEW i \in DOMAIN objects', Info[objects'[i].task].type = Info[t].type
      PROVE  Info[t].language \in LanguagesFrom(i)'
  <2>1. Len(objects) + 1 \in DOMAIN objects' /\ Len(objects) + 1 >= i
    BY <1>4, <1>7
  <2>2. objects'[Len(objects) + 1].task = t
    BY <1>4, <1>5
  <2>3. QED
    BY <1>9, <2>1, <2>2 DEF LanguagesFrom
<1>10. TranslationKept'
  <2>1. translation \in [Types -> {Null, "Chinese", "English"}]
    BY DEF Inv, TranslationKept
  <2>2. Info[t].type \in Types /\ translation' \in [Types -> {Null, "Chinese", "English"}]
    BY <1>1, <2>1, LanguageOfTask
  <2>3. ASSUME NEW i \in DOMAIN objects'
        PROVE  translation'[Info[objects'[i].task].type] \in LanguagesFrom(i)'
    <3>1. CASE Info[objects'[i].task].type = Info[t].type
      <4>1. translation'[Info[t].type] = Info[t].language
        BY <1>1, <2>1, <2>2
      <4>2. QED
        BY <1>9, <3>1, <4>1
    <3>2. CASE Info[objects'[i].task].type # Info[t].type
      <4>1. i \in DOMAIN objects /\ objects'[i] = objects[i]
        BY <1>4, <1>5, <3>2
      <4>2. /\ objects[i].task \in Tasks
            /\ translation[Info[objects[i].task].type] \in LanguagesFrom(i)
        BY <4>1, ObjectTask
      <4>3. Info[objects[i].task].type \in Types
        BY <4>2, LanguageOfTask
      <4>4. QED
        BY <1>1, <1>8, <2>1, <3>2, <4>1, <4>2, <4>3
    <3>3. QED
      BY <3>1, <3>2
  <2>4. QED
    BY <2>2, <2>3 DEF TranslationKept
<1>11. ASSUME NEW r \in Runs, run'[r] # Null
       PROVE  /\ run'[r].object \in DOMAIN objects'
              /\ run'[r].langs \subseteq LanguagesFrom(run[r].object)'
              /\ RunKept(run'[r], objects'[run'[r].object])
  <2> PICK i : i = run[r].object
    OBVIOUS
  <2>1. run'[r] = run[r] /\ i \in DOMAIN objects
        /\ run[r].langs \subseteq LanguagesFrom(i) /\ RunKept(run[r], objects[i])
    BY <1>1, <1>11 DEF Inv
  <2>2. objects'[i] = objects[i] /\ i \in DOMAIN objects'
    BY <1>4, <2>1
  <2>3. run[r].langs \subseteq LanguagesFrom(i)'
    BY <1>8, <2>1
  <2>4. i = run'[r].object
    BY <2>1
  <2>5. LanguagesFrom(run[r].object)' = LanguagesFrom(i)'
    BY <2>4 DEF LanguagesFrom
  <2>6. QED
    BY <2>1, <2>2, <2>3, <2>4, <2>5
<1>12. DOMAIN run' = Runs
  BY <1>1 DEF Inv
<1>13. QED
  BY <1>6, <1>10, <1>11, <1>12 DEF Inv

LEMMA ObjectOfTask ==
  ASSUME Inv, NEW t, ObjectOf(t) # 0
  PROVE  ObjectOf(t) \in DOMAIN objects /\ objects[ObjectOf(t)].task = t
<1> DEFINE I == {i \in 1 .. Len(objects) : objects[i].task = t}
<1>1. ObjectOf(t) = IF I # {} THEN Max(I) ELSE 0
  BY DEF ObjectOf, SelectLastInSeq
<1>2. objects \in Seq(Objects)
  BY DEF Inv, ObjectsKept
<1>3. Len(objects) \in Nat /\ DOMAIN objects = 1 .. Len(objects)
  BY <1>2
<1>4. I # {}
  BY <1>1
<1>5. \E i \in I : \A j \in I : i >= j
  <2>1. I \in SUBSET Nat /\ \A i \in I : i <= Len(objects)
    BY <1>3
  <2> HIDE DEF I
  <2>2. QED
    BY <1>3, <1>4, <2>1, Greatest
<1> HIDE DEF I
<1>6. Max(I) \in I
  BY <1>5 DEF Max
<1>7. ObjectOf(t) \in I
  BY <1>1, <1>4, <1>6
<1>8. QED
  BY <1>3, <1>7 DEF I

LEMMA BeginKeeps ==
  ASSUME Inv, NEW r \in Runs, NEW t \in Tasks, Begin(r, t)
  PROVE  Inv'
<1>1. /\ ObjectOf(t) # 0 /\ objects' = objects /\ translation' = translation
      /\ run' = [q \in Runs |-> IF q = r THEN Started(t)
                                ELSE IF Running(q) THEN run[q] ELSE Null]
  BY DEF Begin
<1>2. ObjectOf(t) \in DOMAIN objects /\ objects[ObjectOf(t)].task = t
  BY <1>1, ObjectOfTask
<1> PICK o : o = objects[ObjectOf(t)]
  OBVIOUS
<1> PICK x : x = Started(t)
  OBVIOUS
<1>3. /\ x.object = ObjectOf(t) /\ x.stage = (IF CanStart(t) THEN "fetch" ELSE "failed")
      /\ DOMAIN x.drawn = {} /\ x.langs = {} /\ x.answered = TRUE
      /\ x.work = Idle /\ x.work.server = "physical"
  BY DEF Started, Idle, Nothing
<1>4. RunKept(x, o)
  <2>1. o.task = t
    BY <1>2
  <2>2. CASE CanStart(t)
    <3>1. x.stage = "fetch"
      BY <1>3, <2>2
    <3>2. AlarmRun(x, o)
      BY <1>3, <3>1 DEF AlarmRun
    <3>3. MeterRun(x, o)
      BY <1>3, <3>1 DEF MeterRun
    <3>4. MonitorRun(x, o)
      BY <1>3, <3>1 DEF MonitorRun
    <3>5. QED
      BY <1>3, <2>1, <2>2, <3>2, <3>3, <3>4 DEF RunKept
  <2>3. CASE ~CanStart(t)
    <3>1. x.stage = "failed"
      BY <1>3, <2>3
    <3>2. AlarmRun(x, o)
      BY <2>1, <2>3, <3>1 DEF AlarmRun, AlarmFailure
    <3>3. MeterRun(x, o)
      BY <2>1, <2>3, <3>1 DEF MeterRun
    <3>4. MonitorRun(x, o)
      BY <2>1, <2>3, <3>1 DEF MonitorRun
    <3>5. QED
      BY <1>3, <3>1, <3>2, <3>3, <3>4 DEF RunKept
  <2>4. QED
    BY <2>2, <2>3
<1>5. ASSUME NEW q \in Runs, run'[q] # Null
      PROVE  /\ run'[q].object \in DOMAIN objects'
             /\ run'[q].langs \subseteq LanguagesFrom(run[q].object)'
             /\ RunKept(run'[q], objects'[run'[q].object])
  <2>1. CASE q = r
    <3>1. run'[q] = x
      BY <1>1, <2>1
    <3>2. QED
      BY <1>1, <1>2, <1>3, <1>4, <3>1
  <2>2. CASE q # r
    <3>1. run'[q] = run[q]
      BY <1>1, <1>5, <2>2
    <3>2. LanguagesFrom(run[q].object)' = LanguagesFrom(run[q].object)
      BY <1>1, <3>1 DEF LanguagesFrom
    <3>3. QED
      BY <1>1, <1>5, <3>1, <3>2 DEF Inv
  <2>3. QED
    BY <2>1, <2>2
<1>6. ObjectsKept' /\ TranslationKept'
  BY <1>1 DEF Inv, ObjectsKept, TranslationKept, LanguagesFrom
<1>7. DOMAIN run' = Runs
  BY <1>1
<1>8. QED
  BY <1>5, <1>6, <1>7 DEF Inv

-----------------------------------------------------------------------------
(* The steps of a run.                                                     *)

\* What a step leaves of the run that takes it.
Gone(r, stage, answered, parts, work, x) ==
  /\ run' = [run EXCEPT ![r] = x]
  /\ x.object = run[r].object /\ x.stage = stage /\ x.work = work
  /\ DOMAIN x.drawn = DOMAIN parts \cup DOMAIN run[r].drawn
  /\ \A k \in DOMAIN parts : x.drawn[k] = parts[k]
  /\ \A k \in DOMAIN run[r].drawn \ DOMAIN parts : x.drawn[k] = run[r].drawn[k]
  /\ x.answered \in BOOLEAN
  /\ x.answered <=> (run[r].answered /\ answered)
  /\ x.langs \subseteq LanguagesFrom(run[r].object)

LEMMA RunObject ==
  ASSUME Inv, NEW r \in Runs, run[r] # Null
  PROVE  /\ run[r].object \in DOMAIN objects /\ RunKept(run[r], objects[run[r].object])
         /\ TaskOf(r) = objects[run[r].object].task /\ TaskOf(r) \in Tasks
         /\ ContentOf(r) = ToSet(objects[run[r].object].content)
<1>1. run[r].object \in DOMAIN objects /\ RunKept(run[r], objects[run[r].object])
  BY DEF Inv
<1>2. objects[run[r].object].task \in Tasks
  BY <1>1, ObjectTask
<1>3. QED
  BY <1>1, <1>2 DEF TaskOf, ContentOf

LEMMA GoesIs ==
  ASSUME Inv, NEW r \in Runs, run[r] # Null,
         NEW stage, NEW answered \in BOOLEAN, NEW parts, NEW work,
         Goes(r, stage, answered, parts, work)
  PROVE  \E x : Gone(r, stage, answered, parts, work, x)
<1> PICK type : type = Info[TaskOf(r)].type
  OBVIOUS
<1> PICK langs : langs = IF DOMAIN parts = {} THEN run[r].langs
                         ELSE run[r].langs \cup {translation[type]}
  OBVIOUS
<1> PICK u : u = (run[r].answered /\ answered)
  OBVIOUS
<1> PICK x : x = [object |-> run[r].object, stage |-> stage, work |-> work,
                  drawn |-> Updated(run[r].drawn, parts), answered |-> u, langs |-> langs]
  OBVIOUS
<1>1. /\ run[r].langs \subseteq LanguagesFrom(run[r].object)
      /\ translation[type] \in LanguagesFrom(run[r].object)
  <2>1. run[r].object \in DOMAIN objects /\ TaskOf(r) = objects[run[r].object].task
    BY RunObject
  <2>2. translation[type] \in LanguagesFrom(run[r].object)
    BY <2>1, ObjectTask
  <2>3. QED
    BY <2>2 DEF Inv
<1>2. langs \subseteq LanguagesFrom(run[r].object)
  BY <1>1
<1>3. /\ r \in DOMAIN run
      /\ run' = [run EXCEPT ![r] =
            [object |-> run[r].object, stage |-> stage, work |-> work,
             drawn |-> Updated(run[r].drawn, parts), answered |-> run[r].answered /\ answered,
             langs |-> IF DOMAIN parts = {} THEN run[r].langs
                       ELSE run[r].langs \cup {translation[Info[TaskOf(r)].type]}]]
  BY DEF Goes, Inv
<1>4. run' = [run EXCEPT ![r] = x]
  BY <1>3
<1>5. u \in BOOLEAN
  OBVIOUS
<1>6. /\ x.object = run[r].object /\ x.stage = stage /\ x.work = work
      /\ x.drawn = Updated(run[r].drawn, parts) /\ x.langs = langs /\ x.answered = u
  OBVIOUS
<1>7. /\ DOMAIN x.drawn = DOMAIN parts \cup DOMAIN run[r].drawn
      /\ \A k \in DOMAIN parts : x.drawn[k] = parts[k]
      /\ \A k \in DOMAIN run[r].drawn \ DOMAIN parts : x.drawn[k] = run[r].drawn[k]
  BY <1>6 DEF Updated
<1>8. /\ x.answered \in BOOLEAN /\ (x.answered <=> run[r].answered /\ answered)
      /\ x.langs \subseteq LanguagesFrom(run[r].object)
  BY <1>2, <1>5, <1>6, Zenon
<1>9. Gone(r, stage, answered, parts, work, x)
  BY <1>4, <1>6, <1>7, <1>8, Zenon DEF Gone
<1>10. QED
  BY <1>9, Zenon

LEMMA GoesOn ==
  ASSUME Inv, NEW r \in Runs, run[r] # Null, NEW stage, NEW parts, NEW work,
         Goes(r, stage, TRUE, parts, work)
  PROVE  \E x : Gone(r, stage, TRUE, parts, work, x)
<1>1. TRUE \in BOOLEAN
  OBVIOUS
<1>2. QED
  BY <1>1, GoesIs, Zenon

LEMMA StepKeeps ==
  ASSUME Inv, NEW r \in Runs, run[r] # Null, NEW x, run' = [run EXCEPT ![r] = x],
         x.object = run[r].object, UNCHANGED <<objects, translation>>,
         x.langs \subseteq LanguagesFrom(run[r].object), RunKept(x, objects[x.object])
  PROVE  Inv'
<1>1. ObjectsKept' /\ TranslationKept' /\ DOMAIN run' = Runs /\ DOMAIN run = Runs
  BY DEF Inv, ObjectsKept, TranslationKept, LanguagesFrom
<1>2. ASSUME NEW q \in Runs, run'[q] # Null
      PROVE  /\ run'[q].object \in DOMAIN objects'
             /\ run'[q].langs \subseteq LanguagesFrom(run[q].object)'
             /\ RunKept(run'[q], objects'[run'[q].object])
  <2>1. CASE q = r
    <3>1. run'[q] = x
      BY <1>1, <2>1
    <3>2. x.object \in DOMAIN objects
      BY RunObject
    <3>3. LanguagesFrom(run[q].object)' = LanguagesFrom(run[r].object)
      BY <2>1, <3>1 DEF LanguagesFrom
    <3>4. QED
      BY <3>1, <3>2, <3>3
  <2>2. CASE q # r
    <3>1. run'[q] = run[q]
      BY <1>1, <2>2
    <3>2. LanguagesFrom(run[q].object)' = LanguagesFrom(run[q].object)
      BY <3>1 DEF LanguagesFrom
    <3>3. QED
      BY <1>2, <3>1, <3>2 DEF Inv
  <2>3. QED
    BY <2>1, <2>2
<1>3. QED
  BY <1>1, <1>2 DEF Inv

LEMMA PartsAre ==
  /\ \A k, v : DOMAIN Entry(k, v) = {k} /\ Entry(k, v)[k] = v
  /\ \A titles : DOMAIN Titled(titles) = titles
  /\ DOMAIN Nothing = {}
  BY DEF Entry, Titled, Nothing

LEMMA IsAtIs ==
  ASSUME Inv, NEW r \in Runs, NEW type, NEW stage, IsAt(r, type, stage)
  PROVE  /\ run[r] # Null /\ run[r].stage = stage
         /\ objects[run[r].object].task \in Tasks
         /\ Info[objects[run[r].object].task].type = type
         /\ TaskOf(r) = objects[run[r].object].task
         /\ RunKept(run[r], objects[run[r].object])
         /\ ContentOf(r) = ToSet(objects[run[r].object].content)
         /\ run[r].object \in DOMAIN objects
<1>1. run[r] # Null /\ run[r].stage = stage /\ Info[TaskOf(r)].type = type
  BY DEF IsAt
<1>2. QED
  BY <1>1, RunObject

\* A run of a monitor task.
LEMMA MonitorKeeps ==
  ASSUME Inv, NEW r \in Runs, NEW from, IsAt(r, "monitor", from), from \in {"fetch", "details"},
         NEW stage, NEW answered, NEW parts, NEW work, NEW x,
         Gone(r, stage, answered, parts, work, x), UNCHANGED <<objects, translation>>,
         MonitorRun(x, objects[run[r].object])
  PROVE  Inv'
<1>1. /\ run[r] # Null /\ run[r].stage = from
      /\ Info[objects[run[r].object].task].type = "monitor"
      /\ TaskOf(r) = objects[run[r].object].task
      /\ RunKept(run[r], objects[run[r].object])
  BY IsAtIs
<1>2. run' = [run EXCEPT ![r] = x] /\ x.object = run[r].object
      /\ x.answered \in BOOLEAN /\ x.langs \subseteq LanguagesFrom(run[r].object)
  BY DEF Gone
<1>3. CanStart(objects[run[r].object].task)
  BY <1>1 DEF RunKept
<1>4. RunKept(x, objects[x.object])
  BY <1>1, <1>2, <1>3 DEF RunKept
<1>5. QED
  BY <1>1, <1>2, <1>4, StepKeeps

LEMMA ReturnsKeeps ==
  ASSUME Inv, NEW r \in Runs, NEW from, IsAt(r, "monitor", from), from \in {"fetch", "details"},
         NEW answered \in BOOLEAN, NEW parts, Returns(r, answered, parts),
         UNCHANGED <<objects, translation>>,
         answered => \A m \in Sections(objects[run[r].object]) :
                       Titling(Server(r), m) \in DOMAIN parts \cup DOMAIN run[r].drawn
  PROVE  Inv'
<1> PICK o : o = objects[run[r].object]
  OBVIOUS
<1>1. run[r] # Null /\ run[r].stage = from /\ RunKept(run[r], o) /\ Info[o.task].type = "monitor"
  BY IsAtIs
<1>2. MonitorRun(run[r], o)
  BY <1>1 DEF RunKept
<1>3. /\ Server(r) = run[r].work.server /\ Server(r) \in {"physical", "virtual"}
      /\ run[r].answered /\ Server(r) = "virtual" => Shows(run[r], "physical", Sections(o))
  BY <1>1, <1>2 DEF MonitorRun, Server
<1>4. CASE Server(r) = "physical"
  <2> PICK work : work = [server |-> "virtual", answer |-> Null, left |-> {}]
    OBVIOUS
  <2>0. work.server = "virtual"
    OBVIOUS
  <2>1. Goes(r, "fetch", answered, parts, work)
    BY <1>4 DEF Returns
  <2>2. PICK x : Gone(r, "fetch", answered, parts, work, x)
    BY <1>1, <2>1, GoesIs
  <2>3. /\ x.stage = "fetch" /\ x.work = work
        /\ x.answered <=> (run[r].answered /\ answered)
        /\ DOMAIN x.drawn = DOMAIN parts \cup DOMAIN run[r].drawn
    BY <2>2 DEF Gone
  <2>4. DOMAIN x.drawn = DOMAIN parts \cup DOMAIN run[r].drawn
    BY <2>3
  <2>5. x.answered => Shows(x, "physical", Sections(o))
    BY <1>4, <2>3, <2>4 DEF Shows
  <2>6. x.work.server = "virtual"
    BY <2>0, <2>3
  <2>7. MonitorRun(x, o)
    BY <2>3, <2>5, <2>6 DEF MonitorRun
  <2>8. QED
    BY <2>2, <2>7, MonitorKeeps
<1>5. CASE Server(r) = "virtual"
  <2>1. Goes(r, "filed", answered, parts, run[r].work)
    BY <1>5 DEF Returns
  <2>2. PICK x : Gone(r, "filed", answered, parts, run[r].work, x)
    BY <1>1, <2>1, GoesIs
  <2>3. /\ x.stage = "filed"
        /\ x.answered <=> (run[r].answered /\ answered)
        /\ DOMAIN x.drawn = DOMAIN parts \cup DOMAIN run[r].drawn
    BY <2>2 DEF Gone
  <2>4. x.answered => Shows(x, "physical", Sections(o)) /\ Shows(x, "virtual", Sections(o))
    BY <1>3, <1>5, <2>3 DEF Shows
  <2>5. MonitorRun(x, o)
    BY <2>3, <2>4 DEF MonitorRun
  <2>6. QED
    BY <2>2, <2>5, MonitorKeeps
<1>6. QED
  BY <1>3, <1>4, <1>5

LEMMA MonitorFails ==
  ASSUME Inv, NEW r \in Runs, NEW from, IsAt(r, "monitor", from), from \in {"fetch", "details"},
         NEW answered \in BOOLEAN, Fails(r, answered), UNCHANGED <<objects, translation>>,
         answered => \E m \in Metrics(r) : Wanting(run[r].work.answer, m)
  PROVE  Inv'
<1> PICK o : o = objects[run[r].object]
  OBVIOUS
<1>1. run[r] # Null /\ ContentOf(r) = ToSet(o.content)
  BY IsAtIs
<1>2. Goes(r, "failed", answered, Nothing, run[r].work)
  BY DEF Fails
<1>3. PICK x : Gone(r, "failed", answered, Nothing, run[r].work, x)
  BY <1>1, <1>2, GoesIs
<1>4. /\ x.stage = "failed" /\ x.work = run[r].work
      /\ x.answered <=> (run[r].answered /\ answered)
  BY <1>3 DEF Gone
<1>5. MonitorRun(x, o)
  BY <1>1, <1>4 DEF MonitorRun, Metrics
<1>6. QED
  BY <1>3, <1>5, MonitorKeeps

LEMMA ServerStatisticsKeeps ==
  ASSUME Inv, NEW r \in Runs, ServerStatistics(r)
  PROVE  Inv'
<1> PICK o : o = objects[run[r].object]
  OBVIOUS
<1>1. IsAt(r, "monitor", "fetch") /\ UNCHANGED <<objects, translation>>
  BY DEF ServerStatistics
<1>2. run[r] # Null /\ run[r].stage = "fetch" /\ RunKept(run[r], o)
      /\ Info[o.task].type = "monitor" /\ ContentOf(r) = ToSet(o.content)
  BY <1>1, IsAtIs
<1>3. MonitorRun(run[r], o)
  BY <1>2 DEF RunKept
<1>4. CASE Returns(r, FALSE, Titled({Server(r)}))
  <2> PICK answered \in BOOLEAN : answered = FALSE
    OBVIOUS
  <2>1. Returns(r, answered, Titled({Server(r)}))
    BY <1>4, Zenon
  <2>2. ~answered
    OBVIOUS
  <2>3. QED
    BY <1>1, <2>1, <2>2, ReturnsKeeps
<1>5. ASSUME NEW a \in MonitorAnswers,
             Goes(r, "details", TRUE, Entry(Server(r), Filled(a, Metrics(r))),
                  Work(r, a, Metrics(r)))
      PROVE  Inv'
  <2> PICK parts : parts = Entry(Server(r), Filled(a, Metrics(r)))
    OBVIOUS
  <2> PICK work : work = Work(r, a, Metrics(r))
    OBVIOUS
  <2>1. PICK x : Gone(r, "details", TRUE, parts, work, x)
    BY <1>2, <1>5, GoesOn
  <2>2. work.server = run[r].work.server /\ work.answer = a /\ work.left = Metrics(r)
    BY DEF Work, Server
  <2>3. /\ x.stage = "details" /\ x.work = work
        /\ x.answered <=> run[r].answered
        /\ DOMAIN x.drawn = DOMAIN parts \cup DOMAIN run[r].drawn
    BY <2>1 DEF Gone
  <2>4. Metrics(r) = ToSet(o.content) \cap {"cpu", "mem", "swap"}
    BY <1>2 DEF Metrics
  <2>5. MonitorRun(x, o)
    BY <1>2, <1>3, <2>2, <2>3, <2>4 DEF MonitorRun, Shows
  <2>6. QED
    BY <1>1, <2>1, <2>5, MonitorKeeps
<1>6. QED
  BY <1>4, <1>5 DEF ServerStatistics

LEMMA ServerHostsKeeps ==
  ASSUME Inv, NEW r \in Runs, ServerHosts(r)
  PROVE  Inv'
<1> PICK o : o = objects[run[r].object]
  OBVIOUS
<1>1. IsAt(r, "monitor", "fetch") /\ UNCHANGED <<objects, translation>> /\ Metrics(r) = {}
  BY DEF ServerHosts
<1>2. run[r] # Null /\ run[r].stage = "fetch" /\ RunKept(run[r], o)
      /\ Info[o.task].type = "monitor" /\ ContentOf(r) = ToSet(o.content)
  BY <1>1, IsAtIs
<1>3. MonitorRun(run[r], o)
  BY <1>2 DEF RunKept
<1>4. Sections(o) = Metrics(r) \cup Disks(r)
  BY <1>2 DEF Sections, Metrics, Disks
<1>5. CASE Disks(r) = {} /\ Returns(r, TRUE, Nothing)
  <2> PICK answered \in BOOLEAN : answered = TRUE
    OBVIOUS
  <2>1. Returns(r, answered, Nothing)
    BY <1>5, Zenon
  <2>2. Sections(o) = {}
    BY <1>1, <1>4, <1>5
  <2>3. QED
    BY <1>1, <2>1, <2>2, ReturnsKeeps
<1>6. CASE Fails(r, FALSE)
  <2> PICK answered \in BOOLEAN : answered = FALSE
    OBVIOUS
  <2>1. Fails(r, answered)
    BY <1>6, Zenon
  <2>2. ~answered
    OBVIOUS
  <2>3. QED
    BY <1>1, <2>1, <2>2, MonitorFails
<1>7. ASSUME NEW a \in MonitorAnswers,
             Goes(r, "details", TRUE, Titled({Server(r)}), Work(r, a, {}))
      PROVE  Inv'
  <2> PICK parts : parts = Titled({Server(r)})
    OBVIOUS
  <2> PICK work : work = Work(r, a, {})
    OBVIOUS
  <2>1. PICK x : Gone(r, "details", TRUE, parts, work, x)
    BY <1>2, <1>7, GoesOn
  <2>2. work.server = run[r].work.server /\ work.answer = a /\ work.left = {}
    BY DEF Work, Server
  <2>3. /\ x.stage = "details" /\ x.work = work
        /\ x.answered <=> run[r].answered
        /\ DOMAIN x.drawn = DOMAIN parts \cup DOMAIN run[r].drawn
    BY <2>1 DEF Gone
  <2>4. {} = ToSet(o.content) \cap {"cpu", "mem", "swap"}
    BY <1>1, <1>2 DEF Metrics
  <2>5. MonitorRun(x, o)
    BY <1>2, <1>3, <2>2, <2>3, <2>4 DEF MonitorRun, Shows
  <2>6. QED
    BY <1>1, <2>1, <2>5, MonitorKeeps
<1>8. QED
  BY <1>5, <1>6, <1>7 DEF ServerHosts

\* Less than TopN hosts are above one of the top hosts.
Above(means, x) == {h \in DOMAIN means : means[h] > means[x]}

LEMMA TopHostsThere ==
  ASSUME NEW means, IsFiniteSet(DOMAIN means), DOMAIN means \subseteq Nat,
         \A h \in DOMAIN means : means[h] \in Nat, NEW i \in DOMAIN TopHosts(means)
  PROVE  /\ TopHosts(means)[i] \in DOMAIN means
         /\ Cardinality(Above(means, TopHosts(means)[i])) < TopN
<1> PICK H : H = DOMAIN means
  OBVIOUS
<1> PICK m : m = [h \in H |-> means[h]]
  OBVIOUS
<1>1. H \subseteq Nat /\ IsFiniteSet(H) /\ m \in [H -> Nat] /\ \A h \in H : m[h] = means[h]
  OBVIOUS
<1> DEFINE Higher(x, y) == m[x] > m[y] \/ (m[x] = m[y] /\ x < y)
<1> DEFINE before == [x \in H |-> {y \in H : Higher(y, x)}]
<1>2. Orders(before, H)
  <2>1. before \in [H -> SUBSET H]
    OBVIOUS
  <2>2. \A x \in H : x \notin before[x]
    BY <1>1
  <2>3. \A x, y \in H : x \in before[y] => before[x] \subseteq before[y]
    <3> SUFFICES ASSUME NEW x \in H, NEW y \in H, x \in before[y], NEW z \in H, z \in before[x]
                 PROVE  z \in before[y]
      BY <2>1
    <3>1. Higher(x, y) /\ Higher(z, x)
      OBVIOUS
    <3>2. x \in Nat /\ y \in Nat /\ z \in Nat /\ m[x] \in Nat /\ m[y] \in Nat /\ m[z] \in Nat
      BY <1>1
    <3>3. Higher(z, y)
      BY <3>1, <3>2
    <3>4. QED
      BY <3>3
  <2>4. \A x, y \in H : x = y \/ x \in before[y] \/ y \in before[x]
    <3> SUFFICES ASSUME NEW x \in H, NEW y \in H PROVE x = y \/ Higher(x, y) \/ Higher(y, x)
      OBVIOUS
    <3>1. x \in Nat /\ y \in Nat /\ m[x] \in Nat /\ m[y] \in Nat
      BY <1>1
    <3>2. QED
      BY <3>1
  <2> HIDE DEF before
  <2>5. QED
    BY <2>1, <2>2, <2>3, <2>4 DEF Orders
<1> DEFINE listed == [x \in DOMAIN means |-> {y \in DOMAIN means :
                        means[y] > means[x] \/ (means[y] = means[x] /\ y < x)}]
<1>3. listed = before
  <2>1. \A x \in H : {y \in H : means[y] > means[x] \/ (means[y] = means[x] /\ y < x)}
                     = {y \in H : Higher(y, x)}
    BY <1>1
  <2>2. QED
    BY <2>1
<1> PICK n : n = Cardinality(H)
  OBVIOUS
<1>4. TopHosts(means) =
        [k \in 1 .. (IF TopN < n THEN TopN ELSE n) |-> Arranged(DOMAIN means, listed)[k]]
  BY DEF TopHosts
<1> HIDE DEF before, listed
<1>5. Lists(Arranged(H, before), H)
      /\ \A k \in 1 .. n : Cardinality(before[Arranged(H, before)[k]]) = k - 1
  BY <1>1, <1>2, ArrangedLists
<1>6. n \in Nat /\ Arranged(H, before) \in [1 .. n -> H]
  BY <1>5 DEF Lists
<1>7. TopN \in Nat
  BY MonitorAssumption
<1> PICK top : top = TopHosts(means)[i]
  OBVIOUS
<1>8. i \in 1 .. n /\ i <= TopN /\ top = Arranged(H, before)[i]
  BY <1>3, <1>4, <1>6, <1>7
<1>9. top \in H
  BY <1>6, <1>8
<1>10. Cardinality(before[top]) = i - 1
  BY <1>5, <1>8
<1> PICK above : above = Above(means, top)
  OBVIOUS
<1>11. above \in SUBSET before[top] /\ before[top] \in SUBSET H
  BY <1>1, <1>9 DEF before, Above
<1>12. IsFiniteSet(before[top]) /\ IsFiniteSet(above)
       /\ Cardinality(above) <= Cardinality(before[top])
  <2>1. IsFiniteSet(before[top])
    BY <1>1, <1>11, FS_Subset
  <2>2. QED
    BY <1>11, <2>1, FS_Subset
<1>13. Cardinality(above) \in Nat
  BY <1>12, FS_CardinalityType
<1>14. Cardinality(above) < TopN
  BY <1>7, <1>8, <1>10, <1>12, <1>13
<1>15. QED
  BY <1>9, <1>14

LEMMA MetricDetailsKeeps ==
  ASSUME Inv, NEW r \in Runs, MetricDetails(r)
  PROVE  Inv'
<1> PICK o : o = objects[run[r].object]
  OBVIOUS
<1> PICK w : w = run[r].work
  OBVIOUS
<1>1. IsAt(r, "monitor", "details") /\ UNCHANGED <<objects, translation>>
  BY DEF MetricDetails
<1>2. run[r] # Null /\ run[r].stage = "details" /\ RunKept(run[r], o)
      /\ Info[o.task].type = "monitor" /\ ContentOf(r) = ToSet(o.content)
  BY <1>1, IsAtIs
<1>3. MonitorRun(run[r], o)
  BY <1>2 DEF RunKept
<1>4. /\ w.server \in {"physical", "virtual"} /\ Server(r) = w.server
      /\ run[r].answered /\ w.server = "virtual" => Shows(run[r], "physical", Sections(o))
      /\ w.answer \in MonitorAnswers /\ w.left \subseteq Metrics(r)
      /\ Shows(run[r], w.server, Metrics(r) \ w.left)
      /\ Metrics(r) = ToSet(o.content) \cap {"cpu", "mem", "swap"}
  BY <1>2, <1>3 DEF MonitorRun, Server, Metrics
<1>5. ASSUME Fails(r, FALSE) PROVE Inv'
  <2> PICK answered \in BOOLEAN : answered = FALSE
    OBVIOUS
  <2>1. Fails(r, answered)
    BY <1>5, Zenon
  <2>2. ~answered
    OBVIOUS
  <2>3. QED
    BY <1>1, <2>1, <2>2, MonitorFails
<1>6. ASSUME NEW m \in w.left, NEW means, NEW top,
             means = Filled(w.answer, Metrics(r)),
             top = TopHosts([h \in DOMAIN means |-> means[h][m]]),
             \E i \in DOMAIN top : m \notin DOMAIN w.answer[top[i]],
             Fails(r, TRUE)
      PROVE  Inv'
  <2> PICK answered \in BOOLEAN : answered = TRUE
    OBVIOUS
  <2>1. Fails(r, answered)
    BY <1>6, Zenon
  <2> PICK A : A = w.answer
    OBVIOUS
  <2> PICK H : H = DOMAIN A
    OBVIOUS
  <2>2. /\ H \subseteq Nat /\ IsFiniteSet(H)
        /\ \A h \in H : \A k \in DOMAIN A[h] : A[h][k] \in Nat
    BY <1>4, MonitorAssumption
  <2>3. m \in Metrics(r)
    BY <1>4
  <2>4. /\ DOMAIN means = H
        /\ \A h \in H : means[h][m] = IF m \in DOMAIN A[h] THEN A[h][m] ELSE 0
    BY <1>6, <2>3 DEF Filled
  <2> PICK ms : ms = [h \in H |-> means[h][m]]
    OBVIOUS
  <2>5. DOMAIN ms = H /\ \A h \in H : ms[h] \in Nat
    BY <2>2, <2>4
  <2>6. top = TopHosts(ms)
    BY <1>6, <2>4
  <2>7. PICK i \in DOMAIN top : m \notin DOMAIN A[top[i]]
    BY <1>6
  <2>8. top[i] \in H /\ Cardinality({h \in H : ms[h] > ms[top[i]]}) < TopN
    <3>1. IsFiniteSet(DOMAIN ms) /\ DOMAIN ms \subseteq Nat /\ \A h \in DOMAIN ms : ms[h] \in Nat
      BY <2>2, <2>5
    <3>2. i \in DOMAIN TopHosts(ms)
      BY <2>6, <2>7
    <3>3. /\ TopHosts(ms)[i] \in DOMAIN ms
          /\ Cardinality(Above(ms, TopHosts(ms)[i])) < TopN
      BY <3>1, <3>2, TopHostsThere
    <3>4. QED
      BY <2>5, <2>6, <3>3 DEF Above
  <2>9. ms[top[i]] = 0
    BY <2>4, <2>7, <2>8
  <2>10. {h \in H : m \in DOMAIN A[h] /\ A[h][m] > 0} = {h \in H : ms[h] > ms[top[i]]}
    BY <2>4, <2>9
  <2>11. Wanting(run[r].work.answer, m)
    BY <2>7, <2>8, <2>10 DEF Wanting
  <2>12. QED
    BY <1>1, <2>1, <2>3, <2>11, MonitorFails
<1>7. ASSUME NEW m \in w.left, NEW top, NEW parts, NEW work,
             parts = Entry(Titling(Server(r), m), top),
             work.server = w.server, work.answer = w.answer, work.left = w.left \ {m},
             Goes(r, "details", TRUE, parts, work)
      PROVE  Inv'
  <2>1. PICK x : Gone(r, "details", TRUE, parts, work, x)
    BY <1>2, <1>7, GoesOn
  <2>2. /\ x.stage = "details" /\ x.work = work
        /\ x.answered <=> run[r].answered
        /\ DOMAIN x.drawn = DOMAIN parts \cup DOMAIN run[r].drawn
    BY <2>1 DEF Gone
  <2>3. DOMAIN parts = {Titling(Server(r), m)}
    BY <1>7, PartsAre
  <2>4. DOMAIN x.drawn = DOMAIN parts \cup DOMAIN run[r].drawn
    BY <2>2
  <2>5. work.server = w.server /\ work.answer = w.answer /\ work.left = w.left \ {m}
    BY <1>7
  <2>6. Shows(x, w.server, Metrics(r) \ work.left)
    BY <1>4, <2>3, <2>4, <2>5 DEF Shows
  <2>7. x.answered /\ w.server = "virtual" => Shows(x, "physical", Sections(o))
    BY <1>4, <2>2, <2>4 DEF Shows
  <2>8. MonitorRun(x, o)
    BY <1>4, <2>2, <2>5, <2>6, <2>7 DEF MonitorRun
  <2>9. QED
    BY <1>1, <2>1, <2>8, MonitorKeeps
<1>8. ASSUME NEW m \in w.left, NEW top,
             Goes(r, "details", TRUE, Entry(Titling(Server(r), m), top),
                  Work(r, w.answer, w.left \ {m}))
      PROVE  Inv'
  <2> DEFINE work == Work(r, w.answer, w.left \ {m})
  <2>1. work.server = w.server /\ work.answer = w.answer /\ work.left = w.left \ {m}
    BY <1>4 DEF Work
  <2>2. Goes(r, "details", TRUE, Entry(Titling(Server(r), m), top), work)
    BY <1>8
  <2> HIDE DEF work
  <2>3. QED
    BY <1>7, <2>1, <2>2
<1>9. QED
  BY <1>5, <1>6, <1>8 DEF MetricDetails

LEMMA DiskDetailsKeeps ==
  ASSUME Inv, NEW r \in Runs, DiskDetails(r)
  PROVE  Inv'
<1> PICK o : o = objects[run[r].object]
  OBVIOUS
<1>1. IsAt(r, "monitor", "details") /\ UNCHANGED <<objects, translation>> /\ run[r].work.left = {}
  BY DEF DiskDetails
<1>2. run[r] # Null /\ run[r].stage = "details" /\ RunKept(run[r], o)
      /\ Info[o.task].type = "monitor" /\ ContentOf(r) = ToSet(o.content)
  BY <1>1, IsAtIs
<1>3. MonitorRun(run[r], o)
  BY <1>2 DEF RunKept
<1>4. /\ Shows(run[r], Server(r), Metrics(r))
      /\ Sections(o) = Metrics(r) \cup Disks(r)
      /\ Disks(r) \subseteq {"partition"}
  BY <1>1, <1>2, <1>3 DEF MonitorRun, Server, Metrics, Disks, Sections
<1>5. CASE Disks(r) = {} /\ Returns(r, TRUE, Nothing)
  <2> PICK answered \in BOOLEAN : answered = TRUE
    OBVIOUS
  <2>1. Returns(r, answered, Nothing)
    BY <1>5, Zenon
  <2>2. \A m \in Sections(o) : Titling(Server(r), m) \in DOMAIN Nothing \cup DOMAIN run[r].drawn
    BY <1>4, <1>5 DEF Shows
  <2>3. QED
    BY <1>1, <2>1, <2>2, ReturnsKeeps
<1>6. ASSUME NEW answered \in BOOLEAN,
             Returns(r, answered, Entry(Titling(Server(r), "partition"), DOMAIN run[r].work.answer))
      PROVE  Inv'
  <2> PICK section : section = Titling(Server(r), "partition")
    OBVIOUS
  <2> PICK parts : parts = Entry(section, DOMAIN run[r].work.answer)
    OBVIOUS
  <2>1. Returns(r, answered, parts)
    BY <1>6
  <2>2. DOMAIN parts = {section}
    BY PartsAre
  <2>3. QED
    BY <1>1, <1>4, <2>1, <2>2, ReturnsKeeps DEF Shows
<1>7. QED
  BY <1>5, <1>6 DEF DiskDetails

\* A run of a meter task.
LEMMA MeterKeeps ==
  ASSUME Inv, NEW r \in Runs, NEW from, IsAt(r, "meter", from), from # "failed",
         NEW stage, NEW answered, NEW parts, NEW work, NEW x,
         Gone(r, stage, answered, parts, work, x), UNCHANGED <<objects, translation>>,
         MeterRun(x, objects[run[r].object])
  PROVE  Inv'
<1>1. /\ run[r] # Null /\ run[r].stage = from
      /\ Info[objects[run[r].object].task].type = "meter"
      /\ TaskOf(r) = objects[run[r].object].task
      /\ RunKept(run[r], objects[run[r].object])
  BY IsAtIs
<1>2. run' = [run EXCEPT ![r] = x] /\ x.object = run[r].object
      /\ x.answered \in BOOLEAN /\ x.langs \subseteq LanguagesFrom(run[r].object)
  BY DEF Gone
<1>3. CanStart(objects[run[r].object].task)
  BY <1>1 DEF RunKept
<1>4. RunKept(x, objects[x.object])
  BY <1>1, <1>2, <1>3 DEF RunKept
<1>5. QED
  BY <1>1, <1>2, <1>4, StepKeeps

\* The same where the step empties the sections of the object.
LEMMA EmptiedKeeps ==
  ASSUME Inv, NEW r \in Runs, NEW from, IsAt(r, "meter", from), from # "failed",
         NEW stage, NEW answered, NEW parts, NEW work, NEW x,
         Gone(r, stage, answered, parts, work, x),
         objects' = Emptied(run[r].object), UNCHANGED translation,
         NEW e, e.task = objects[run[r].object].task, e.nobody = TRUE, MeterRun(x, e)
  PROVE  Inv'
<1> PICK i : i = run[r].object
  OBVIOUS
<1>1. /\ run[r] # Null /\ run[r].stage = from /\ i \in DOMAIN objects
      /\ objects[i].task \in Tasks /\ Info[objects[i].task].type = "meter"
      /\ TaskOf(r) = objects[i].task
      /\ RunKept(run[r], objects[i])
  BY IsAtIs
<1>2. run' = [run EXCEPT ![r] = x] /\ x.object = i
      /\ x.answered \in BOOLEAN /\ x.langs \subseteq LanguagesFrom(run[r].object)
  BY DEF Gone
<1>3. CanStart(objects[i].task)
  BY <1>1 DEF RunKept
<1>4. objects \in Seq(Objects)
  BY DEF Inv, ObjectsKept
<1>5. /\ objects' \in Seq(Objects) /\ DOMAIN objects' = DOMAIN objects
      /\ \A j \in DOMAIN objects : j # i => objects'[j] = objects[j]
      /\ objects'[i].task = objects[i].task /\ objects'[i].nobody = TRUE
  <2>1. objects[i] \in Objects
    BY <1>1, <1>4
  <2> PICK o : o = [task |-> objects[i].task, content |-> <<>>, nobody |-> TRUE]
    OBVIOUS
  <2>2. objects' = [objects EXCEPT ![i] = o]
    BY DEF Emptied
  <2>3. o \in Objects /\ o.task = objects[i].task /\ o.nobody = TRUE
    BY <2>1 DEF Objects
  <2>4. QED
    BY <1>1, <1>4, <2>2, <2>3
<1>6. ASSUME NEW y, NEW j \in DOMAIN objects, RunKept(y, objects[j]), y # x \/ j # i
      PROVE  RunKept(y, objects'[j])
  <2>1. CASE j # i
    BY <1>5, <1>6, <2>1
  <2>2. CASE j = i
    <3>1. /\ objects'[j].task = objects[j].task /\ objects'[j].nobody = TRUE
          /\ Info[objects[j].task].type = "meter"
      BY <1>1, <1>5, <2>2
    <3>2. MeterRun(y, objects[j])
      BY <1>6, <3>1 DEF RunKept
    <3>3. MeterRun(y, objects'[j])
      BY <3>1, <3>2 DEF MeterRun
    <3>4. QED
      BY <1>6, <3>1, <3>3 DEF RunKept
  <2>3. QED
    BY <2>1, <2>2
<1>7. RunKept(x, objects'[i])
  <2>1. MeterRun(x, objects'[i])
    BY <1>5 DEF MeterRun
  <2>2. QED
    BY <1>1, <1>2, <1>3, <1>5, <2>1 DEF RunKept
<1>8. ObjectsKept'
  <2>1. ASSUME NEW j \in DOMAIN objects'
        PROVE  IF objects'[j].nobody THEN Info[objects'[j].task].type = "meter"
               ELSE objects'[j].content = Content(objects'[j].task)
    BY <1>1, <1>5 DEF Inv, ObjectsKept
  <2>2. QED
    BY <1>5, <2>1 DEF ObjectsKept
<1>9. \A j \in DOMAIN objects : objects'[j].task = objects[j].task
  BY <1>5
<1>10. ASSUME NEW j \in DOMAIN objects PROVE LanguagesFrom(j)' = LanguagesFrom(j)
  BY <1>5, <1>9 DEF LanguagesFrom
<1>11. TranslationKept'
  BY <1>5, <1>9, <1>10 DEF Inv, TranslationKept
<1>12. ASSUME NEW q \in Runs, run'[q] # Null
       PROVE  /\ run'[q].object \in DOMAIN objects'
              /\ run'[q].langs \subseteq LanguagesFrom(run[q].object)'
              /\ RunKept(run'[q], objects'[run'[q].object])
  <2>1. DOMAIN run = Runs
    BY DEF Inv
  <2> PICK j : j = run'[q].object
    OBVIOUS
  <2>2. LanguagesFrom(run[q].object)' = LanguagesFrom(j)'
    BY DEF LanguagesFrom
  <2>3. CASE q = r
    <3>1. run'[q] = x
      BY <1>2, <2>1, <2>3
    <3>2. LanguagesFrom(j)' = LanguagesFrom(j) /\ j = i
      BY <1>1, <1>2, <1>10, <3>1
    <3>3. QED
      BY <1>1, <1>2, <1>5, <1>7, <2>2, <3>1, <3>2
  <2>4. CASE q # r
    <3>1. run'[q] = run[q]
      BY <1>2, <2>1, <2>4
    <3>2. j \in DOMAIN objects /\ RunKept(run[q], objects[j])
          /\ run[q].langs \subseteq LanguagesFrom(j)
      BY <1>12, <3>1 DEF Inv
    <3>3. RunKept(run[q], objects'[j])
      BY <1>6, <1>7, <3>2
    <3>4. LanguagesFrom(j)' = LanguagesFrom(j)
      BY <1>10, <3>2
    <3>5. QED
      BY <1>5, <2>2, <3>1, <3>2, <3>3, <3>4
  <2>5. QED
    BY <2>3, <2>4
<1>13. DOMAIN run' = Runs
  BY <1>2 DEF Inv
<1>14. QED
  BY <1>8, <1>11, <1>12, <1>13 DEF Inv

LEMMA GetEventsKeeps ==
  ASSUME Inv, NEW r \in Runs, GetEvents(r)
  PROVE  Inv'
<1> PICK o : o = objects[run[r].object]
  OBVIOUS
<1> PICK parts : parts = Titled({"Contents", "name"})
  OBVIOUS
<1>1. IsAt(r, "meter", "fetch") /\ UNCHANGED <<objects, translation>>
  BY DEF GetEvents
<1>2. run[r] # Null /\ run[r].stage = "fetch" /\ RunKept(run[r], o) /\ Info[o.task].type = "meter"
  BY <1>1, IsAtIs
<1>3. MeterRun(run[r], o)
  BY <1>2 DEF RunKept
<1>4. DOMAIN parts = {"Contents", "name"}
  BY PartsAre
<1>5. ASSUME NEW answered \in BOOLEAN, NEW es \in MeterAnswers \cup {<<>>},
             Goes(r, "users", answered, parts, es)
      PROVE  Inv'
  <2>1. PICK x : Gone(r, "users", answered, parts, es, x)
    BY <1>2, <1>5, GoesIs
  <2>2. x.stage = "users" /\ x.work = es /\ DOMAIN x.drawn = DOMAIN parts \cup DOMAIN run[r].drawn
    BY <2>1 DEF Gone
  <2>3. DOMAIN x.drawn = {"Contents", "name"} \cup DOMAIN run[r].drawn
    BY <1>4, <2>2
  <2>4. MeterRun(x, o)
    BY <1>2, <1>3, <2>2, <2>3 DEF MeterRun
  <2>5. QED
    BY <1>1, <2>1, <2>4, MeterKeeps
<1>6. CASE Goes(r, "users", FALSE, parts, <<>>)
  <2> PICK answered \in BOOLEAN : answered = FALSE
    OBVIOUS
  <2>1. Goes(r, "users", answered, parts, <<>>)
    BY <1>6, Zenon
  <2>2. <<>> \in MeterAnswers \cup {<<>>}
    OBVIOUS
  <2>3. QED
    BY <1>5, <2>1, <2>2
<1>7. ASSUME NEW es \in MeterAnswers, Goes(r, "users", TRUE, parts, es)
      PROVE  Inv'
  <2> PICK answered \in BOOLEAN : answered = TRUE
    OBVIOUS
  <2>1. Goes(r, "users", answered, parts, es)
    BY <1>7, Zenon
  <2>2. es \in MeterAnswers \cup {<<>>}
    OBVIOUS
  <2>3. QED
    BY <1>5, <2>1, <2>2
<1>8. QED
  BY <1>6, <1>7 DEF GetEvents

LEMMA UserStatisticsKeeps ==
  ASSUME Inv, NEW r \in Runs, UserStatistics(r)
  PROVE  Inv'
<1> PICK o : o = objects[run[r].object]
  OBVIOUS
<1>1. IsAt(r, "meter", "users") /\ UNCHANGED <<objects, translation>>
  BY DEF UserStatistics
<1>2. run[r] # Null /\ run[r].stage = "users" /\ RunKept(run[r], o) /\ Info[o.task].type = "meter"
      /\ ContentOf(r) = ToSet(o.content) /\ run[r].object \in DOMAIN objects
  BY <1>1, IsAtIs
<1>3. MeterRun(run[r], o)
  BY <1>2 DEF RunKept
<1>4. ~o.nobody => o.content = Content(o.task)
  BY <1>2, ObjectTask
<1>5. CASE Goes(r, "user_vms", TRUE, Titled({"user_statistics"}), run[r].work)
  <2> PICK parts : parts = Titled({"user_statistics"})
    OBVIOUS
  <2>1. PICK x : Gone(r, "user_vms", TRUE, parts, run[r].work, x)
    BY <1>2, <1>5, GoesOn
  <2>2. x.stage = "user_vms" /\ x.work = run[r].work /\ DOMAIN x.drawn = DOMAIN parts \cup DOMAIN run[r].drawn
    BY <2>1 DEF Gone
  <2>3. DOMAIN parts = {"user_statistics"}
    BY PartsAre
  <2>4. DOMAIN x.drawn = {"user_statistics"} \cup DOMAIN run[r].drawn
    BY <2>2, <2>3
  <2>5. MeterRun(x, o)
    BY <1>2, <1>3, <2>2, <2>4 DEF MeterRun
  <2>6. QED
    BY <1>1, <2>1, <2>5, MeterKeeps
<1>6. CASE "user_statistics" \notin ContentOf(r) /\ Goes(r, "vms", TRUE, Nothing, run[r].work)
  <2>1. PICK x : Gone(r, "vms", TRUE, Nothing, run[r].work, x)
    BY <1>2, <1>6, GoesOn
  <2>2. x.stage = "vms" /\ x.work = run[r].work /\ DOMAIN x.drawn = DOMAIN Nothing \cup DOMAIN run[r].drawn
    BY <2>1 DEF Gone
  <2>3. DOMAIN x.drawn = DOMAIN run[r].drawn
    BY <2>2, PartsAre
  <2>4. ~o.nobody => "user_statistics" \notin ToSet(Content(o.task))
    BY <1>2, <1>4, <1>6
  <2>5. MeterRun(x, o)
    BY <1>2, <1>3, <2>2, <2>3, <2>4 DEF MeterRun
  <2>6. QED
    BY <1>1, <2>1, <2>5, MeterKeeps
<1>7. QED
  BY <1>5, <1>6 DEF UserStatistics

LEMMA UserVmStatisticsKeeps ==
  ASSUME Inv, NEW r \in Runs, UserVmStatistics(r)
  PROVE  Inv'
<1> PICK o : o = objects[run[r].object]
  OBVIOUS
<1> PICK es : es = run[r].work
  OBVIOUS
<1>1. IsAt(r, "meter", "user_vms") /\ UNCHANGED translation
  BY DEF UserVmStatistics
<1>2. run[r] # Null /\ run[r].stage = "user_vms" /\ RunKept(run[r], o)
      /\ Info[o.task].type = "meter"
  BY <1>1, IsAtIs
<1>3. MeterRun(run[r], o)
  BY <1>2 DEF RunKept
<1>4. ASSUME NEW parts, DOMAIN parts \subseteq {"User VM Creation"},
             NEW x, Gone(r, "vms", TRUE, parts, es, x), NEW e, e.task = o.task
      PROVE  MeterRun(x, e)
  <2>1. x.stage = "vms" /\ x.work = es /\ DOMAIN x.drawn = DOMAIN parts \cup DOMAIN run[r].drawn
    BY <1>4 DEF Gone
  <2>2. DOMAIN x.drawn = DOMAIN parts \cup DOMAIN run[r].drawn
    BY <2>1
  <2>3. QED
    BY <1>2, <1>3, <1>4, <2>1, <2>2 DEF MeterRun
<1>5. CASE Goes(r, "vms", TRUE, Nothing, es) /\ UNCHANGED objects
  <2>1. PICK x : Gone(r, "vms", TRUE, Nothing, es, x)
    BY <1>2, <1>5, GoesOn
  <2>2. MeterRun(x, o)
    BY <1>4, <2>1, PartsAre
  <2>3. QED
    BY <1>1, <1>5, <2>1, <2>2, MeterKeeps
<1>6. CASE /\ Goes(r, "vms", TRUE, Entry("User VM Creation", Listed(es)), es)
           /\ objects' = IF Listed(es) = {} THEN Emptied(run[r].object) ELSE objects
  <2> PICK parts : parts = Entry("User VM Creation", Listed(es))
    OBVIOUS
  <2>1. PICK x : Gone(r, "vms", TRUE, parts, es, x)
    BY <1>2, <1>6, GoesOn
  <2>2. DOMAIN parts = {"User VM Creation"}
    BY PartsAre
  <2>3. MeterRun(x, o)
    BY <1>4, <2>1, <2>2
  <2>4. CASE objects' = objects
    BY <1>1, <2>1, <2>3, <2>4, MeterKeeps
  <2>5. CASE objects' = Emptied(run[r].object)
    <3> PICK e : e = [task |-> o.task, nobody |-> TRUE]
      OBVIOUS
    <3>1. e.task = o.task /\ e.nobody = TRUE
      OBVIOUS
    <3>2. MeterRun(x, e)
      BY <1>4, <2>1, <2>2, <3>1
    <3>3. QED
      BY <1>1, <2>1, <2>5, <3>1, <3>2, EmptiedKeeps
  <2>6. QED
    BY <1>6, <2>4, <2>5
<1>7. QED
  BY <1>5, <1>6 DEF UserVmStatistics

LEMMA VmStatisticsKeeps ==
  ASSUME Inv, NEW r \in Runs, VmStatistics(r)
  PROVE  Inv'
<1> PICK o : o = objects[run[r].object]
  OBVIOUS
<1> PICK es : es = run[r].work
  OBVIOUS
<1>1. IsAt(r, "meter", "vms") /\ UNCHANGED <<objects, translation>>
  BY DEF VmStatistics
<1>2. run[r] # Null /\ run[r].stage = "vms" /\ RunKept(run[r], o)
      /\ Info[o.task].type = "meter" /\ ContentOf(r) = ToSet(o.content)
      /\ run[r].object \in DOMAIN objects
  BY <1>1, IsAtIs
<1>3. MeterRun(run[r], o)
  BY <1>2 DEF RunKept
<1>4. ~o.nobody => o.content = Content(o.task)
  BY <1>2, ObjectTask
<1>5. /\ DOMAIN run[r].drawn \subseteq {"Contents", "name", "user_statistics", "User VM Creation"}
      /\ es \in MeterAnswers \cup {<<>>}
      /\ ~o.nobody /\ "user_statistics" \in ToSet(Content(o.task)) =>
           "user_statistics" \in DOMAIN run[r].drawn
  BY <1>2, <1>3 DEF MeterRun
<1>6. ASSUME NEW days, days = Nothing \/ days = Entry("days", TimeDistribution(es)),
             NEW charts, charts = [vm_statistics |-> StateDistribution(es),
                                   flavors |-> FlavorDistribution(es)],
             NEW parts, parts = Updated(days, charts),
             Goes(r, "filed", TRUE, parts, es)
      PROVE  Inv'
  <2>1. PICK x : Gone(r, "filed", TRUE, parts, es, x)
    BY <1>2, <1>6, GoesOn
  <2>2. x.stage = "filed" /\ x.work = es /\ DOMAIN x.drawn = DOMAIN parts \cup DOMAIN run[r].drawn
    BY <2>1 DEF Gone
  <2>3. DOMAIN charts = {"vm_statistics", "flavors"}
        /\ charts["vm_statistics"] = StateDistribution(es)
        /\ charts["flavors"] = FlavorDistribution(es)
    BY <1>6
  <2>4. DOMAIN days \subseteq {"days"}
        /\ ("days" \in DOMAIN days => days["days"] = TimeDistribution(es))
    <3>1. CASE days = Nothing
      BY <3>1, PartsAre
    <3>2. CASE days = Entry("days", TimeDistribution(es))
      BY <3>2 DEF Entry
    <3>3. QED
      BY <1>6, <3>1, <3>2
  <2>5. /\ DOMAIN parts = {"vm_statistics", "flavors"} \cup DOMAIN days
        /\ parts["vm_statistics"] = StateDistribution(es)
        /\ parts["flavors"] = FlavorDistribution(es)
        /\ "days" \in DOMAIN days => parts["days"] = TimeDistribution(es)
    <3>1. /\ DOMAIN parts = DOMAIN charts \cup DOMAIN days
          /\ \A k \in DOMAIN charts : parts[k] = charts[k]
          /\ \A k \in DOMAIN days \ DOMAIN charts : parts[k] = days[k]
      BY <1>6 DEF Updated
    <3>2. QED
      BY <2>3, <2>4, <3>1
  <2>6. /\ DOMAIN x.drawn = DOMAIN parts \cup DOMAIN run[r].drawn
        /\ \A k \in DOMAIN parts : x.drawn[k] = parts[k]
    BY <2>1 DEF Gone
  <2>7. /\ "vm_statistics" \in DOMAIN x.drawn
        /\ x.drawn["vm_statistics"] = StateDistribution(es)
        /\ x.drawn["flavors"] = FlavorDistribution(es)
        /\ "days" \in DOMAIN x.drawn => x.drawn["days"] = TimeDistribution(es)
    BY <1>5, <2>4, <2>5, <2>6
  <2>8. DOMAIN run[r].drawn \subseteq DOMAIN x.drawn
    BY <2>6
  <2>9. MeterRun(x, o)
    BY <1>5, <2>2, <2>7, <2>8 DEF MeterRun
  <2>10. QED
    BY <1>1, <2>1, <2>9, MeterKeeps
<1>7. CASE /\ ~("vm_statistics" \in ContentOf(r) /\ es # <<>>)
           /\ Goes(r, "filed", TRUE, Nothing, es)
  <2>1. PICK x : Gone(r, "filed", TRUE, Nothing, es, x)
    BY <1>2, <1>7, GoesOn
  <2>2. x.stage = "filed" /\ x.work = es /\ DOMAIN x.drawn = DOMAIN Nothing \cup DOMAIN run[r].drawn
    BY <2>1 DEF Gone
  <2>3. DOMAIN x.drawn = DOMAIN run[r].drawn
    BY <2>2, PartsAre
  <2>4. ~o.nobody => ~("vm_statistics" \in ToSet(Content(o.task)) /\ es # <<>>)
    BY <1>2, <1>4, <1>7
  <2>5. "vm_statistics" \notin DOMAIN x.drawn
    <3>1. "vm_statistics" \notin {"Contents", "name", "user_statistics", "User VM Creation"}
      OBVIOUS
    <3>2. DOMAIN x.drawn \subseteq {"Contents", "name", "user_statistics", "User VM Creation"}
      BY <1>5, <2>3
    <3>3. QED
      BY <3>1, <3>2
  <2>6. MeterRun(x, o)
    BY <1>5, <2>2, <2>3, <2>4, <2>5 DEF MeterRun
  <2>7. QED
    BY <1>1, <2>1, <2>6, MeterKeeps
<1>8. CASE Goes(r, "filed", TRUE,
               Updated(IF Info[TaskOf(r)].period = "month"
                       THEN Entry("days", TimeDistribution(es)) ELSE Nothing,
                       [vm_statistics |-> StateDistribution(es),
                        flavors |-> FlavorDistribution(es)]), es)
  <2> PICK days : days = IF Info[TaskOf(r)].period = "month"
                         THEN Entry("days", TimeDistribution(es)) ELSE Nothing
    OBVIOUS
  <2>1. days = Nothing \/ days = Entry("days", TimeDistribution(es))
    OBVIOUS
  <2>2. QED
    BY <1>6, <1>8, <2>1
<1>9. QED
  BY <1>7, <1>8 DEF VmStatistics

-----------------------------------------------------------------------------
(***************************************************************************)
(* What the charts of an alarm report count.  However the list was sorted  *)
(* and rewritten, it is a permutation of the alarms as they were fetched.  *)
(***************************************************************************)

\* A test that only looks at what the charts leave alone holds as often.
LEMMA SameCount ==
  ASSUME NEW given \in Seq(Alarms), NEW s, Permutes(s, given),
         NEW I \in SUBSET DOMAIN s, NEW J \in SUBSET DOMAIN given,
         \A m \in DOMAIN s, n \in DOMAIN given : Alike(s[m], given[n]) => (m \in I <=> n \in J)
  PROVE  Cardinality(I) = Cardinality(J)
<1>1. PICK p \in [DOMAIN s -> DOMAIN given] :
        /\ \A m, n \in DOMAIN s : p[m] = p[n] => m = n
        /\ \A n \in DOMAIN s : Alike(s[n], given[p[n]])
  BY DEF Permutes
<1>2. s \in Seq(Left) /\ Len(s) = Len(given)
  BY DEF Permutes
<1> PICK S : S = DOMAIN s
  OBVIOUS
<1> PICK G : G = DOMAIN given
  OBVIOUS
<1>3. IsFiniteSet(S) /\ IsFiniteSet(G) /\ Cardinality(S) = Cardinality(G)
  BY <1>2, DomainOf
<1>4. \A n \in G : \E m \in S : p[m] = n
  BY <1>1, <1>3, Reaches
<1> DEFINE f == [m \in I |-> p[m]]
<1>5. IsFiniteSet(I)
  BY <1>3, FS_Subset
<1>6. f \in [I -> J]
  BY <1>1
<1>7. \A m, n \in I : f[m] = f[n] => m = n
  BY <1>1
<1>8. \A n \in J : \E m \in I : f[m] = n
  BY <1>1, <1>4
<1> HIDE DEF f
<1>9. QED
  BY <1>5, <1>6, <1>7, <1>8, SameSize

Grouped(groups, values, s, key) ==
  /\ Lists(values, ToSet(key))
  /\ DOMAIN groups = 1 .. Cardinality(ToSet(key))
  /\ \A n \in DOMAIN groups : GroupOf(groups[n], s, At(DOMAIN s, key, values[n]))

LEMMA GroupsAre ==
  ASSUME NEW T, NEW s \in Seq(T), NEW key \in [DOMAIN s -> Int]
  PROVE  \E values : Grouped(Groups(s, key), values, s, key)
<1> PICK D : D = DOMAIN s
  OBVIOUS
<1> PICK V : V = ToSet(key)
  OBVIOUS
<1>1. D \subseteq Int /\ IsFiniteSet(D)
  BY DomainOf
<1>2. V \in SUBSET Int /\ V = {key[i] : i \in D}
  BY DEF ToSet
<1>3. IsFiniteSet(V)
  <2>1. key \in [D -> V] /\ \A v \in V : \E i \in D : key[i] = v
    BY <1>2
  <2>2. key \in Surjection(D, V)
    BY <2>1, Fun_IsSurj
  <2>3. QED
    BY <1>1, <2>2, FS_Surjection
<1> PICK values : values = Ascending(V)
  OBVIOUS
<1>4. Lists(values, V)
  BY <1>2, <1>3, AscendingLists
<1>5. DOMAIN values = 1 .. Cardinality(V)
  BY <1>4 DEF Lists
<1>6. /\ DOMAIN Groups(s, key) = DOMAIN values
      /\ \A n \in DOMAIN values : Groups(s, key)[n] = Pick(s, At(D, key, values[n]))
  BY DEF Groups, At
<1>7. ASSUME NEW n \in DOMAIN values
      PROVE  GroupOf(Groups(s, key)[n], s, At(D, key, values[n]))
  <2> PICK I : I = At(D, key, values[n])
    OBVIOUS
  <2>1. I \in SUBSET Int /\ IsFiniteSet(I)
    <3>1. I \in SUBSET D
      BY DEF At
    <3>2. QED
      BY <1>1, <3>1, FS_Subset
  <2>2. GroupOf(Pick(s, I), s, I)
    BY <2>1, PickIs
  <2>3. QED
    BY <1>6, <2>2
<1>8. QED
  BY <1>4, <1>5, <1>6, <1>7 DEF Grouped

LEMMA GroupCounts ==
  ASSUME NEW T, NEW s \in Seq(T), NEW I \in SUBSET DOMAIN s, NEW g, GroupOf(g, s, I)
  PROVE  /\ Cardinality(I) \in Nat /\ DOMAIN g = 1 .. Cardinality(I) /\ Len(g) = Cardinality(I)
         /\ \A m \in DOMAIN g : \E i \in I : g[m] = s[i]
         /\ \A A \in SUBSET T :
              Cardinality(Within(g, DOMAIN g, A)) = Cardinality(Within(s, I, A))
<1>1. PICK order : Lists(order, I) /\ g = [m \in 1 .. Cardinality(I) |-> s[order[m]]]
  BY DEF GroupOf
<1> PICK c : c = Cardinality(I)
  OBVIOUS
<1>2. c \in Nat /\ order \in [1 .. c -> I] /\ g = [m \in 1 .. c |-> s[order[m]]]
  BY <1>1 DEF Lists
<1>3. DOMAIN g = 1 .. c /\ \A m \in 1 .. c : g[m] = s[order[m]] /\ order[m] \in I
  BY <1>2
<1>4. \A i \in I : s[i] \in T
  OBVIOUS
<1>5. Len(g) = c
  <2>1. g \in [1 .. c -> T]
    BY <1>2, <1>3, <1>4
  <2>2. QED
    BY <1>2, <2>1, SequenceOf
<1>6. ASSUME NEW A \in SUBSET T
      PROVE  Cardinality(Within(g, DOMAIN g, A)) = Cardinality(Within(s, I, A))
  <2> PICK B : B = Within(s, I, A)
    OBVIOUS
  <2>1. B \in SUBSET I
    BY DEF Within
  <2>2. Cardinality({m \in 1 .. Cardinality(I) : order[m] \in B}) = Cardinality(B)
    BY <1>1, <2>1, PartListed
  <2>3. {m \in 1 .. Cardinality(I) : order[m] \in B} = Within(g, DOMAIN g, A)
    BY <1>3 DEF Within
  <2>4. QED
    BY <2>2, <2>3
<1>7. QED
  BY <1>2, <1>3, <1>5, <1>6

\* The sizes of the groups add up.
Sizes(f, I, K, key, values) ==
  /\ IsFiniteSet(I) /\ key \in [I -> K]
  /\ Lists(values, K) /\ DOMAIN f = 1 .. Cardinality(K)
  /\ \A n \in DOMAIN f : f[n] = Cardinality(At(I, key, values[n]))

LEMMA TotalOfGroups ==
  ASSUME NEW I, NEW K, NEW key, NEW values, NEW f, Sizes(f, I, K, key, values)
  PROVE  Total(f) = Cardinality(I)
<1>0. /\ IsFiniteSet(I) /\ key \in [I -> K]
      /\ Lists(values, K) /\ DOMAIN f = 1 .. Cardinality(K)
      /\ \A n \in DOMAIN f : f[n] = Cardinality(At(I, key, values[n]))
  BY DEF Sizes
<1> PICK D : D = DOMAIN f
  OBVIOUS
<1>1. /\ values \in [D -> K] /\ \A m, n \in D : values[m] = values[n] => m = n
      /\ \A x \in K : \E n \in D : values[n] = x
  BY <1>0 DEF Lists
<1> DEFINE at == [i \in I |-> CHOOSE n \in D : values[n] = key[i]]
<1>2. \A i \in I : at[i] \in D /\ values[at[i]] = key[i]
  BY <1>0, <1>1
<1>3. at \in [I -> D]
  BY <1>2
<1>4. ASSUME NEW n \in D
      PROVE  At(I, key, values[n]) = At(I, at, n)
  <2>1. \A i \in I : key[i] = values[n] <=> at[i] = n
    BY <1>0, <1>1, <1>2
  <2> HIDE DEF at
  <2>2. QED
    BY <2>1 DEF At
<1> HIDE DEF at
<1>5. \A n \in DOMAIN f : f[n] = Cardinality(At(I, at, n))
  BY <1>0, <1>4
<1>6. QED
  BY <1>0, <1>3, <1>5, TotalOfParts

LEMMA Wider ==
  ASSUME NEW s \in Seq(Alarms)
  PROVE  s \in Seq(Left)
<1>1. \A a \in Alarms : a \in Left
  BY DEF Alarms, Left
<1> PICK T : T = Alarms
  OBVIOUS
<1> PICK U : U = Left
  OBVIOUS
<1>2. s \in Seq(T) /\ \A a \in T : a \in U
  BY <1>1
<1>3. s \in Seq(U)
  BY <1>2
<1>4. QED
  BY <1>3

\* The keys of the groups are numbers.
LEMMA Keys ==
  ASSUME NEW s \in Seq(Left)
  PROVE  /\ Resource(s) \in [DOMAIN s -> Int] /\ Uuid(s) \in [DOMAIN s -> Int]
         /\ User(s) \in [DOMAIN s -> Int]
         /\ \A period \in {"day", "week", "month"} : Axis(s, period) \in [DOMAIN s -> Int]
<1>1. \A i \in DOMAIN s : s[i] \in Left
  OBVIOUS
<1>2. \A i \in DOMAIN s : s[i].resource \in DOMAIN Machine /\ s[i].time \in {"first", "middle", "end"}
  BY <1>1 DEF Left
<1>3. \A x \in DOMAIN Machine : x \in Int /\ Machine[x].uuid \in Int /\ Machine[x].user \in Int
  BY AlarmAssumption
<1>4. Resource(s) \in [DOMAIN s -> Int]
  BY <1>2, <1>3 DEF Resource
<1>5. Uuid(s) \in [DOMAIN s -> Int]
  BY <1>2, <1>3 DEF Uuid
<1>6. User(s) \in [DOMAIN s -> Int]
  BY <1>2, <1>3 DEF User
<1>7. \A period \in {"day", "week", "month"}, time \in {"first", "middle", "end"} :
        Label[period][time] \in Int
  BY DEF Label
<1>8. \A period \in {"day", "week", "month"} : Axis(s, period) \in [DOMAIN s -> Int]
  BY <1>2, <1>7 DEF Axis
<1>9. QED
  BY <1>4, <1>5, <1>6, <1>8

LEMMA GivenPermutes ==
  ASSUME NEW given \in Seq(Alarms)
  PROVE  Permutes(given, given)
<1>1. given \in Seq(Left)
  BY Wider
<1> DEFINE p == [n \in DOMAIN given |-> n]
<1>2. /\ p \in [DOMAIN given -> DOMAIN given]
      /\ \A m, n \in DOMAIN given : p[m] = p[n] => m = n
  OBVIOUS
<1>3. \A n \in DOMAIN given : Alike(given[n], given[p[n]])
  BY DEF Alike
<1> HIDE DEF p
<1>4. QED
  BY <1>1, <1>2, <1>3 DEF Permutes

\* In another order.
LEMMA Rearranged ==
  ASSUME NEW given \in Seq(Alarms), NEW s, Permutes(s, given), NEW t, GroupOf(t, s, DOMAIN s)
  PROVE  Permutes(t, given)
<1>1. PICK p \in [DOMAIN s -> DOMAIN given] :
        /\ \A m, n \in DOMAIN s : p[m] = p[n] => m = n
        /\ \A n \in DOMAIN s : Alike(s[n], given[p[n]])
  BY DEF Permutes
<1>2. s \in Seq(Left) /\ Len(s) = Len(given)
  BY DEF Permutes
<1> PICK c : c = Cardinality(DOMAIN s)
  OBVIOUS
<1>3. c = Len(s) /\ c \in Nat
  BY <1>2, DomainOf
<1>4. PICK order : Lists(order, DOMAIN s) /\ t = [m \in 1 .. c |-> s[order[m]]]
  BY DEF GroupOf
<1>5. /\ order \in [1 .. c -> DOMAIN s]
      /\ \A m, n \in 1 .. c : order[m] = order[n] => m = n
  BY <1>4 DEF Lists
<1>6. t \in [1 .. c -> Left]
  <2>1. \A m \in 1 .. c : s[order[m]] \in Left
    BY <1>2, <1>5
  <2> PICK T : T = Left
    OBVIOUS
  <2>2. QED
    BY <1>4, <2>1
<1>7. t \in Seq(Left) /\ Len(t) = c /\ DOMAIN t = 1 .. c
  BY <1>3, <1>6, SequenceOf
<1> DEFINE q == [m \in 1 .. c |-> p[order[m]]]
<1>8. q \in [1 .. c -> DOMAIN given]
  BY <1>1, <1>5
<1>9. \A m, n \in 1 .. c : q[m] = q[n] => m = n
  BY <1>1, <1>5
<1>10. \A n \in 1 .. c : Alike(t[n], given[q[n]])
  BY <1>1, <1>4, <1>5
<1> HIDE DEF q
<1>11. QED
  BY <1>2, <1>3, <1>7, <1>8, <1>9, <1>10 DEF Permutes

LEMMA RetypedIs ==
  ASSUME NEW s \in Seq(Left)
  PROVE  /\ Retyped(s) \in Seq(Left) /\ DOMAIN Retyped(s) = DOMAIN s /\ Len(Retyped(s)) = Len(s)
         /\ \A i \in DOMAIN s :
              /\ Retyped(s)[i].type = TypeOf(s[i])
              /\ \A b : Alike(s[i], b) => Alike(Retyped(s)[i], b)
<1> PICK U : U = Left
  OBVIOUS
<1>1. Len(s) \in Nat /\ DOMAIN s = 1 .. Len(s) /\ \A i \in DOMAIN s : s[i] \in U
  OBVIOUS
<1>2. DOMAIN Retyped(s) = DOMAIN s
  BY DEF Retyped
<1>3. ASSUME NEW i \in DOMAIN s
      PROVE  /\ Retyped(s)[i] \in Left
             /\ Retyped(s)[i].type = TypeOf(s[i])
             /\ \A b : Alike(s[i], b) => Alike(Retyped(s)[i], b)
  <2> PICK a : a = s[i]
    OBVIOUS
  <2> PICK type : type = TypeOf(a)
    OBVIOUS
  <2> PICK z : z = Retype(a)
    OBVIOUS
  <2>0. type = IF StartsWithV(a.type) THEN "vm" ELSE "physical"
    BY DEF TypeOf
  <2>1. Retyped(s)[i] = z
    BY DEF Retyped
  <2>2. a \in Left
    BY <1>1
  <2>3. /\ z.resource = a.resource /\ z.severity = a.severity /\ z.status = a.status
        /\ z.time = a.time /\ z.stamp = a.stamp /\ z.type = type /\ z \in Left
    BY <2>0, <2>2 DEF Left, Retype
  <2>4. StartsWithV(type) <=> StartsWithV(a.type)
    BY <2>0 DEF StartsWithV
  <2>5. ASSUME NEW b, Alike(a, b) PROVE Alike(z, b)
    <3>1. z.type = type
      BY <2>3
    <3>2. StartsWithV(z.type) = StartsWithV(b.type)
      BY <2>4, <2>5, <3>1 DEF Alike, StartsWithV
    <3>3. QED
      BY <2>3, <2>5, <3>2 DEF Alike
  <2>6. QED
    BY <2>1, <2>3, <2>5
<1>4. Retyped(s) \in [1 .. Len(s) -> Left]
  <2>1. Retyped(s) = [i \in 1 .. Len(s) |-> Retyped(s)[i]]
    BY <1>1 DEF Retyped
  <2> PICK f : f = Retyped(s)
    OBVIOUS
  <2>2. f = [i \in 1 .. Len(s) |-> f[i]] /\ \A i \in 1 .. Len(s) : f[i] \in Left
    BY <1>1, <1>3, <2>1
  <2>3. QED
    BY <2>2
<1>5. QED
  BY <1>1, <1>2, <1>3, <1>4, SequenceOf

LEMMA RetypedPermutes ==
  ASSUME NEW given \in Seq(Alarms), NEW s, Permutes(s, given)
  PROVE  Permutes(Retyped(s), given)
<1>1. PICK p \in [DOMAIN s -> DOMAIN given] :
        /\ \A m, n \in DOMAIN s : p[m] = p[n] => m = n
        /\ \A n \in DOMAIN s : Alike(s[n], given[p[n]])
  BY DEF Permutes
<1>2. s \in Seq(Left) /\ Len(s) = Len(given)
  BY DEF Permutes
<1>3. /\ Retyped(s) \in Seq(Left) /\ DOMAIN Retyped(s) = DOMAIN s /\ Len(Retyped(s)) = Len(s)
      /\ \A n \in DOMAIN s : Alike(Retyped(s)[n], given[p[n]])
  BY <1>1, <1>2, RetypedIs
<1>4. QED
  BY <1>1, <1>2, <1>3 DEF Permutes

\* The alarms with a severity or a status.
With(v) == {a \in Alarms : v \in {a.severity, a.status}}

\* The rows of the table: one for each machine, and how many alarms it counts.
RowsCount(rows, values, given) ==
  /\ Lists(values, ToSet(Uuid(given)))
  /\ DOMAIN rows = 1 .. Cardinality(ToSet(Uuid(given)))
  /\ Len(rows) = Cardinality(ToSet(Uuid(given)))
  /\ \A n \in DOMAIN rows :
       /\ rows[n].sum = Cardinality(At(DOMAIN given, Uuid(given), values[n]))
       /\ \A v \in Severities \cup Statuses :
            rows[n].of[v] =
              Cardinality(Within(given, At(DOMAIN given, Uuid(given), values[n]), With(v)))

LEMMA RowsAre ==
  ASSUME NEW given \in Seq(Alarms)
  PROVE  \E values : RowsCount(Rows(given), values, given)
<1> PICK key : key = Uuid(given)
  OBVIOUS
<1>1. key \in [DOMAIN given -> Int]
  BY Wider, Keys
<1>2. PICK values : Grouped(Groups(given, key), values, given, key)
  BY <1>1, GroupsAre
<1> PICK groups : groups = Groups(given, key)
  OBVIOUS
<1> PICK rows : rows = Rows(given)
  OBVIOUS
<1> PICK c : c = Cardinality(ToSet(key))
  OBVIOUS
<1>3. Lists(values, ToSet(key)) /\ c \in Nat /\ DOMAIN groups = 1 .. c
  BY <1>2 DEF Grouped, Lists
<1>4. rows = [n \in 1 .. c |-> Row(groups[n])]
  BY <1>3 DEF Rows
<1>5. DOMAIN rows = 1 .. c /\ Len(rows) = c
  <2> PICK T : T = {Row(groups[n]) : n \in 1 .. c}
    OBVIOUS
  <2>1. rows \in [1 .. c -> T]
    BY <1>4
  <2>2. QED
    BY <1>3, <2>1, SequenceOf
<1>6. ASSUME NEW n \in 1 .. c
      PROVE  /\ rows[n].sum = Cardinality(At(DOMAIN given, key, values[n]))
             /\ \A v \in Severities \cup Statuses :
                  rows[n].of[v] =
                    Cardinality(Within(given, At(DOMAIN given, key, values[n]), With(v)))
  <2> PICK g : g = groups[n]
    OBVIOUS
  <2> PICK I : I = At(DOMAIN given, key, values[n])
    OBVIOUS
  <2>1. GroupOf(g, given, I) /\ I \in SUBSET DOMAIN given
    BY <1>2, <1>3 DEF Grouped, At
  <2>2. /\ Len(g) = Cardinality(I) /\ \A m \in DOMAIN g : \E i \in I : g[m] = given[i]
        /\ \A A \in SUBSET Alarms :
             Cardinality(Within(g, DOMAIN g, A)) = Cardinality(Within(given, I, A))
    BY <2>1, GroupCounts
  <2>3. rows[n] = Row(g)
    BY <1>4
  <2>4. rows[n].sum = Cardinality(I)
    BY <2>2, <2>3 DEF Row
  <2>5. ASSUME NEW v \in Severities \cup Statuses
        PROVE  rows[n].of[v] = Cardinality(Within(given, I, With(v)))
    <3>1. Row(g).of[v] = Cardinality({m \in DOMAIN g : v \in {g[m].severity, g[m].status}})
      BY DEF Row, CountOf
    <3>2. \A m \in DOMAIN g : g[m] \in Alarms
      BY <2>1, <2>2
    <3>3. {m \in DOMAIN g : v \in {g[m].severity, g[m].status}} = Within(g, DOMAIN g, With(v))
      BY <3>2 DEF Within, With
    <3>4. With(v) \in SUBSET Alarms
      BY DEF With
    <3>5. QED
      BY <2>2, <2>3, <3>1, <3>3, <3>4
  <2>6. QED
    BY <2>4, <2>5
<1>7. RowsCount(rows, values, given)
  BY <1>3, <1>5, <1>6 DEF RowsCount
<1>8. QED
  BY <1>7

LEMMA TableHolds ==
  ASSUME NEW given \in Seq(Alarms)
  PROVE  TableTells(Rows(given), given)
<1>1. PICK values : RowsCount(Rows(given), values, given)
  BY RowsAre
<1> PICK rows : rows = Rows(given)
  OBVIOUS
<1> PICK I : I = DOMAIN given
  OBVIOUS
<1> PICK key : key = Uuid(given)
  OBVIOUS
<1> PICK K : K = ToSet(key)
  OBVIOUS
<1> PICK f : f = [n \in DOMAIN rows |-> rows[n].sum]
  OBVIOUS
<1>2. IsFiniteSet(I) /\ Cardinality(I) = Len(given)
  BY DomainOf
<1>3. key \in [I -> K]
  BY Wider, Keys DEF ToSet
<1>4. /\ Lists(values, K) /\ DOMAIN rows = 1 .. Cardinality(K) /\ Len(rows) = Cardinality(K)
      /\ \A n \in DOMAIN rows : rows[n].sum = Cardinality(At(I, key, values[n]))
  BY <1>1 DEF RowsCount
<1>5. /\ DOMAIN f = 1 .. Cardinality(K)
      /\ \A n \in DOMAIN f : f[n] = Cardinality(At(I, key, values[n]))
  BY <1>4
<1>6. Sizes(f, I, K, key, values)
  BY <1>2, <1>3, <1>4, <1>5 DEF Sizes
<1>7. Total(f) = Cardinality(I)
  BY <1>6, TotalOfGroups
<1>8. QED
  BY <1>2, <1>4, <1>7 DEF TableTells

LEMMA StatusesHold ==
  ASSUME NEW given, Given(given), NEW s, Permutes(s, given)
  PROVE  StatusesTell(Counts(s, Statuses, LAMBDA a : a.status), Rows(given), given)
<1>0. given \in Seq(Alarms) /\ \A i \in DOMAIN given : given[i].severity \notin Statuses
  BY DEF Given
<1>1. PICK values : RowsCount(Rows(given), values, given)
  BY <1>0, RowsAre
<1> PICK rows : rows = Rows(given)
  OBVIOUS
<1> PICK key : key = Uuid(given)
  OBVIOUS
<1> PICK K : K = ToSet(key)
  OBVIOUS
<1> PICK statuses : statuses = Counts(s, Statuses, LAMBDA a : a.status)
  OBVIOUS
<1>2. key \in [DOMAIN given -> K]
  BY <1>0, Wider, Keys DEF ToSet
<1>3. IsFiniteSet(DOMAIN given)
  BY <1>0, DomainOf
<1>4. ASSUME NEW v \in Statuses
      PROVE  /\ statuses[v] = CountOf(given, LAMBDA a : a.status = v)
             /\ statuses[v] = Total([n \in DOMAIN rows |-> rows[n].of[v]])
  <2> PICK I : I = {i \in DOMAIN given : given[i].status = v}
    OBVIOUS
  <2> PICK J : J = {i \in DOMAIN s : s[i].status = v}
    OBVIOUS
  <2>1. statuses[v] = Cardinality(J)
    BY DEF Counts, CountOf
  <2>2. Cardinality(J) = Cardinality(I)
    <3>1. I \in SUBSET DOMAIN given /\ J \in SUBSET DOMAIN s
      OBVIOUS
    <3>2. \A m \in DOMAIN s, n \in DOMAIN given : Alike(s[m], given[n]) => (m \in J <=> n \in I)
      BY DEF Alike
    <3>3. QED
      BY <1>0, <3>1, <3>2, SameCount
  <2>3. CountOf(given, LAMBDA a : a.status = v) = Cardinality(I)
    BY DEF CountOf
  <2> PICK f : f = [n \in DOMAIN rows |-> rows[n].of[v]]
    OBVIOUS
  <2> PICK at : at = [i \in I |-> key[i]]
    OBVIOUS
  <2>4. /\ Lists(values, K) /\ DOMAIN rows = 1 .. Cardinality(K)
        /\ \A n \in DOMAIN rows :
             rows[n].of[v] = Cardinality(Within(given, At(DOMAIN given, key, values[n]), With(v)))
    BY <1>1 DEF RowsCount
  <2>5. DOMAIN f = 1 .. Cardinality(K)
    BY <2>4
  <2>6. ASSUME NEW n \in DOMAIN f PROVE f[n] = Cardinality(At(I, at, values[n]))
    <3>1. f[n] = Cardinality(Within(given, At(DOMAIN given, key, values[n]), With(v)))
      BY <2>4
    <3>2. Within(given, At(DOMAIN given, key, values[n]), With(v)) = At(I, at, values[n])
      BY <1>0 DEF Within, At, With
    <3>3. QED
      BY <3>1, <3>2
  <2>7. IsFiniteSet(I)
    <3>1. I \in SUBSET DOMAIN given
      OBVIOUS
    <3>2. QED
      BY <1>3, <3>1, FS_Subset
  <2>8. at \in [I -> K]
    BY <1>2
  <2>9. Sizes(f, I, K, at, values)
    BY <2>4, <2>5, <2>6, <2>7, <2>8 DEF Sizes
  <2>10. Total(f) = Cardinality(I)
    BY <2>9, TotalOfGroups
  <2>11. QED
    BY <2>1, <2>2, <2>3, <2>10
<1>5. StatusesTell(statuses, rows, given)
  BY <1>4 DEF StatusesTell
<1>6. QED
  BY <1>5

LEMMA TypesHold ==
  ASSUME NEW given \in Seq(Alarms), NEW s, Permutes(s, given)
  PROVE  TypesTell(TypeDistribute(s), given)
<1>1. s \in Seq(Left)
  BY DEF Permutes
<1> PICK t : t = Retyped(s)
  OBVIOUS
<1>2. Permutes(t, given)
  BY RetypedPermutes
<1>3. DOMAIN t = DOMAIN s /\ \A i \in DOMAIN s : t[i].type = TypeOf(s[i])
  BY <1>1, RetypedIs
<1> PICK types : types = TypeDistribute(s)
  OBVIOUS
<1>4. /\ DOMAIN types = {t[i].type : i \in DOMAIN t}
      /\ \A ty \in DOMAIN types : types[ty] = Cardinality({i \in DOMAIN t : t[i].type = ty})
  BY DEF TypeDistribute, Counts, CountOf
<1>5. ASSUME NEW ty \in DOMAIN types
      PROVE  types[ty] = CountOf(given, LAMBDA a : StartsWithV(a.type) = (ty = "vm"))
  <2> PICK I : I = {i \in DOMAIN s : t[i].type = ty}
    OBVIOUS
  <2> PICK J : J = {i \in DOMAIN given : StartsWithV(given[i].type) = (ty = "vm")}
    OBVIOUS
  <2>1. ty \in {"vm", "physical"}
    BY <1>3, <1>4 DEF TypeOf
  <2>2. \A i \in DOMAIN s : i \in I <=> StartsWithV(s[i].type) = (ty = "vm")
    BY <1>3, <2>1 DEF TypeOf, StartsWithV
  <2>3. \A m \in DOMAIN s, n \in DOMAIN given : Alike(s[m], given[n]) => (m \in I <=> n \in J)
    BY <2>2 DEF Alike, StartsWithV
  <2>4. I \in SUBSET DOMAIN s /\ J \in SUBSET DOMAIN given
    OBVIOUS
  <2>5. Cardinality(I) = Cardinality(J)
    BY <2>3, <2>4, SameCount
  <2>6. types[ty] = Cardinality(I)
    BY <1>3, <1>4
  <2>7. CountOf(given, LAMBDA a : StartsWithV(a.type) = (ty = "vm")) = Cardinality(J)
    BY DEF CountOf
  <2>8. QED
    BY <2>5, <2>6, <2>7
<1>6. TypesTell(types, given)
  BY <1>5 DEF TypesTell
<1>7. QED
  BY <1>6

LEMMA GroupFirst ==
  ASSUME NEW T, NEW s \in Seq(T), NEW key, NEW values, NEW groups,
         Grouped(groups, values, s, key), DOMAIN key = DOMAIN s, NEW n \in DOMAIN groups
  PROVE  /\ Len(groups[n]) = Cardinality(At(DOMAIN s, key, values[n]))
         /\ \E i \in DOMAIN s : key[i] = values[n] /\ groups[n][1] = s[i]
         /\ 1 \in DOMAIN groups[n]
<1> PICK I : I = At(DOMAIN s, key, values[n])
  OBVIOUS
<1> PICK g : g = groups[n]
  OBVIOUS
<1>1. GroupOf(g, s, I) /\ values[n] \in ToSet(key)
  BY DEF Grouped, Lists
<1>2. I \in SUBSET DOMAIN s /\ I # {}
  BY <1>1 DEF At, ToSet
<1>3. /\ Cardinality(I) \in Nat /\ DOMAIN g = 1 .. Cardinality(I) /\ Len(g) = Cardinality(I)
      /\ \A m \in DOMAIN g : \E i \in I : g[m] = s[i]
  BY <1>1, <1>2, GroupCounts
<1>4. Cardinality(I) # 0
  <2>1. IsFiniteSet(DOMAIN s)
    BY DomainOf
  <2>2. IsFiniteSet(I)
    BY <1>2, <2>1, FS_Subset
  <2>3. QED
    BY <1>2, <2>2, FS_EmptySet
<1>5. 1 \in DOMAIN g
  BY <1>3, <1>4
<1>6. \E i \in I : g[1] = s[i]
  BY <1>3, <1>5
<1>7. QED
  BY <1>3, <1>5, <1>6 DEF At

LEMMA UsersHold ==
  ASSUME NEW given \in Seq(Alarms), NEW s, Permutes(s, given)
  PROVE  UsersTell(UserDistribute(s), given)
<1>1. s \in Seq(Left) /\ Len(s) = Len(given)
  BY DEF Permutes
<1> PICK key : key = User(s)
  OBVIOUS
<1>2. key \in [DOMAIN s -> Int] /\ \A i \in DOMAIN s : key[i] = Machine[s[i].resource].user
  BY <1>1, Keys DEF User
<1>3. PICK values : Grouped(Groups(s, key), values, s, key)
  BY <1>1, <1>2, GroupsAre
<1> PICK groups : groups = Groups(s, key)
  OBVIOUS
<1> PICK users : users = UserDistribute(s)
  OBVIOUS
<1>4. /\ DOMAIN users = DOMAIN groups
      /\ \A n \in DOMAIN groups :
           users[n] = [user |-> User(groups[n])[1], count |-> Len(groups[n])]
  BY DEF UserDistribute
<1>5. ASSUME NEW n \in DOMAIN users
      PROVE  /\ users[n].user = values[n]
             /\ users[n].count = Cardinality(At(DOMAIN s, key, values[n]))
             /\ users[n].count =
                  CountOf(given, LAMBDA a : Machine[a.resource].user = users[n].user)
  <2>1. /\ Len(groups[n]) = Cardinality(At(DOMAIN s, key, values[n]))
        /\ \E i \in DOMAIN s : key[i] = values[n] /\ groups[n][1] = s[i]
        /\ 1 \in DOMAIN groups[n]
    BY <1>1, <1>2, <1>3, <1>4, GroupFirst
  <2>2. User(groups[n])[1] = values[n]
    BY <1>2, <2>1 DEF User
  <2>3. users[n].user = values[n] /\ users[n].count = Cardinality(At(DOMAIN s, key, values[n]))
    BY <1>4, <2>1, <2>2
  <2> PICK I : I = At(DOMAIN s, key, values[n])
    OBVIOUS
  <2> PICK J : J = {i \in DOMAIN given : Machine[given[i].resource].user = values[n]}
    OBVIOUS
  <2>4. I \in SUBSET DOMAIN s /\ J \in SUBSET DOMAIN given
    BY DEF At
  <2>5. \A k \in DOMAIN s, l \in DOMAIN given : Alike(s[k], given[l]) => (k \in I <=> l \in J)
    BY <1>2 DEF Alike, At
  <2>6. Cardinality(I) = Cardinality(J)
    BY <2>4, <2>5, SameCount
  <2>7. CountOf(given, LAMBDA a : Machine[a.resource].user = users[n].user) = Cardinality(J)
    BY <2>3 DEF CountOf
  <2>8. QED
    BY <2>3, <2>6, <2>7
<1> PICK f : f = [n \in DOMAIN users |-> users[n].count]
  OBVIOUS
<1>6. Sizes(f, DOMAIN s, ToSet(key), key, values)
  <2>1. IsFiniteSet(DOMAIN s) /\ key \in [DOMAIN s -> ToSet(key)]
    BY <1>1, <1>2, DomainOf DEF ToSet
  <2>2. Lists(values, ToSet(key)) /\ DOMAIN f = 1 .. Cardinality(ToSet(key))
    BY <1>3, <1>4 DEF Grouped
  <2>3. \A n \in DOMAIN f : f[n] = Cardinality(At(DOMAIN s, key, values[n]))
    BY <1>5
  <2>4. QED
    BY <2>1, <2>2, <2>3 DEF Sizes
<1>7. Total(f) = Len(given)
  BY <1>1, <1>6, TotalOfGroups, DomainOf
<1>8. UsersTell(users, given)
  BY <1>5, <1>7 DEF UsersTell
<1>9. QED
  BY <1>8

LEMMA TimesHold ==
  ASSUME NEW given \in Seq(Alarms), NEW s, Permutes(s, given),
         NEW period \in {"day", "week", "month"}
  PROVE  TimesTell(TimeDistribute(s, period), given)
<1>1. s \in Seq(Left) /\ Len(s) = Len(given)
  BY DEF Permutes
<1> PICK key : key = Axis(s, period)
  OBVIOUS
<1>2. key \in [DOMAIN s -> Int] /\ \A i \in DOMAIN s : key[i] = Label[period][s[i].time]
  BY <1>1, Keys DEF Axis
<1>3. PICK values : Grouped(Groups(s, key), values, s, key)
  BY <1>1, <1>2, GroupsAre
<1> PICK groups : groups = Groups(s, key)
  OBVIOUS
<1> PICK times : times = TimeDistribute(s, period)
  OBVIOUS
<1>4. /\ DOMAIN times = DOMAIN groups
      /\ \A n \in DOMAIN groups :
           times[n] = [label |-> Axis(groups[n], period)[1], count |-> Len(groups[n])]
  BY DEF TimeDistribute
<1>5. ASSUME NEW n \in DOMAIN times
      PROVE  /\ times[n].label = values[n]
             /\ times[n].count = Cardinality(At(DOMAIN s, key, values[n]))
  <2>1. /\ Len(groups[n]) = Cardinality(At(DOMAIN s, key, values[n]))
        /\ \E i \in DOMAIN s : key[i] = values[n] /\ groups[n][1] = s[i]
        /\ 1 \in DOMAIN groups[n]
    BY <1>1, <1>2, <1>3, <1>4, GroupFirst
  <2>2. Axis(groups[n], period)[1] = values[n]
    BY <1>2, <2>1 DEF Axis
  <2>3. QED
    BY <1>4, <2>1, <2>2
<1> PICK f : f = [n \in DOMAIN times |-> times[n].count]
  OBVIOUS
<1>6. Lists(values, ToSet(key)) /\ DOMAIN times = 1 .. Cardinality(ToSet(key))
  BY <1>3, <1>4 DEF Grouped
<1>7. Sizes(f, DOMAIN s, ToSet(key), key, values)
  <2>1. IsFiniteSet(DOMAIN s) /\ key \in [DOMAIN s -> ToSet(key)]
    BY <1>1, <1>2, DomainOf DEF ToSet
  <2>2. \A n \in DOMAIN f : f[n] = Cardinality(At(DOMAIN s, key, values[n]))
    BY <1>5
  <2>3. QED
    BY <1>6, <2>1, <2>2 DEF Sizes
<1>8. Total(f) = Len(given)
  BY <1>1, <1>7, TotalOfGroups, DomainOf
<1>9. \A i, j \in DOMAIN times : times[i].label = times[j].label => i = j
  BY <1>5, <1>6 DEF Lists
<1>10. TimesTell(times, given)
  BY <1>8, <1>9 DEF TimesTell
<1>11. QED
  BY <1>10

\* Where a name stands for the last machine that has it, the names count all
\* alarms just if no two machines share one.
ByName(hosts, name, last, I, key, K, values, N) ==
  /\ IsFiniteSet(I) /\ IsFiniteSet(N)
  /\ key \in [I -> K] /\ \A v \in K : \E i \in I : key[i] = v
  /\ values \in [N -> K] /\ \A m, n \in N : values[m] = values[n] => m = n
  /\ \A v \in K : \E n \in N : values[n] = v
  /\ name \in [N -> DOMAIN hosts] /\ \A x \in DOMAIN hosts : \E n \in N : name[n] = x
  /\ last \in [DOMAIN hosts -> N]
  /\ \A x \in DOMAIN hosts :
       name[last[x]] = x /\ hosts[x] = Cardinality(At(I, key, values[last[x]]))

LEMMA NamesCount ==
  ASSUME NEW hosts, NEW name, NEW last, NEW I, NEW key, NEW K, NEW values, NEW N,
         ByName(hosts, name, last, I, key, K, values, N)
  PROVE  Cardinality(DOMAIN hosts) = Cardinality(N) <=> Total(hosts) = Cardinality(I)
<1> PICK H : H = DOMAIN hosts
  OBVIOUS
<1>1. /\ IsFiniteSet(I) /\ IsFiniteSet(N)
      /\ key \in [I -> K] /\ \A v \in K : \E i \in I : key[i] = v
      /\ values \in [N -> K] /\ \A m, n \in N : values[m] = values[n] => m = n
      /\ \A v \in K : \E n \in N : values[n] = v
  BY DEF ByName
<1>2. /\ name \in [N -> H] /\ \A x \in H : \E n \in N : name[n] = x
      /\ last \in [H -> N]
      /\ \A x \in H : name[last[x]] = x /\ hosts[x] = Cardinality(At(I, key, values[last[x]]))
  BY DEF ByName
<1>3. IsFiniteSet(H)
  <2>1. name \in Surjection(N, H)
    BY <1>2, Fun_IsSurj
  <2>2. QED
    BY <1>1, <2>1, FS_Surjection
<1>4. \A x, y \in H : last[x] = last[y] => x = y
  BY <1>2
<1> PICK P : P = {i \in I : \E x \in H : values[last[x]] = key[i]}
  OBVIOUS
<1>5. Total(hosts) = Cardinality(P)
  <2> DEFINE at == [i \in P |-> CHOOSE x \in H : values[last[x]] = key[i]]
  <2>1. \A i \in P : at[i] \in H /\ values[last[at[i]]] = key[i]
    OBVIOUS
  <2>2. at \in [P -> H]
    BY <2>1
  <2>3. ASSUME NEW x \in H
        PROVE  hosts[x] = Cardinality(At(P, at, x))
    <3>1. \A i \in I : key[i] = values[last[x]] => i \in P /\ at[i] = x
      BY <1>1, <1>2, <1>4, <2>1
    <3> HIDE DEF at
    <3>2. At(P, at, x) = At(I, key, values[last[x]])
      BY <2>1, <3>1 DEF At
    <3>3. QED
      BY <1>2, <3>2
  <2> HIDE DEF at
  <2>4. IsFiniteSet(P)
    <3>1. P \in SUBSET I
      OBVIOUS
    <3>2. QED
      BY <1>1, <3>1, FS_Subset
  <2>5. QED
    BY <2>2, <2>3, <2>4, TotalOfParts
<1>6. ASSUME Cardinality(H) = Cardinality(N) PROVE Total(hosts) = Cardinality(I)
  <2>1. \A n \in N : \E x \in H : last[x] = n
    BY <1>1, <1>2, <1>3, <1>4, <1>6, Reaches
  <2>2. \A i \in I : i \in P
    BY <1>1, <2>1
  <2>3. P = I
    BY <2>2
  <2>4. QED
    BY <1>5, <2>3
<1>7. ASSUME Total(hosts) = Cardinality(I) PROVE Cardinality(H) = Cardinality(N)
  <2>1. P \in SUBSET I
    OBVIOUS
  <2>2. P = I
    BY <1>1, <1>5, <1>7, <2>1, FS_Subset
  <2>3. \A n \in N : \E x \in H : last[x] = n
    <3> SUFFICES ASSUME NEW n \in N PROVE \E x \in H : last[x] = n
      OBVIOUS
    <3>1. PICK i \in I : key[i] = values[n]
      BY <1>1
    <3>2. PICK x \in H : values[last[x]] = key[i]
      BY <2>2, <3>1
    <3>3. QED
      BY <1>1, <1>2, <3>1, <3>2
  <2>4. Cardinality(N) = Cardinality(H)
    BY <1>2, <1>3, <1>4, <2>3, SameSize
  <2>5. QED
    BY <2>4
<1>8. QED
  BY <1>6, <1>7

LEMMA HostsHold ==
  ASSUME NEW given \in Seq(Alarms)
  PROVE  HostsTell(HostDistribute(Rows(given)), given)
<1>1. PICK values : RowsCount(Rows(given), values, given)
  BY RowsAre
<1> PICK rows : rows = Rows(given)
  OBVIOUS
<1> PICK I : I = DOMAIN given
  OBVIOUS
<1> PICK key : key = Uuid(given)
  OBVIOUS
<1> PICK K : K = ToSet(key)
  OBVIOUS
<1> PICK N : N = DOMAIN rows
  OBVIOUS
<1> PICK hosts : hosts = HostDistribute(rows)
  OBVIOUS
<1>2. IsFiniteSet(I) /\ Cardinality(I) = Len(given)
  BY DomainOf
<1>3. key \in [I -> K] /\ \A v \in K : \E i \in I : key[i] = v
  BY Wider, Keys DEF ToSet
<1>4. Lists(values, K) /\ N = 1 .. Cardinality(K)
  BY <1>1 DEF RowsCount
<1>5. /\ Cardinality(K) \in Nat /\ values \in [N -> K]
      /\ \A m, n \in N : values[m] = values[n] => m = n
      /\ \A v \in K : \E n \in N : values[n] = v
  BY <1>4 DEF Lists
<1>6. \A n \in N : rows[n].sum = Cardinality(At(I, key, values[n]))
  BY <1>1 DEF RowsCount
<1>7. IsFiniteSet(N) /\ Cardinality(N) = Cardinality(K)
  BY <1>4, <1>5, Interval
<1> DEFINE Name(i) == IF rows[i].name = "" THEN "Host" \o ToString(i) ELSE rows[i].name
<1> DEFINE Of(x) == CHOOSE i \in DOMAIN rows :
                      Name(i) = x /\ \A j \in DOMAIN rows : Name(j) = x => j <= i
<1> DEFINE name == [i \in N |-> Name(i)]
<1> DEFINE last == [x \in DOMAIN hosts |-> Of(x)]
<1>8. hosts = [n \in {Name(i) : i \in DOMAIN rows} |-> rows[Of(n)].sum]
  BY Zenon DEF HostDistribute
<1> HIDE DEF Name
<1>9. name \in [N -> DOMAIN hosts] /\ \A x \in DOMAIN hosts : \E n \in N : name[n] = x
  BY <1>8
<1>10. ASSUME NEW x \in DOMAIN hosts
       PROVE  Of(x) \in N /\ Name(Of(x)) = x
  <2> PICK J : J = {i \in N : Name(i) = x}
    OBVIOUS
  <2>1. J \in SUBSET Nat /\ J # {} /\ \A i \in J : i <= Cardinality(K)
    <3>1. PICK n \in N : name[n] = x
      BY <1>9
    <3>2. n \in J
      BY <3>1
    <3>3. J \in SUBSET N
      OBVIOUS
    <3>4. N \in SUBSET Nat /\ \A i \in N : i <= Cardinality(K)
      BY <1>4, <1>5
    <3>5. QED
      BY <3>2, <3>3, <3>4
  <2>2. PICK i \in J : \A j \in J : i >= j
    BY <1>5, <2>1, Greatest
  <2>3. i \in N /\ Name(i) = x /\ \A j \in N : Name(j) = x => j <= i
    <3>1. \A j \in J : j <= i
      BY <2>1, <2>2
    <3>2. QED
      BY <3>1
  <2>4. \E k \in DOMAIN rows : Name(k) = x /\ \A j \in DOMAIN rows : Name(j) = x => j <= k
    BY <2>3
  <2>5. Of(x) \in DOMAIN rows /\ Name(Of(x)) = x
    BY <2>4, Zenon
  <2>6. QED
    BY <2>5
<1>11. \A x \in DOMAIN hosts : last[x] = Of(x) /\ hosts[x] = rows[Of(x)].sum
  BY <1>8
<1>12. last \in [DOMAIN hosts -> N]
  BY <1>10
<1>13. ASSUME NEW x \in DOMAIN hosts
       PROVE  name[last[x]] = x /\ hosts[x] = Cardinality(At(I, key, values[last[x]]))
  <2>1. last[x] \in N /\ Name(last[x]) = x /\ hosts[x] = rows[last[x]].sum
    BY <1>10, <1>11
  <2> HIDE DEF last
  <2>2. QED
    BY <1>6, <2>1
<1> HIDE DEF name, last
<1>14. ByName(hosts, name, last, I, key, K, values, N)
  BY <1>2, <1>3, <1>5, <1>7, <1>9, <1>12, <1>13 DEF ByName
<1>15. Cardinality(DOMAIN hosts) = Cardinality(N) <=> Total(hosts) = Cardinality(I)
  BY <1>14, NamesCount
<1>16. HostsTell(hosts, given)
  BY <1>2, <1>7, <1>15 DEF HostsTell
<1>17. QED
  BY <1>16

-----------------------------------------------------------------------------
(* A run of an alarm task.                                                 *)

\* Every member of g is one of s.
Takes(g, s) == \A m \in DOMAIN g : \E i \in DOMAIN s : g[m] = s[i]

LEMMA GroupIsSeq ==
  ASSUME NEW T, NEW s \in Seq(T), NEW I \in SUBSET DOMAIN s, NEW g, GroupOf(g, s, I)
  PROVE  g \in Seq(T) /\ Takes(g, s)
<1>1. PICK order : Lists(order, I) /\ g = [m \in 1 .. Cardinality(I) |-> s[order[m]]]
  BY DEF GroupOf
<1> PICK c : c = Cardinality(I)
  OBVIOUS
<1>2. c \in Nat /\ order \in [1 .. c -> I] /\ g = [m \in 1 .. c |-> s[order[m]]]
  BY <1>1 DEF Lists
<1>3. DOMAIN g = 1 .. c /\ \A m \in 1 .. c : g[m] = s[order[m]] /\ order[m] \in I
  BY <1>2
<1>4. \A i \in I : s[i] \in T
  OBVIOUS
<1>5. g \in [1 .. c -> T]
  BY <1>2, <1>3, <1>4
<1>6. g \in Seq(T)
  BY <1>2, <1>5, SequenceOf
<1>7. QED
  BY <1>3, <1>6 DEF Takes

LEMMA AttachedGiven ==
  ASSUME NEW es \in AlarmAnswers, NEW hosts, NEW found
  PROVE  Given(Attached(es, hosts, found))
<1>1. es \in Seq(Alarms) /\ \A i \in DOMAIN es : es[i].severity \notin Statuses
  BY AlarmAssumption
<1> PICK s : s = Sorted(es, Resource(es))
  OBVIOUS
<1> PICK J : J = {i \in DOMAIN s : /\ s[i].resource \in found
                                   /\ hosts = {} \/ Machine[s[i].resource].uuid \in hosts}
  OBVIOUS
<1>2. Attached(es, hosts, found) = Pick(s, J)
  BY DEF Attached
<1>3. Resource(es) \in [DOMAIN es -> Int]
  BY <1>1, Wider, Keys
<1>4. GroupOf(s, es, DOMAIN es)
  BY <1>1, <1>3, SortedIs
<1>5. s \in Seq(Alarms) /\ Takes(s, es)
  BY <1>1, <1>4, GroupIsSeq
<1>6. J \in SUBSET DOMAIN s /\ J \in SUBSET Int /\ IsFiniteSet(J)
  <2>1. J \in SUBSET DOMAIN s
    OBVIOUS
  <2>2. IsFiniteSet(DOMAIN s) /\ DOMAIN s \subseteq Int
    BY <1>5, DomainOf
  <2>3. QED
    BY <2>1, <2>2, FS_Subset
<1> PICK g : g = Pick(s, J)
  OBVIOUS
<1>7. GroupOf(g, s, J)
  BY <1>6, PickIs
<1>8. g \in Seq(Alarms) /\ Takes(g, s)
  BY <1>5, <1>6, <1>7, GroupIsSeq
<1>9. \A m \in DOMAIN g : g[m].severity \notin Statuses
  BY <1>1, <1>5, <1>8 DEF Takes
<1>10. QED
  BY <1>2, <1>8, <1>9 DEF Given

LEMMA AlarmKeeps ==
  ASSUME Inv, NEW r \in Runs, NEW from, IsAt(r, "alarm", from), from # "failed",
         NEW stage, NEW answered, NEW parts, NEW work, NEW x,
         Gone(r, stage, answered, parts, work, x), UNCHANGED <<objects, translation>>,
         AlarmRun(x, objects[run[r].object])
  PROVE  Inv'
<1>1. /\ run[r] # Null /\ run[r].stage = from
      /\ Info[objects[run[r].object].task].type = "alarm"
      /\ TaskOf(r) = objects[run[r].object].task
      /\ RunKept(run[r], objects[run[r].object])
  BY IsAtIs
<1>2. run' = [run EXCEPT ![r] = x] /\ x.object = run[r].object
      /\ x.answered \in BOOLEAN /\ x.langs \subseteq LanguagesFrom(run[r].object)
  BY DEF Gone
<1>3. CanStart(objects[run[r].object].task)
  BY <1>1 DEF RunKept
<1>4. RunKept(x, objects[x.object])
  BY <1>1, <1>2, <1>3 DEF RunKept
<1>5. QED
  BY <1>1, <1>2, <1>4, StepKeeps

LEMMA AlarmFails ==
  ASSUME Inv, NEW r \in Runs, NEW from, IsAt(r, "alarm", from), from # "failed",
         NEW answered \in BOOLEAN, Fails(r, answered), UNCHANGED <<objects, translation>>,
         answered => AlarmFailure(run[r], objects[run[r].object])
  PROVE  Inv'
<1> PICK o : o = objects[run[r].object]
  OBVIOUS
<1>1. run[r] # Null
  BY IsAtIs
<1>2. Goes(r, "failed", answered, Nothing, run[r].work)
  BY DEF Fails
<1>3. PICK x : Gone(r, "failed", answered, Nothing, run[r].work, x)
  BY <1>1, <1>2, GoesIs
<1>4. /\ x.stage = "failed" /\ x.work = run[r].work
      /\ x.answered <=> (run[r].answered /\ answered)
  BY <1>3 DEF Gone
<1>5. AlarmFailure(x, o)
  BY <1>4 DEF AlarmFailure
<1>6. AlarmRun(x, o)
  BY <1>4, <1>5 DEF AlarmRun
<1>7. QED
  BY <1>3, <1>6, AlarmKeeps

LEMMA AllAlarmEventKeeps ==
  ASSUME Inv, NEW r \in Runs, AllAlarmEvent(r)
  PROVE  Inv'
<1> PICK o : o = objects[run[r].object]
  OBVIOUS
<1>1. IsAt(r, "alarm", "fetch") /\ UNCHANGED <<objects, translation>>
  BY DEF AllAlarmEvent
<1>2. run[r] # Null /\ run[r].stage = "fetch" /\ RunKept(run[r], o) /\ Info[o.task].type = "alarm"
  BY <1>1, IsAtIs
<1>3. DOMAIN run[r].drawn = {}
  BY <1>2 DEF RunKept, AlarmRun
<1>4. ASSUME NEW answered \in BOOLEAN, NEW given, Given(given),
             Goes(r, "table", answered, Nothing, Fetched(given))
      PROVE  Inv'
  <2>1. PICK x : Gone(r, "table", answered, Nothing, Fetched(given), x)
    BY <1>2, <1>4, GoesIs
  <2>2. x.stage = "table" /\ x.work = Fetched(given)
        /\ DOMAIN x.drawn = DOMAIN Nothing \cup DOMAIN run[r].drawn
    BY <2>1 DEF Gone
  <2>3. DOMAIN x.drawn = {}
    BY <1>3, <2>2, PartsAre
  <2>4. x.work.given = given
    BY <2>2 DEF Fetched
  <2>5. AlarmRun(x, o)
    BY <1>4, <2>2, <2>3, <2>4 DEF AlarmRun
  <2>6. QED
    BY <1>1, <2>1, <2>5, AlarmKeeps
<1>5. Given(<<>>)
  <2> PICK T : T = Alarms
    OBVIOUS
  <2>1. <<>> \in Seq(T)
    OBVIOUS
  <2>2. QED
    BY <2>1 DEF Given
<1>6. CASE Goes(r, "table", FALSE, Nothing, Fetched(<<>>))
  <2> PICK answered \in BOOLEAN : answered = FALSE
    OBVIOUS
  <2>1. Goes(r, "table", answered, Nothing, Fetched(<<>>))
    BY <1>6, Zenon
  <2>2. QED
    BY <1>4, <1>5, <2>1
<1>7. CASE Goes(r, "table", TRUE, Nothing, Fetched(<<>>))
  <2> PICK answered \in BOOLEAN : answered = TRUE
    OBVIOUS
  <2>1. Goes(r, "table", answered, Nothing, Fetched(<<>>))
    BY <1>7, Zenon
  <2>2. QED
    BY <1>4, <1>5, <2>1
<1>8. CASE Fails(r, FALSE)
  <2> PICK answered \in BOOLEAN : answered = FALSE
    OBVIOUS
  <2>1. Fails(r, answered)
    BY <1>8, Zenon
  <2>2. ~answered
    OBVIOUS
  <2>3. QED
    BY <1>1, <2>1, <2>2, AlarmFails
<1>9. ASSUME NEW es \in AlarmAnswers, NEW asked, NEW found, NEW hosts,
             Goes(r, "table", found = asked, Nothing, Fetched(Attached(es, hosts, found)))
      PROVE  Inv'
  <2> PICK answered \in BOOLEAN : answered = (found = asked)
    OBVIOUS
  <2> PICK given : given = Attached(es, hosts, found)
    OBVIOUS
  <2>1. Goes(r, "table", answered, Nothing, Fetched(given))
    BY <1>9, Zenon
  <2>2. Given(given)
    BY AttachedGiven
  <2>3. QED
    BY <1>4, <2>1, <2>2
<1>10. QED
  BY <1>1, <1>6, <1>7, <1>8, <1>9 DEF AllAlarmEvent

LEMMA HeadTail ==
  ASSUME NEW T, NEW s \in Seq(T), s # <<>>
  PROVE  /\ Tail(s) \in Seq(T) /\ Head(s) \in ToSet(s) /\ ToSet(Tail(s)) \subseteq ToSet(s)
         /\ ToSet(s) \subseteq {Head(s)} \cup ToSet(Tail(s))
<1>1. /\ Len(s) \in Nat \ {0} /\ DOMAIN s = 1 .. Len(s)
      /\ Head(s) = s[1] /\ Tail(s) \in Seq(T) /\ Len(Tail(s)) = Len(s) - 1
      /\ DOMAIN Tail(s) = 1 .. Len(s) - 1
      /\ \A i \in 1 .. Len(s) - 1 : Tail(s)[i] = s[i + 1]
  OBVIOUS
<1>2. 1 \in DOMAIN s /\ \A i \in DOMAIN Tail(s) : i + 1 \in DOMAIN s /\ Tail(s)[i] = s[i + 1]
  BY <1>1
<1>3. ASSUME NEW i \in DOMAIN s, i # 1
      PROVE  i - 1 \in DOMAIN Tail(s) /\ Tail(s)[i - 1] = s[i]
  BY <1>1, <1>3
<1>4. Head(s) \in ToSet(s)
  BY <1>1, <1>2 DEF ToSet
<1>5. ToSet(Tail(s)) \subseteq ToSet(s)
  BY <1>2 DEF ToSet
<1>6. ASSUME NEW x \in ToSet(s), x # Head(s)
      PROVE  x \in ToSet(Tail(s))
  <2>1. PICK i \in DOMAIN s : x = s[i]
    BY <1>6 DEF ToSet
  <2>2. i # 1
    BY <1>1, <1>6, <2>1
  <2>3. QED
    BY <1>3, <2>1, <2>2 DEF ToSet
<1>7. QED
  BY <1>1, <1>4, <1>5, <1>6

LEMMA TableDataKeeps ==
  ASSUME Inv, NEW r \in Runs, TableData(r)
  PROVE  Inv'
<1> PICK o : o = objects[run[r].object]
  OBVIOUS
<1> PICK given : given = run[r].work.given
  OBVIOUS
<1> PICK summary : summary = Updated(Titled({"Contents", "name"}), Entry("summary", Rows(given)))
  OBVIOUS
<1>1. IsAt(r, "alarm", "table") /\ UNCHANGED <<objects, translation>>
  BY DEF TableData
<1>2. run[r] # Null /\ run[r].stage = "table" /\ RunKept(run[r], o)
      /\ Info[o.task].type = "alarm" /\ run[r].object \in DOMAIN objects
  BY <1>1, IsAtIs
<1>3. DOMAIN run[r].drawn = {} /\ Given(given) /\ run[r].work = Fetched(given)
  BY <1>2 DEF RunKept, AlarmRun
<1>4. given \in Seq(Alarms)
  BY <1>3 DEF Given
<1>5. DOMAIN summary = {"Contents", "name", "summary"} /\ summary["summary"] = Rows(given)
  BY DEF Updated, Titled, Entry
<1>6. ASSUME NEW d, DOMAIN d = DOMAIN summary \cup DOMAIN run[r].drawn,
             \A k \in DOMAIN summary : d[k] = summary[k]
      PROVE  DOMAIN d = {"Contents", "name", "summary"} /\ d["summary"] = Rows(given)
  BY <1>3, <1>5, <1>6
<1>7. CASE given = <<>> /\ Goes(r, "filed", TRUE, summary, run[r].work)
  <2>1. PICK x : Gone(r, "filed", TRUE, summary, run[r].work, x)
    BY <1>2, <1>7, GoesOn
  <2>2. /\ x.stage = "filed" /\ x.work = run[r].work
        /\ DOMAIN x.drawn = {"Contents", "name", "summary"} /\ x.drawn["summary"] = Rows(given)
    <3>1. /\ x.stage = "filed" /\ x.work = run[r].work
          /\ DOMAIN x.drawn = DOMAIN summary \cup DOMAIN run[r].drawn
          /\ \A k \in DOMAIN summary : x.drawn[k] = summary[k]
      BY <2>1 DEF Gone
    <3>2. QED
      BY <1>6, <3>1
  <2>3. x.work.given = given
    BY <2>2
  <2>4. ASSUME NEW c \in DOMAIN x.drawn PROVE ChartTells(c, x.drawn[c], given)
    <3>1. c # "type" /\ c # "status" /\ c # "user" /\ c # "time" /\ c # "host"
      BY <2>2
    <3>2. QED
      BY <3>1 DEF ChartTells
  <2>5. AlarmFiled(x, o)
    BY <1>3, <1>7, <2>2, <2>3, <2>4 DEF AlarmFiled
  <2>6. AlarmRun(x, o)
    BY <2>2, <2>5 DEF AlarmRun
  <2>7. QED
    BY <1>1, <2>1, <2>6, AlarmKeeps
<1>8. ASSUME given # <<>>, NEW work,
             work = [given |-> given, alarms |-> Sorted(given, Uuid(given)),
                     rows |-> Rows(given), charts |-> Nothing, left |-> o.content],
             Goes(r, "chart", TRUE, summary, work)
      PROVE  Inv'
  <2>1. PICK x : Gone(r, "chart", TRUE, summary, work, x)
    BY <1>2, <1>8, GoesOn
  <2>2. /\ x.stage = "chart" /\ x.work = work
        /\ DOMAIN x.drawn = {"Contents", "name", "summary"} /\ x.drawn["summary"] = Rows(given)
    <3>1. /\ x.stage = "chart" /\ x.work = work
          /\ DOMAIN x.drawn = DOMAIN summary \cup DOMAIN run[r].drawn
          /\ \A k \in DOMAIN summary : x.drawn[k] = summary[k]
      BY <2>1 DEF Gone
    <3>2. QED
      BY <1>6, <3>1
  <2>3. /\ work.given = given /\ work.alarms = Sorted(given, Uuid(given))
        /\ work.rows = Rows(given) /\ work.charts = Nothing /\ work.left = o.content
    BY <1>8
  <2>4. Permutes(work.alarms, given)
    <3>1. Uuid(given) \in [DOMAIN given -> Int]
      BY <1>4, Wider, Keys
    <3>2. GroupOf(work.alarms, given, DOMAIN given)
      BY <1>4, <2>3, <3>1, SortedIs
    <3>3. QED
      BY <1>4, <3>2, GivenPermutes, Rearranged
  <2>5. o.content \in Seq(Words)
    BY <1>2, ObjectTask
  <2>6. DOMAIN work.charts = {}
    BY <2>3, PartsAre
  <2>7. AlarmCharts(x, o)
    BY <1>3, <1>8, <2>2, <2>3, <2>4, <2>5, <2>6 DEF AlarmCharts
  <2>8. AlarmRun(x, o)
    BY <2>2, <2>7 DEF AlarmRun
  <2>9. QED
    BY <1>1, <2>1, <2>8, AlarmKeeps
<1>9. QED
  BY <1>7, <1>8 DEF TableData

LEMMA ContinuesKeeps ==
  ASSUME Inv, NEW r \in Runs, IsAt(r, "alarm", "chart"), run[r].work.left # <<>>,
         NEW charts, NEW alarms, Continues(r, charts, alarms), UNCHANGED <<objects, translation>>,
         Permutes(alarms, run[r].work.given),
         DOMAIN charts = {Head(run[r].work.left)} \cap ChartOpts,
         \A c \in DOMAIN charts : ChartTells(c, charts[c], run[r].work.given)
  PROVE  Inv'
<1> PICK o : o = objects[run[r].object]
  OBVIOUS
<1> PICK w : w = run[r].work
  OBVIOUS
<1>1. run[r] # Null /\ run[r].stage = "chart" /\ RunKept(run[r], o) /\ Info[o.task].type = "alarm"
  BY IsAtIs
<1>2. AlarmCharts(run[r], o)
  BY <1>1 DEF RunKept, AlarmRun
<1>3. /\ Given(w.given) /\ w.given # <<>> /\ w.rows = Rows(w.given)
      /\ w.left \in Seq(Words) /\ ToSet(w.left) \subseteq ToSet(o.content)
      /\ ToSet(o.content) \cap ChartOpts \subseteq DOMAIN w.charts \cup ToSet(w.left)
      /\ \A c \in DOMAIN w.charts : c \in ChartOpts /\ ChartTells(c, w.charts[c], w.given)
      /\ DOMAIN run[r].drawn = {"Contents", "name", "summary"}
      /\ run[r].drawn["summary"] = Rows(w.given)
  BY <1>2 DEF AlarmCharts
<1> PICK drawn : drawn = Updated(w.charts, charts)
  OBVIOUS
<1> PICK work : work = [given |-> w.given, alarms |-> alarms, rows |-> w.rows,
                        charts |-> drawn, left |-> Tail(w.left)]
  OBVIOUS
<1>4. Goes(r, "chart", TRUE, Nothing, work)
  BY DEF Continues
<1>5. PICK x : Gone(r, "chart", TRUE, Nothing, work, x)
  BY <1>1, <1>4, GoesOn
<1>6. /\ x.stage = "chart" /\ x.work = work
      /\ DOMAIN x.drawn = DOMAIN Nothing \cup DOMAIN run[r].drawn
      /\ \A k \in DOMAIN run[r].drawn \ DOMAIN Nothing : x.drawn[k] = run[r].drawn[k]
  BY <1>5 DEF Gone
<1>7. DOMAIN x.drawn = {"Contents", "name", "summary"} /\ x.drawn["summary"] = Rows(w.given)
  BY <1>3, <1>6, PartsAre
<1>8. /\ work.given = w.given /\ work.alarms = alarms /\ work.rows = w.rows
      /\ work.charts = drawn /\ work.left = Tail(w.left)
  OBVIOUS
<1>9. /\ Tail(w.left) \in Seq(Words) /\ ToSet(Tail(w.left)) \subseteq ToSet(w.left)
      /\ ToSet(w.left) \subseteq {Head(w.left)} \cup ToSet(Tail(w.left))
  BY <1>3, HeadTail
<1>10. /\ DOMAIN drawn = DOMAIN charts \cup DOMAIN w.charts
       /\ \A c \in DOMAIN drawn : drawn[c] = IF c \in DOMAIN charts THEN charts[c] ELSE w.charts[c]
  BY DEF Updated
<1>11. \A c \in DOMAIN drawn : c \in ChartOpts /\ ChartTells(c, drawn[c], w.given)
  BY <1>3, <1>10
<1>12. ToSet(o.content) \cap ChartOpts \subseteq DOMAIN drawn \cup ToSet(Tail(w.left))
  BY <1>3, <1>9, <1>10
<1>13. AlarmCharts(x, o)
  BY <1>3, <1>6, <1>7, <1>8, <1>9, <1>11, <1>12 DEF AlarmCharts
<1>14. AlarmRun(x, o)
  BY <1>6, <1>13 DEF AlarmRun
<1>15. QED
  BY <1>5, <1>14, AlarmKeeps

LEMMA ChartWords ==
  ChartOpts = {"host", "user", "status", "type", "severity", "time", "response"}
<1> PICK s : s = <<"host", "user", "status", "type", "severity", "time", "response">>
  OBVIOUS
<1>1. ChartOpts = ToSet(s)
  BY DEF ChartOpts, Defaults
<1>2. /\ DOMAIN s = 1 .. 7 /\ s[1] = "host" /\ s[2] = "user" /\ s[3] = "status" /\ s[4] = "type"
      /\ s[5] = "severity" /\ s[6] = "time" /\ s[7] = "response"
  OBVIOUS
<1>3. DOMAIN s = {1, 2, 3, 4, 5, 6, 7}
  BY <1>2
<1>4. QED
  BY <1>1, <1>2, <1>3 DEF ToSet

\* A chart raises only where the list has a word it does not know: the list
\* is what is left of the alarms as they were fetched.
LEMMA RaisesExplained ==
  ASSUME NEW given \in Seq(Alarms), NEW s, Permutes(s, given), NEW c, Raises(c, s)
  PROVE  \E i \in DOMAIN given :
           \/ c = "status" /\ given[i].status \notin Statuses
           \/ c = "severity" /\ given[i].severity \notin Severities
<1>1. PICK p \in [DOMAIN s -> DOMAIN given] : \A n \in DOMAIN s : Alike(s[n], given[p[n]])
  BY DEF Permutes
<1>2. PICK i \in DOMAIN s :
        \/ c = "status" /\ s[i].status \notin Statuses
        \/ c = "severity" /\ s[i].severity \notin Severities
        \/ c \in {"time", "response"} /\ s[i].stamp # "text"
  BY DEF Raises
<1>3. s[i].stamp = "text"
  <2>1. s[i] \in Left
    BY DEF Permutes
  <2>2. QED
    BY <2>1 DEF Left
<1>4. p[i] \in DOMAIN given /\ Alike(s[i], given[p[i]])
  BY <1>1
<1>5. QED
  BY <1>2, <1>3, <1>4 DEF Alike

LEMMA ChartKeeps ==
  ASSUME Inv, NEW r \in Runs, Chart(r)
  PROVE  Inv'
<1> PICK o : o = objects[run[r].object]
  OBVIOUS
<1> PICK w : w = run[r].work
  OBVIOUS
<1> PICK given : given = w.given
  OBVIOUS
<1> PICK s : s = w.alarms
  OBVIOUS
<1> PICK c : c = Head(w.left)
  OBVIOUS
<1>1. IsAt(r, "alarm", "chart") /\ UNCHANGED <<objects, translation>> /\ w.left # <<>>
  BY DEF Chart
<1>2. run[r] # Null /\ run[r].stage = "chart" /\ RunKept(run[r], o) /\ Info[o.task].type = "alarm"
      /\ TaskOf(r) = o.task
  BY <1>1, IsAtIs
<1>3. AlarmCharts(run[r], o) /\ CanStart(o.task)
  BY <1>2 DEF RunKept, AlarmRun
<1>4. /\ Given(given) /\ Permutes(s, given) /\ w.rows = Rows(given)
      /\ w.left \in Seq(Words) /\ ToSet(w.left) \subseteq ToSet(o.content)
  BY <1>3 DEF AlarmCharts
<1>5. given \in Seq(Alarms)
  BY <1>4 DEF Given
<1>6. c \in ToSet(o.content)
  BY <1>1, <1>4, HeadTail
<1>7. CASE c \notin ChartOpts /\ Continues(r, Nothing, s)
  <2>1. DOMAIN Nothing = {c} \cap ChartOpts
    BY <1>7, PartsAre
  <2>2. QED
    BY <1>1, <1>4, <1>7, <2>1, ContinuesKeeps
<1>8. CASE Raises(c, s) /\ Fails(r, TRUE)
  <2> PICK answered \in BOOLEAN : answered = TRUE
    OBVIOUS
  <2>1. Fails(r, answered)
    BY <1>8, Zenon
  <2>2. \E i \in DOMAIN given :
          \/ c = "status" /\ given[i].status \notin Statuses
          \/ c = "severity" /\ given[i].severity \notin Severities
    BY <1>4, <1>5, <1>8, RaisesExplained
  <2>3. AlarmFailure(run[r], o)
    BY <1>6, <2>2 DEF AlarmFailure
  <2>4. QED
    BY <1>1, <2>1, <2>3, AlarmFails
<1>9. ASSUME NEW value, NEW alarms, Draws(r, value, alarms),
             c \in ChartOpts, Permutes(alarms, given), ChartTells(c, value, given)
      PROVE  Inv'
  <2> PICK charts : charts = Entry(c, value)
    OBVIOUS
  <2>1. Continues(r, charts, alarms)
    BY <1>9 DEF Draws
  <2>2. DOMAIN charts = {c} /\ charts[c] = value
    BY PartsAre
  <2>3. DOMAIN charts = {c} \cap ChartOpts /\ \A k \in DOMAIN charts : ChartTells(k, charts[k], given)
    BY <1>9, <2>2
  <2>4. QED
    BY <1>1, <1>9, <2>1, <2>3, ContinuesKeeps
<1>10. CASE c = "host" /\ Draws(r, HostDistribute(w.rows), s)
  <2>1. HostsTell(HostDistribute(w.rows), given)
    BY <1>4, <1>5, HostsHold
  <2>2. c \in ChartOpts /\ ChartTells(c, HostDistribute(w.rows), given)
    BY <1>10, <2>1, ChartWords DEF ChartTells
  <2>3. QED
    BY <1>4, <1>9, <1>10, <2>2
<1>11. CASE c = "user" /\ Draws(r, UserDistribute(s), Sorted(s, User(s)))
  <2>1. UsersTell(UserDistribute(s), given)
    BY <1>4, <1>5, UsersHold
  <2>2. c \in ChartOpts /\ ChartTells(c, UserDistribute(s), given)
    BY <1>11, <2>1, ChartWords DEF ChartTells
  <2>3. s \in Seq(Left)
    BY <1>4 DEF Permutes
  <2>4. GroupOf(Sorted(s, User(s)), s, DOMAIN s)
    BY <2>3, Keys, SortedIs
  <2>5. Permutes(Sorted(s, User(s)), given)
    BY <1>4, <1>5, <2>4, Rearranged
  <2>6. QED
    BY <1>9, <1>11, <2>2, <2>5
<1>12. CASE c = "status" /\ Draws(r, Counts(s, Statuses, LAMBDA a : a.status), s)
  <2> PICK statuses : statuses = Counts(s, Statuses, LAMBDA a : a.status)
    OBVIOUS
  <2>1. StatusesTell(statuses, Rows(given), given)
    BY <1>4, StatusesHold
  <2>2. c \in ChartOpts /\ ChartTells(c, statuses, given)
    BY <1>12, <2>1, ChartWords DEF ChartTells
  <2>3. Draws(r, statuses, s)
    BY <1>12
  <2>4. QED
    BY <1>4, <1>9, <2>2, <2>3
<1>13. CASE c = "severity" /\ Draws(r, Counts(s, Severities, LAMBDA a : a.severity), s)
  <2> PICK severities : severities = Counts(s, Severities, LAMBDA a : a.severity)
    OBVIOUS
  <2>1. c \in ChartOpts /\ ChartTells(c, severities, given)
    BY <1>13, ChartWords DEF ChartTells
  <2>2. Draws(r, severities, s)
    BY <1>13
  <2>3. QED
    BY <1>4, <1>9, <2>1, <2>2
<1>14. CASE c = "type" /\ Draws(r, TypeDistribute(s), Retyped(s))
  <2>1. TypesTell(TypeDistribute(s), given)
    BY <1>4, <1>5, TypesHold
  <2>2. c \in ChartOpts /\ ChartTells(c, TypeDistribute(s), given)
    BY <1>14, <2>1, ChartWords DEF ChartTells
  <2>3. Permutes(Retyped(s), given)
    BY <1>4, <1>5, RetypedPermutes
  <2>4. QED
    BY <1>9, <1>14, <2>2, <2>3
<1>15. CASE c = "time" /\ Draws(r, TimeDistribute(s, Info[TaskOf(r)].period), AfterConversion(s))
  <2> PICK period : period = Info[TaskOf(r)].period
    OBVIOUS
  <2>1. period \in {"day", "week", "month"}
    BY <1>2, <1>3 DEF CanStart
  <2>2. TimesTell(TimeDistribute(s, period), given)
    BY <1>4, <1>5, <2>1, TimesHold
  <2>3. c \in ChartOpts /\ ChartTells(c, TimeDistribute(s, period), given)
    BY <1>15, <2>2, ChartWords DEF ChartTells
  <2>4. AfterConversion(s) = s
    BY DEF AfterConversion
  <2>5. QED
    BY <1>4, <1>9, <1>15, <2>3, <2>4
<1>16. CASE c = "response" /\ Draws(r, Len(s), AfterConversion(s))
  <2>1. c \in ChartOpts /\ ChartTells(c, Len(s), given)
    BY <1>16, ChartWords DEF ChartTells
  <2>2. AfterConversion(s) = s
    BY DEF AfterConversion
  <2>3. QED
    BY <1>4, <1>9, <1>16, <2>1, <2>2
<1>17. QED
  BY <1>1, <1>7, <1>8, <1>10, <1>11, <1>12, <1>13, <1>14, <1>15, <1>16, Zenon DEF Chart

LEMMA FileAlarmsKeeps ==
  ASSUME Inv, NEW r \in Runs, FileAlarms(r)
  PROVE  Inv'
<1> PICK o : o = objects[run[r].object]
  OBVIOUS
<1> PICK w : w = run[r].work
  OBVIOUS
<1>1. IsAt(r, "alarm", "chart") /\ UNCHANGED <<objects, translation>> /\ w.left = <<>>
      /\ Goes(r, "filed", TRUE, w.charts, w)
  BY DEF FileAlarms
<1>2. run[r] # Null /\ run[r].stage = "chart" /\ RunKept(run[r], o) /\ Info[o.task].type = "alarm"
  BY <1>1, IsAtIs
<1>3. AlarmCharts(run[r], o)
  BY <1>2 DEF RunKept, AlarmRun
<1>4. /\ Given(w.given)
      /\ ToSet(o.content) \cap ChartOpts \subseteq DOMAIN w.charts \cup ToSet(w.left)
      /\ \A c \in DOMAIN w.charts : c \in ChartOpts /\ ChartTells(c, w.charts[c], w.given)
      /\ DOMAIN run[r].drawn = {"Contents", "name", "summary"}
      /\ run[r].drawn["summary"] = Rows(w.given)
  BY <1>3 DEF AlarmCharts
<1>5. PICK x : Gone(r, "filed", TRUE, w.charts, w, x)
  BY <1>1, <1>2, GoesOn
<1>6. /\ x.stage = "filed" /\ x.work = w
      /\ DOMAIN x.drawn = DOMAIN w.charts \cup DOMAIN run[r].drawn
      /\ \A k \in DOMAIN w.charts : x.drawn[k] = w.charts[k]
      /\ \A k \in DOMAIN run[r].drawn \ DOMAIN w.charts : x.drawn[k] = run[r].drawn[k]
  BY <1>5 DEF Gone
<1>7. x.drawn["summary"] = Rows(w.given)
  <2>1. "summary" \notin ChartOpts
    BY ChartWords
  <2>2. QED
    BY <1>4, <1>6, <2>1
<1>8. ASSUME NEW c \in DOMAIN x.drawn PROVE ChartTells(c, x.drawn[c], w.given)
  <2>1. CASE c \in DOMAIN w.charts
    BY <1>4, <1>6, <2>1
  <2>2. CASE c \in {"Contents", "name", "summary"}
    <3>1. c # "type" /\ c # "status" /\ c # "user" /\ c # "time" /\ c # "host"
      BY <2>2
    <3>2. QED
      BY <3>1 DEF ChartTells
  <2>3. QED
    BY <1>4, <1>6, <2>1, <2>2
<1>9. ToSet(w.left) = {}
  BY <1>1 DEF ToSet
<1>10. AlarmFiled(x, o)
  BY <1>4, <1>6, <1>7, <1>8, <1>9 DEF AlarmFiled
<1>11. AlarmRun(x, o)
  BY <1>6, <1>10 DEF AlarmRun
<1>12. QED
  BY <1>1, <1>5, <1>11, AlarmKeeps

-----------------------------------------------------------------------------
(* The invariant holds.                                                    *)

LEMMA NextKeeps ==
  ASSUME Inv, [Next]_vars
  PROVE  Inv'
<1>1. ASSUME NEW t \in Tasks, Build(t) PROVE Inv'
  BY <1>1, BuildKeeps
<1>2. ASSUME NEW r \in Runs, NEW t \in Tasks, Begin(r, t) PROVE Inv'
  BY <1>2, BeginKeeps
<1>3. ASSUME NEW r \in Runs, Step(r) PROVE Inv'
  <2>1. CASE AlarmStep(r)
    BY <2>1, AllAlarmEventKeeps, TableDataKeeps, ChartKeeps, FileAlarmsKeeps DEF AlarmStep
  <2>2. CASE MeterStep(r)
    BY <2>2, GetEventsKeeps, UserStatisticsKeeps, UserVmStatisticsKeeps, VmStatisticsKeeps
       DEF MeterStep
  <2>3. CASE MonitorStep(r)
    BY <2>3, ServerStatisticsKeeps, ServerHostsKeeps, MetricDetailsKeeps, DiskDetailsKeeps
       DEF MonitorStep
  <2>4. QED
    BY <1>3, <2>1, <2>2, <2>3 DEF Step
<1>4. CASE UNCHANGED vars
  <2>1. objects' = objects /\ translation' = translation /\ run' = run
    BY <1>4 DEF vars
  <2>2. QED
    BY <2>1 DEF Inv, ObjectsKept, TranslationKept, LanguagesFrom
<1>5. QED
  BY <1>1, <1>2, <1>3, <1>4 DEF Next

\* What the objects, the languages and each run have reached together.
THEOREM ReportsKept == Spec => []Inv
<1>1. TaskInit => Inv
  BY InvHolds
<1>2. Inv /\ [Next]_vars => Inv'
  BY NextKeeps
<1>3. QED
  BY <1>1, <1>2, PTL DEF Spec

(***************************************************************************)
(* A report is in the language of its task or in that of a task of its     *)
(* type built later: the global _ of a module is only set by its own       *)
(* constructor, and the latest object of a type has set it.                *)
(***************************************************************************)
THEOREM LanguagesApart == Spec => []OneLanguage
<1>1. Inv => OneLanguage
  BY DEF Inv, OneLanguage
<1>2. QED
  BY <1>1, ReportsKept, PTL

(***************************************************************************)
(* A run fails for one of the reasons the model of its type names: the     *)
(* period or file it was asked for, a service that did not answer, a word  *)
(* a chart does not know, a metric a host lacks.                           *)
(***************************************************************************)
THEOREM FailuresHaveReasons == Spec => []FailuresExplained
<1>1. Inv => FailuresExplained
  <2> SUFFICES ASSUME Inv, NEW r \in Runs, run[r] # Null, run[r].stage = "failed"
               PROVE  \/ ~CanStart(TaskOf(r))
                      \/ ~run[r].answered
                      \/ /\ Info[TaskOf(r)].type = "alarm"
                         /\ \E i \in DOMAIN run[r].work.given :
                              LET a == run[r].work.given[i] IN
                              \/ "status" \in ContentOf(r) /\ a.status \notin Statuses
                              \/ "severity" \in ContentOf(r) /\ a.severity \notin Severities
                      \/ /\ Info[TaskOf(r)].type = "monitor"
                         /\ \E m \in Metrics(r) : Wanting(run[r].work.answer, m)
    BY DEF FailuresExplained
  <2> PICK o : o = objects[run[r].object]
    OBVIOUS
  <2>1. /\ RunKept(run[r], o) /\ TaskOf(r) = o.task /\ TaskOf(r) \in Tasks
        /\ ContentOf(r) = ToSet(o.content)
    BY RunObject
  <2>2. Info[o.task].type \in Types
    BY <2>1, LanguageOfTask
  <2>3. CASE Info[o.task].type = "alarm"
    BY <2>1, <2>3 DEF RunKept, AlarmRun, AlarmFailure
  <2>4. CASE Info[o.task].type = "meter"
    BY <2>1, <2>4 DEF RunKept, MeterRun
  <2>5. CASE Info[o.task].type = "monitor"
    BY <2>1, <2>5 DEF RunKept, MonitorRun, Metrics
  <2>6. QED
    BY <2>2, <2>3, <2>4, <2>5 DEF Types
<1>2. QED
  BY <1>1, ReportsKept, PTL

LEMMA FiledIs ==
  ASSUME Inv, NEW r \in Runs, NEW type, Filed(r, type)
  PROVE  /\ run[r].object \in DOMAIN objects /\ run[r].stage = "filed"
         /\ objects[run[r].object].task = TaskOf(r) /\ Info[TaskOf(r)].type = type
         /\ TaskOf(r) \in Tasks /\ RunKept(run[r], objects[run[r].object])
  BY IsAtIs DEF Filed

(***************************************************************************)
(* Where every service answered a report has the sections its task asks    *)
(* for, but for a meter report whose object lost its list of sections.     *)
(***************************************************************************)
THEOREM SectionsComplete == Spec => []Complete
<1>1. ASSUME Inv, NEW r \in Runs
      PROVE  /\ Filed(r, "alarm") /\ run[r].answered /\ run[r].work.given # <<>> =>
                  ToSet(Content(TaskOf(r))) \cap ChartOpts \subseteq DOMAIN run[r].drawn
             /\ Filed(r, "meter") /\ run[r].answered =>
                  \/ objects[run[r].object].nobody
                  \/ /\ "user_statistics" \in ToSet(Content(TaskOf(r))) =>
                          "user_statistics" \in DOMAIN run[r].drawn
                     /\ "vm_statistics" \in ToSet(Content(TaskOf(r))) /\ run[r].work # <<>> =>
                          "vm_statistics" \in DOMAIN run[r].drawn
             /\ Filed(r, "monitor") /\ run[r].answered =>
                  \A s \in {"physical", "virtual"},
                     m \in ToSet(Content(TaskOf(r))) \cap ToSet(Defaults.monitor) :
                    Titling(s, m) \in DOMAIN run[r].drawn
  <2> PICK o : o = objects[run[r].object]
    OBVIOUS
  <2>1. ASSUME Filed(r, "alarm"), run[r].work.given # <<>>
        PROVE  ToSet(Content(TaskOf(r))) \cap ChartOpts \subseteq DOMAIN run[r].drawn
    <3>1. /\ run[r].object \in DOMAIN objects /\ run[r].stage = "filed" /\ o.task = TaskOf(r)
          /\ Info[o.task].type = "alarm" /\ RunKept(run[r], o)
      BY <1>1, <2>1, FiledIs
    <3>2. o.content = Content(o.task)
      BY <1>1, <3>1, ObjectTask
    <3>3. ToSet(o.content) \cap ChartOpts \subseteq DOMAIN run[r].drawn
      BY <2>1, <3>1 DEF RunKept, AlarmRun, AlarmFiled
    <3>4. QED
      BY <3>1, <3>2, <3>3
  <2>2. ASSUME Filed(r, "meter"), ~o.nobody
        PROVE  /\ "user_statistics" \in ToSet(Content(TaskOf(r))) =>
                    "user_statistics" \in DOMAIN run[r].drawn
               /\ "vm_statistics" \in ToSet(Content(TaskOf(r))) /\ run[r].work # <<>> =>
                    "vm_statistics" \in DOMAIN run[r].drawn
    <3>1. /\ run[r].stage = "filed" /\ o.task = TaskOf(r)
          /\ Info[o.task].type = "meter" /\ RunKept(run[r], o)
      BY <1>1, <2>2, FiledIs
    <3>2. QED
      BY <2>2, <3>1 DEF RunKept, MeterRun
  <2>3. ASSUME Filed(r, "monitor"), run[r].answered,
               NEW server \in {"physical", "virtual"},
               NEW m \in ToSet(Content(TaskOf(r))) \cap ToSet(Defaults.monitor)
        PROVE  Titling(server, m) \in DOMAIN run[r].drawn
    <3>1. /\ run[r].object \in DOMAIN objects /\ run[r].stage = "filed" /\ o.task = TaskOf(r)
          /\ Info[o.task].type = "monitor" /\ RunKept(run[r], o)
      BY <1>1, <2>3, FiledIs
    <3>2. o.content = Content(o.task)
      BY <1>1, <3>1, ObjectTask
    <3>3. Shows(run[r], "physical", Sections(o)) /\ Shows(run[r], "virtual", Sections(o))
      BY <2>3, <3>1 DEF RunKept, MonitorRun
    <3>4. ToSet(Defaults.monitor) = {"cpu", "mem", "swap", "partition"}
      <4> PICK s : s = <<"cpu", "mem", "swap", "partition">>
        OBVIOUS
      <4>1. ToSet(Defaults.monitor) = ToSet(s)
        BY DEF Defaults
      <4>2. DOMAIN s = {1, 2, 3, 4} /\ s[1] = "cpu" /\ s[2] = "mem" /\ s[3] = "swap"
            /\ s[4] = "partition"
        <5>1. DOMAIN s = 1 .. 4
          OBVIOUS
        <5>2. QED
          BY <5>1
      <4>3. QED
        BY <4>1, <4>2 DEF ToSet
    <3>5. m \in Sections(o)
      BY <2>3, <3>1, <3>2, <3>4 DEF Sections
    <3>6. QED
      BY <3>3, <3>5 DEF Shows
  <2>4. QED
    BY <2>1, <2>2, <2>3
<1>2. Inv => Complete
  <2> SUFFICES ASSUME Inv, NEW r \in Runs, NEW asked, asked = ToSet(Content(TaskOf(r))),
                      NEW d, d = DOMAIN run[r].drawn
               PROVE  /\ Filed(r, "alarm") /\ run[r].answered /\ run[r].work.given # <<>> =>
                           asked \cap ChartOpts \subseteq d
                      /\ Filed(r, "meter") /\ run[r].answered =>
                           \/ objects[run[r].object].nobody
                           \/ /\ "user_statistics" \in asked => "user_statistics" \in d
                              /\ "vm_statistics" \in asked /\ run[r].work # <<>> =>
                                   "vm_statistics" \in d
                      /\ Filed(r, "monitor") /\ run[r].answered =>
                           \A s \in {"physical", "virtual"}, m \in asked \cap ToSet(Defaults.monitor) :
                             Titling(s, m) \in d
    BY DEF Complete
  <2>1. QED
    BY <1>1, Zenon
<1>3. QED
  BY <1>2, ReportsKept, PTL

(***************************************************************************)
(* The table and the charts of an alarm report count every alarm once, for *)
(* any alarms and any order of the charts.                                 *)
(***************************************************************************)
THEOREM ChartsCountAlarms == Spec => []ChartsTell
<1>1. Inv => ChartsTell
  <2> SUFFICES ASSUME Inv, NEW r \in Runs, Filed(r, "alarm"),
                      NEW d, d = run[r].drawn, NEW given, given = run[r].work.given
               PROVE  /\ TableTells(d["summary"], given)
                      /\ "type" \in DOMAIN d => TypesTell(d["type"], given)
                      /\ "status" \in DOMAIN d => StatusesTell(d["status"], d["summary"], given)
                      /\ "user" \in DOMAIN d => UsersTell(d["user"], given)
                      /\ "time" \in DOMAIN d => TimesTell(d["time"], given)
                      /\ "host" \in DOMAIN d => HostsTell(d["host"], given)
    BY Zenon DEF ChartsTell
  <2> PICK o : o = objects[run[r].object]
    OBVIOUS
  <2>1. /\ run[r].stage = "filed" /\ o.task = TaskOf(r)
        /\ Info[o.task].type = "alarm" /\ RunKept(run[r], o)
    BY FiledIs
  <2>2. /\ Given(given) /\ d["summary"] = Rows(given)
        /\ \A c \in DOMAIN d : ChartTells(c, d[c], given)
    BY <2>1 DEF RunKept, AlarmRun, AlarmFiled
  <2>3. TableTells(d["summary"], given)
    BY <2>2, TableHolds DEF Given
  <2>4. QED
    BY <2>2, <2>3 DEF ChartTells
<1>2. QED
  BY <1>1, ReportsKept, PTL

-----------------------------------------------------------------------------
(***************************************************************************)
(* What the charts of a meter report count.                                *)
(***************************************************************************)

\* Induction up to a number.
LEMMA UpTo ==
  ASSUME NEW n \in Nat, NEW P, 0 \in P, \A m \in Nat : m < n /\ m \in P => m + 1 \in P
  PROVE  \A m \in 0 .. n : m \in P
<1> SUFFICES ASSUME NEW x \in 0 .. n, x \notin P PROVE FALSE
  OBVIOUS
<1> PICK J : J = {m \in 0 .. n : m \notin P}
  OBVIOUS
<1>1. J \in SUBSET Nat /\ J # {}
  <2>1. x \in J
    OBVIOUS
  <2>2. \A m \in J : m \in Nat
    OBVIOUS
  <2>3. QED
    BY <2>1, <2>2
<1>2. PICK m \in J : \A k \in J : ~(<<k, m>> \in OpToRel(<, Nat))
  BY <1>1, WFMin, NatLessThanWellFounded
<1>3. \A k \in J : ~(k < m)
  BY <1>1, <1>2 DEF OpToRel
<1>4. m \in 0 .. n /\ m \notin P /\ m # 0
  OBVIOUS
<1>5. m - 1 \in Nat /\ m - 1 < n /\ m - 1 < m /\ m - 1 \in 0 .. n
  BY <1>4
<1>6. m - 1 \in P
  BY <1>3, <1>5
<1>7. (m - 1) + 1 \in P
  BY <1>5, <1>6
<1>8. QED
  BY <1>4, <1>7

\* The probes visit all slots of the table.
After(x) == (5 * x + 1) % 8

LEMMA AfterIs ==
  /\ After(0) = 1 /\ After(1) = 6 /\ After(6) = 7 /\ After(7) = 4
  /\ After(4) = 5 /\ After(5) = 2 /\ After(2) = 3 /\ After(3) = 0
  BY DEF After

LEMMA Probes ==
  ASSUME NEW d \in 1 .. 31
  PROVE  /\ \A k \in 0 .. 8 : Probe(d)[k] \in 0 .. 7
         /\ \A i \in 0 .. 7 : \E k \in 0 .. 8 : Probe(d)[k] = i
         /\ Probe(d)[0] = d % 8
<1> PICK a : a = d % 8
  OBVIOUS
<1> PICK b : b = (5 * (d % 8) + d + 1) % 8
  OBVIOUS
<1>1. a \in 0 .. 7 /\ b \in 0 .. 7
  OBVIOUS
<1> DEFINE body(f) == [k \in 0 .. 8 |-> IF k = 0 THEN d % 8
                            ELSE IF k = 1 THEN (5 * (d % 8) + d + 1) % 8
                            ELSE (5 * f[k - 1] + 1) % 8]
<1>2. Probe(d) = CHOOSE f : f = body(f)
  BY DEF Probe
<1>3. PICK p : p = Probe(d)
  OBVIOUS
<1>4. p = body(p)
  <2> PICK c2 : c2 = After(b)
    OBVIOUS
  <2> PICK c3 : c3 = After(c2)
    OBVIOUS
  <2> PICK c4 : c4 = After(c3)
    OBVIOUS
  <2> PICK c5 : c5 = After(c4)
    OBVIOUS
  <2> PICK c6 : c6 = After(c5)
    OBVIOUS
  <2> PICK c7 : c7 = After(c6)
    OBVIOUS
  <2> PICK c8 : c8 = After(c7)
    OBVIOUS
  <2> PICK g : g = [k \in 0 .. 8 |-> IF k = 0 THEN a ELSE IF k = 1 THEN b ELSE IF k = 2 THEN c2
                                     ELSE IF k = 3 THEN c3 ELSE IF k = 4 THEN c4
                                     ELSE IF k = 5 THEN c5 ELSE IF k = 6 THEN c6
                                     ELSE IF k = 7 THEN c7 ELSE c8]
    OBVIOUS
  <2>1. /\ g[0] = a /\ g[1] = b /\ g[2] = c2 /\ g[3] = c3 /\ g[4] = c4 /\ g[5] = c5
        /\ g[6] = c6 /\ g[7] = c7 /\ g[8] = c8
    OBVIOUS
  <2>2. ASSUME NEW k \in 0 .. 8 PROVE g[k] = body(g)[k]
    <3>1. body(g)[k] = IF k = 0 THEN a ELSE IF k = 1 THEN b ELSE After(g[k - 1])
      <4>1. body(g)[k] = IF k = 0 THEN a ELSE IF k = 1 THEN b ELSE (5 * g[k - 1] + 1) % 8
        OBVIOUS
      <4> HIDE DEF body
      <4>2. (5 * g[k - 1] + 1) % 8 = After(g[k - 1])
        BY DEF After
      <4>3. QED
        BY <4>1, <4>2, Zenon
    <3>2. CASE k = 0
      BY <2>1, <3>1, <3>2
    <3>3. CASE k = 1
      BY <2>1, <3>1, <3>3
    <3>4. CASE k \in 2 .. 8
      <4> HIDE DEF body
      <4>1. g[k] = After(g[k - 1])
        BY <2>1, <3>4
      <4>2. QED
        BY <3>1, <3>4, <4>1
    <3>5. QED
      BY <3>2, <3>3, <3>4
  <2>3. g = body(g)
    BY <2>2
  <2> HIDE DEF body
  <2>4. QED
    BY <1>2, <1>3, <2>3
<1>5. /\ p[0] = a /\ p[1] = b
      /\ \A k \in 2 .. 8 : p[k] = After(p[k - 1])
  <2>1. \A k \in 0 .. 8 : p[k] = body(p)[k]
    <3> HIDE DEF body
    <3>1. QED
      BY <1>4
  <2>2. p[0] = a /\ p[1] = b
    BY <2>1
  <2>3. ASSUME NEW k \in 2 .. 8 PROVE p[k] = After(p[k - 1])
    BY <2>1 DEF After
  <2>4. QED
    BY <2>2, <2>3
<1> HIDE DEF body
<1>6. /\ p[1] = b /\ p[2] = After(p[1]) /\ p[3] = After(p[2]) /\ p[4] = After(p[3])
      /\ p[5] = After(p[4]) /\ p[6] = After(p[5]) /\ p[7] = After(p[6]) /\ p[8] = After(p[7])
  BY <1>5
<1>7. \A i \in 0 .. 7 : \E k \in 1 .. 8 : p[k] = i
  <2>1. b = 0 \/ b = 1 \/ b = 2 \/ b = 3 \/ b = 4 \/ b = 5 \/ b = 6 \/ b = 7
    BY <1>1
  <2>2. {p[1], p[2], p[3], p[4], p[5], p[6], p[7], p[8]} = {0, 1, 2, 3, 4, 5, 6, 7}
    BY <1>6, <2>1, AfterIs
  <2>3. ASSUME NEW i \in 0 .. 7 PROVE \E k \in 1 .. 8 : p[k] = i
    <3>1. i \in {0, 1, 2, 3, 4, 5, 6, 7}
      OBVIOUS
    <3>2. i \in {p[1], p[2], p[3], p[4], p[5], p[6], p[7], p[8]}
      BY <2>2, <3>1
    <3>3. QED
      BY <3>2
  <2>4. QED
    BY <2>3
<1>8. \A k \in 1 .. 8 : p[k] \in 0 .. 7
  <2>1. b = 0 \/ b = 1 \/ b = 2 \/ b = 3 \/ b = 4 \/ b = 5 \/ b = 6 \/ b = 7
    BY <1>1
  <2>2. /\ p[1] \in 0 .. 7 /\ p[2] \in 0 .. 7 /\ p[3] \in 0 .. 7 /\ p[4] \in 0 .. 7
        /\ p[5] \in 0 .. 7 /\ p[6] \in 0 .. 7 /\ p[7] \in 0 .. 7 /\ p[8] \in 0 .. 7
    BY <1>6, <2>1, AfterIs
  <2>3. QED
    BY <2>2
<1>9. QED
  BY <1>1, <1>3, <1>5, <1>7, <1>8

\* The days of a month.
DayNumbers == 1 .. 31

\* A table of eight slots that holds the days V, each once.
TableOf(t, V) ==
  /\ t \in [0 .. 7 -> 0 .. 31]
  /\ \A i, j \in 0 .. 7 : t[i] = t[j] /\ t[i] # 0 => i = j
  /\ \A d \in 1 .. 31 : d \in V <=> \E i \in 0 .. 7 : t[i] = d

\* With less than eight days a slot is free.
LEMMA SlotFree ==
  ASSUME NEW V \in SUBSET (1 .. 31), IsFiniteSet(V), Cardinality(V) < 8, NEW t, TableOf(t, V)
  PROVE  \E i \in 0 .. 7 : t[i] = 0
<1> SUFFICES ASSUME \A i \in 0 .. 7 : t[i] # 0 PROVE FALSE
  OBVIOUS
<1> PICK S : S = 0 .. 7
  OBVIOUS
<1> PICK T : T = {t[i] : i \in S}
  OBVIOUS
<1>1. IsFiniteSet(S) /\ Cardinality(S) = 8
  <2> PICK lo : lo = 0
    OBVIOUS
  <2> PICK hi : hi = 7
    OBVIOUS
  <2>1. lo \in Int /\ hi \in Int
    OBVIOUS
  <2>2. /\ IsFiniteSet(lo .. hi)
        /\ Cardinality(lo .. hi) = IF lo > hi THEN 0 ELSE hi - lo + 1
    BY <2>1, FS_Interval
  <2>3. QED
    BY <2>2
<1>2. /\ t \in [S -> T]
      /\ \A i, j \in S : t[i] = t[j] => i = j
      /\ \A v \in T : \E i \in S : t[i] = v
  BY DEF TableOf
<1>3. IsFiniteSet(T) /\ Cardinality(T) = 8
  BY <1>1, <1>2, SameSize
<1>4. T \in SUBSET V
  <2> SUFFICES ASSUME NEW i \in S PROVE t[i] \in V
    OBVIOUS
  <2>1. t[i] \in 0 .. 31 /\ t[i] # 0
    BY DEF TableOf
  <2>2. t[i] \in 1 .. 31
    BY <2>1
  <2>3. QED
    BY <2>2 DEF TableOf
<1>5. Cardinality(T) <= Cardinality(V)
  BY <1>4, FS_Subset
<1>6. Cardinality(V) \in Nat
  BY FS_CardinalityType
<1>7. QED
  BY <1>3, <1>5, <1>6

\* A day is put into a free slot if the table does not hold it.
LEMMA PutDayKeeps ==
  ASSUME NEW V \in SUBSET (1 .. 31), IsFiniteSet(V), Cardinality(V) < 8,
         NEW t, TableOf(t, V), NEW d \in 1 .. 31
  PROVE  TableOf(PutDay(t, d), V \cup {d})
<1>1. CASE \E i \in 0 .. 7 : t[i] = d
  <2>1. PutDay(t, d) = t
    BY <1>1 DEF PutDay
  <2>2. d \in V
    BY <1>1 DEF TableOf
  <2>3. V \cup {d} = V
    BY <2>2
  <2>4. QED
    BY <2>1, <2>3
<1>2. CASE ~\E i \in 0 .. 7 : t[i] = d
  <2> PICK p : p = Probe(d)
    OBVIOUS
  <2> PICK free : free = {k \in 0 .. 8 : t[p[k]] = 0}
    OBVIOUS
  <2>1. free \in SUBSET Nat /\ free # {}
    <3>1. PICK i \in 0 .. 7 : t[i] = 0
      BY SlotFree
    <3>2. PICK k \in 0 .. 8 : p[k] = i
      BY Probes
    <3>3. k \in free
      BY <3>1, <3>2
    <3>4. \A j \in free : j \in Nat
      OBVIOUS
    <3>5. QED
      BY <3>3, <3>4
  <2>2. \E k \in free : \A j \in free : k <= j
    <3>1. PICK k \in free : \A j \in free : ~(<<j, k>> \in OpToRel(<, Nat))
      BY <2>1, WFMin, NatLessThanWellFounded
    <3>2. \A j \in free : ~(j < k)
      BY <2>1, <3>1 DEF OpToRel
    <3>3. \A j \in free : k <= j
      BY <2>1, <3>2
    <3>4. QED
      BY <3>3
  <2>3. PICK k : k = CHOOSE j \in free : \A l \in free : j <= l
    OBVIOUS
  <2>4. k \in free
    BY <2>2, <2>3
  <2> PICK s : s = p[k]
    OBVIOUS
  <2>5. s \in 0 .. 7 /\ t[s] = 0
    BY <2>4, Probes
  <2>6. PutDay(t, d) = [t EXCEPT ![s] = d]
    BY <1>2, <2>3 DEF PutDay
  <2> PICK u : u = [t EXCEPT ![s] = d]
    OBVIOUS
  <2>7. t \in [0 .. 7 -> 0 .. 31] /\ u \in [0 .. 7 -> 0 .. 31]
    BY <2>5 DEF TableOf
  <2>8. u[s] = d /\ \A i \in 0 .. 7 : i # s => u[i] = t[i]
    BY <2>5, <2>7
  <2>9. ASSUME NEW i \in 0 .. 7, NEW j \in 0 .. 7, u[i] = u[j], u[i] # 0
        PROVE  i = j
    <3>1. i # s /\ j # s => i = j
      BY <2>8, <2>9 DEF TableOf
    <3>2. i = s <=> j = s
      BY <1>2, <2>8, <2>9
    <3>3. QED
      BY <3>1, <3>2
  <2>10. ASSUME NEW e \in 1 .. 31
         PROVE  e \in V \cup {d} <=> \E i \in 0 .. 7 : u[i] = e
    <3>1. e \in V <=> \E i \in 0 .. 7 : t[i] = e
      BY DEF TableOf
    <3>2. e # 0
      OBVIOUS
    <3>3. QED
      BY <2>5, <2>8, <3>1, <3>2
  <2>11. TableOf(u, V \cup {d})
    BY <2>7, <2>9, <2>10 DEF TableOf
  <2>12. QED
    BY <2>6, <2>11
<1>3. QED
  BY <1>1, <1>2

\* Days with different remainders, each in the slot of its remainder.
Apart(V) == \A x, y \in V : x % 8 = y % 8 => x = y
InPlace(t) == \A i \in 0 .. 7 : t[i] # 0 => t[i] % 8 = i

LEMMA PutDayInPlace ==
  ASSUME NEW V \in SUBSET (1 .. 31), NEW t, TableOf(t, V), InPlace(t), NEW d \in 1 .. 31,
         \A x \in V : x % 8 = d % 8 => x = d
  PROVE  InPlace(PutDay(t, d))
<1>1. CASE \E i \in 0 .. 7 : t[i] = d
  BY <1>1 DEF PutDay
<1>2. CASE ~\E i \in 0 .. 7 : t[i] = d
  <2>1. PICK s : s = d % 8
    OBVIOUS
  <2>2. s \in 0 .. 7 /\ Probe(d)[0] = s
    <3>1. s \in 0 .. 7
      BY <2>1
    <3>2. Probe(d)[0] = d % 8
      BY Probes
    <3>3. QED
      BY <2>1, <3>1, <3>2
  <2>3. t \in [0 .. 7 -> 0 .. 31]
    BY DEF TableOf
  <2>4. t[s] = 0
    <3>1. SUFFICES ASSUME t[s] # 0 PROVE FALSE
      OBVIOUS
    <3>2. t[s] \in 1 .. 31
      BY <2>2, <2>3, <3>1
    <3>3. t[s] \in V
      BY <2>2, <3>2 DEF TableOf
    <3>4. t[s] % 8 = s
      BY <2>2, <3>1 DEF InPlace
    <3>5. QED
      BY <1>2, <2>1, <2>2, <3>3, <3>4
  <2>5. PICK free : free = {k \in 0 .. 8 : t[Probe(d)[k]] = 0}
    OBVIOUS
  <2>6. PICK k : k = CHOOSE j \in free : \A l \in free : j <= l
    OBVIOUS
  <2>7. k = 0
    <3>1. 0 \in free
      BY <2>2, <2>4, <2>5
    <3>2. \A l \in free : l \in 0 .. 8 /\ 0 <= l
      BY <2>5
    <3>3. k \in free /\ \A l \in free : k <= l
      BY <2>6, <3>1, <3>2
    <3>4. QED
      BY <3>1, <3>2, <3>3
  <2>8. PutDay(t, d) = [t EXCEPT ![s] = d]
    BY <1>2, <2>2, <2>5, <2>6, <2>7 DEF PutDay
  <2>9. PICK u : u = [t EXCEPT ![s] = d]
    OBVIOUS
  <2>10. u[s] = d /\ \A i \in 0 .. 7 : i # s => u[i] = t[i]
    BY <2>2, <2>3, <2>9
  <2>11. InPlace(u)
    BY <2>1, <2>10 DEF InPlace
  <2>12. QED
    BY <2>8, <2>9, <2>11
<1>3. QED
  BY <1>1, <1>2

\* The tables after the first m days.
Chain(days, f, m) ==
  /\ DOMAIN f = 0 .. m
  /\ f = [n \in 0 .. m |-> IF n = 0 THEN [i \in 0 .. 7 |-> 0] ELSE PutDay(f[n - 1], days[n])]

\* The first table is empty and each other one is the one before with a day put into it.
Stepwise(days, f, m) ==
  /\ f[0] = [i \in 0 .. 7 |-> 0]
  /\ \A n \in 1 .. m : f[n] = PutDay(f[n - 1], days[n])

LEMMA ChainSteps ==
  ASSUME NEW days, NEW m \in Nat, NEW f, Chain(days, f, m)
  PROVE  Stepwise(days, f, m)
<1> DEFINE g == [n \in 0 .. m |-> IF n = 0 THEN [i \in 0 .. 7 |-> 0]
                                  ELSE PutDay(f[n - 1], days[n])]
<1>1. f = g
  BY DEF Chain
<1>2. g[0] = [i \in 0 .. 7 |-> 0]
  OBVIOUS
<1>3. \A n \in 1 .. m : g[n] = PutDay(f[n - 1], days[n])
  OBVIOUS
<1> HIDE DEF g
<1>4. QED
  BY <1>1, <1>2, <1>3 DEF Stepwise

LEMMA ChainThere ==
  ASSUME NEW days, NEW c \in Nat
  PROVE  \E f : Chain(days, f, c)
<1> PICK P : P = {m \in 0 .. c : \E f : Chain(days, f, m)}
  OBVIOUS
<1>1. 0 \in P
  <2> DEFINE empty == [i \in 0 .. 7 |-> 0]
  <2> DEFINE f == [n \in 0 .. 0 |-> empty]
  <2>1. f = [n \in 0 .. 0 |-> IF n = 0 THEN empty ELSE PutDay(f[n - 1], days[n])]
    <3> HIDE DEF empty
    <3>1. \A n \in 0 .. 0 : n = 0
      OBVIOUS
    <3>2. QED
      BY <3>1
  <2>2. Chain(days, f, 0)
    BY <2>1 DEF Chain
  <2>3. QED
    BY <2>2
<1>2. ASSUME NEW m \in Nat, m < c, m \in P PROVE m + 1 \in P
  <2>1. PICK f : Chain(days, f, m)
    BY <1>2
  <2> PICK q : q = PutDay(f[m], days[m + 1])
    OBVIOUS
  <2> PICK g : g = [n \in 0 .. m + 1 |-> IF n = m + 1 THEN q ELSE f[n]]
    OBVIOUS
  <2>2. g[m + 1] = q /\ \A n \in 0 .. m : g[n] = f[n]
    OBVIOUS
  <2>3. f[0] = [i \in 0 .. 7 |-> 0] /\ \A n \in 1 .. m : f[n] = PutDay(f[n - 1], days[n])
    BY <2>1, ChainSteps DEF Stepwise
  <2>4. g[0] = [i \in 0 .. 7 |-> 0]
    BY <2>2, <2>3
  <2>5. ASSUME NEW n \in 1 .. m + 1 PROVE g[n] = PutDay(g[n - 1], days[n])
    <3>1. CASE n = m + 1
      <4>1. n - 1 = m /\ g[m] = f[m]
        BY <2>2, <3>1
      <4>2. QED
        BY <2>2, <3>1, <4>1
    <3>2. CASE n \in 1 .. m
      <4>1. g[n] = f[n] /\ g[n - 1] = f[n - 1]
        BY <2>2, <3>2
      <4>2. QED
        BY <2>3, <3>2, <4>1
    <3>3. QED
      BY <3>1, <3>2
  <2>6. DOMAIN g = 0 .. m + 1 /\ g = [n \in 0 .. m + 1 |-> g[n]]
    OBVIOUS
  <2>7. ASSUME NEW n \in 0 .. m + 1
        PROVE  g[n] = IF n = 0 THEN [i \in 0 .. 7 |-> 0] ELSE PutDay(g[n - 1], days[n])
    <3>1. n = 0 \/ n \in 1 .. m + 1
      OBVIOUS
    <3>2. QED
      BY <2>4, <2>5, <3>1
  <2>8. g = [n \in 0 .. m + 1 |-> IF n = 0 THEN [i \in 0 .. 7 |-> 0]
                                  ELSE PutDay(g[n - 1], days[n])]
    BY <2>6, <2>7, Zenon
  <2>9. Chain(days, g, m + 1)
    BY <2>6, <2>8 DEF Chain
  <2>10. m + 1 \in 0 .. c
    BY <1>2
  <2>11. QED
    BY <2>9, <2>10
<1>3. c \in P
  BY <1>1, <1>2, UpTo
<1>4. QED
  BY <1>3


DaysTo(days, m) == {days[i] : i \in 1 .. m}

Tabled(days, f, c) ==
  {m \in 0 .. c : /\ TableOf(f[m], DaysTo(days, m))
                  /\ Apart(DaysTo(days, c)) => InPlace(f[m])}

LEMMA ChainTables ==
  ASSUME NEW c \in Nat, NEW days, \A i \in 1 .. c : days[i] \in DayNumbers,
         IsFiniteSet(DaysTo(days, c)), Cardinality(DaysTo(days, c)) < 8,
         NEW f, Stepwise(days, f, c)
  PROVE  /\ TableOf(f[c], DaysTo(days, c))
         /\ Apart(DaysTo(days, c)) => InPlace(f[c])
<1> PICK V : V = DaysTo(days, c)
  OBVIOUS
<1>1. 0 \in Tabled(days, f, c)
  <2>1. DaysTo(days, 0) = {}
    BY DEF DaysTo
  <2>2. TableOf(f[0], {}) /\ InPlace(f[0])
    BY DEF Stepwise, TableOf, InPlace
  <2>3. 0 \in 0 .. c
    OBVIOUS
  <2>4. QED
    BY <2>1, <2>2, <2>3, Zenon DEF Tabled
<1>2. ASSUME NEW m \in Nat, m < c, m \in Tabled(days, f, c)
      PROVE  m + 1 \in Tabled(days, f, c)
  <2> PICK W : W = DaysTo(days, m)
    OBVIOUS
  <2> PICK d : d = days[m + 1]
    OBVIOUS
  <2>1. m + 1 \in 1 .. c
    BY <1>2
  <2>2. d \in 1 .. 31
    BY <2>1 DEF DayNumbers
  <2>3. W \in SUBSET V /\ W \in SUBSET (1 .. 31)
    <3> SUFFICES ASSUME NEW i \in 1 .. m PROVE days[i] \in V /\ days[i] \in 1 .. 31
      BY DEF DaysTo
    <3>1. i \in 1 .. c
      BY <1>2
    <3>2. QED
      BY <3>1 DEF DaysTo, DayNumbers
  <2>4. IsFiniteSet(W) /\ Cardinality(W) < 8
    <3>1. IsFiniteSet(W) /\ Cardinality(W) <= Cardinality(V)
      BY <2>3, FS_Subset
    <3>2. Cardinality(W) \in Nat /\ Cardinality(V) \in Nat
      BY <3>1, FS_CardinalityType
    <3>3. QED
      BY <3>1, <3>2
  <2>5. TableOf(f[m], W) /\ (Apart(V) => InPlace(f[m]))
    BY <1>2, Zenon DEF Tabled
  <2>6. TableOf(PutDay(f[m], d), W \cup {d})
    BY <2>2, <2>3, <2>4, <2>5, PutDayKeeps
  <2>7. f[m + 1] = PutDay(f[m], d)
    <3>1. f[m + 1] = PutDay(f[(m + 1) - 1], days[m + 1])
      BY <2>1 DEF Stepwise
    <3>2. (m + 1) - 1 = m
      OBVIOUS
    <3>3. QED
      BY <3>1, <3>2
  <2>8. DaysTo(days, m + 1) = W \cup {d}
    <3>1. \A i \in 1 .. m + 1 : i = m + 1 \/ i \in 1 .. m
      OBVIOUS
    <3>2. \A i \in 1 .. m : i \in 1 .. m + 1
      OBVIOUS
    <3>3. m + 1 \in 1 .. m + 1
      OBVIOUS
    <3>4. QED
      BY <3>1, <3>2, <3>3 DEF DaysTo
  <2>9. m + 1 \in 0 .. c
    BY <1>2
  <2>10. ASSUME Apart(V) PROVE InPlace(PutDay(f[m], d))
    <3>1. d \in V
      BY <2>1 DEF DaysTo
    <3>2. \A x \in W : x % 8 = d % 8 => x = d
      BY <2>3, <2>10, <3>1 DEF Apart
    <3>3. QED
      BY <2>2, <2>3, <2>5, <2>10, <3>2, PutDayInPlace
  <2>11. QED
    BY <2>6, <2>7, <2>8, <2>9, <2>10, Zenon DEF Tabled
<1>3. \A m \in 0 .. c : m \in Tabled(days, f, c)
  BY <1>1, <1>2, UpTo
<1>4. c \in Tabled(days, f, c)
  BY <1>3
<1>5. QED
  BY <1>4, Zenon DEF Tabled

LEMMA TableIs ==
  ASSUME NEW days \in Seq(DayNumbers), NEW V, V = ToSet(days), IsFiniteSet(V), Cardinality(V) < 8
  PROVE  TableOf(Table(days), V) /\ (Apart(V) => InPlace(Table(days)))
<1> PICK c : c = Len(days)
  OBVIOUS
<1>1. c \in Nat /\ DOMAIN days = 1 .. c /\ \A i \in 1 .. c : days[i] \in DayNumbers
  BY DomainOf
<1>2. PICK f : /\ f = CHOOSE g : Chain(days, g, c)
               /\ Table(days) = f[c]
  <2> DEFINE body(g) == [n \in 0 .. Len(days) |->
                          IF n = 0 THEN [i \in 0 .. 7 |-> 0] ELSE PutDay(g[n - 1], days[n])]
  <2>1. Table(days) = (CHOOSE g : g = body(g))[Len(days)]
    BY DEF Table
  <2>2. \A g : g = body(g) <=> Chain(days, g, c)
    <3> SUFFICES ASSUME NEW g PROVE g = body(g) <=> Chain(days, g, c)
      OBVIOUS
    <3>1. DOMAIN body(g) = 0 .. c
      OBVIOUS
    <3>2. Chain(days, g, c) <=> DOMAIN g = 0 .. c /\ g = body(g)
      BY DEF Chain
    <3> HIDE DEF body
    <3>3. QED
      BY <3>1, <3>2
  <2> HIDE DEF body
  <2>3. (CHOOSE g : g = body(g)) = (CHOOSE g : Chain(days, g, c))
    BY <2>2, Zenon
  <2>4. QED
    BY <2>1, <2>3
<1>3. Chain(days, f, c)
  <2>1. \E g : Chain(days, g, c)
    BY <1>1, ChainThere
  <2>2. QED
    BY <1>2, <2>1, Zenon
<1>4. Stepwise(days, f, c)
  <2>1. c \in Nat
    BY <1>1
  <2>2. QED
    BY <1>3, <2>1, ChainSteps, Zenon
<1>5. DaysTo(days, c) = V
  BY <1>1 DEF DaysTo, ToSet
<1>6. TableOf(f[c], DaysTo(days, c)) /\ (Apart(DaysTo(days, c)) => InPlace(f[c]))
  BY <1>1, <1>4, <1>5, ChainTables
<1>7. QED
  BY <1>2, <1>5, <1>6

\* What stands at the places I, each of V at one of them, lists V.
LEMMA PickedLists ==
  ASSUME NEW t, NEW I \in SUBSET Int, IsFiniteSet(I), NEW V, \A i \in I : t[i] \in V,
         \A i, j \in I : t[i] = t[j] => i = j, \A v \in V : \E i \in I : t[i] = v
  PROVE  Lists(Pick(t, I), V)
<1>1. PICK order : /\ Lists(order, I)
                   /\ Pick(t, I) = [m \in 1 .. Cardinality(I) |-> t[order[m]]]
  BY PickIs DEF GroupOf
<1>2. IsFiniteSet(V) /\ Cardinality(V) = Cardinality(I)
  <2> DEFINE g == [i \in I |-> t[i]]
  <2>1. g \in [I -> V] /\ (\A i, j \in I : g[i] = g[j] => i = j)
        /\ \A v \in V : \E i \in I : g[i] = v
    OBVIOUS
  <2> HIDE DEF g
  <2>2. QED
    BY <2>1, SameSize
<1> PICK c : c = Cardinality(V)
  OBVIOUS
<1> PICK o : o = Pick(t, I)
  OBVIOUS
<1>3. /\ c \in Nat /\ order \in [1 .. c -> I]
      /\ \A m, n \in 1 .. c : order[m] = order[n] => m = n
      /\ \A i \in I : \E n \in 1 .. c : order[n] = i
  BY <1>1, <1>2 DEF Lists
<1>4. o = [m \in 1 .. c |-> t[order[m]]]
  BY <1>1, <1>2
<1>5. o \in [1 .. c -> V] /\ \A m \in 1 .. c : order[m] \in I /\ o[m] = t[order[m]]
  <2>1. \A m \in 1 .. c : order[m] \in I /\ t[order[m]] \in V
    BY <1>3
  <2>2. QED
    BY <1>4, <2>1
<1>6. \A m, n \in 1 .. c : o[m] = o[n] => m = n
  <2> SUFFICES ASSUME NEW m \in 1 .. c, NEW n \in 1 .. c, o[m] = o[n] PROVE m = n
    OBVIOUS
  <2> PICK i : i = order[m]
    OBVIOUS
  <2> PICK j : j = order[n]
    OBVIOUS
  <2>1. i \in I /\ j \in I /\ t[i] = t[j]
    BY <1>5
  <2>2. i = j
    BY <2>1
  <2>3. order[m] = order[n]
    BY <2>2
  <2>4. \A k, l \in 1 .. c : order[k] = order[l] => k = l
    BY <1>3
  <2>5. QED
    BY <2>3, <2>4, Zenon
<1>7. ASSUME NEW v \in V PROVE \E n \in 1 .. c : o[n] = v
  <2>1. PICK i \in I : t[i] = v
    OBVIOUS
  <2>2. PICK n \in 1 .. c : order[n] = i
    BY <1>3
  <2>3. QED
    BY <1>5, <2>1, <2>2
<1>8. QED
  BY <1>2, <1>3, <1>5, <1>6, <1>7 DEF Lists

\* The remainders of the days ascend with the days.
Rises(V) == \A x, y \in V : x < y => x % 8 < y % 8

\* values() lists every day of the dictionary once; in order if there are
\* more than five, or their remainders ascend.
LEMMA DictOrderLists ==
  ASSUME NEW days \in Seq(DayNumbers), NEW V, V = ToSet(days)
  PROVE  /\ Lists(DictOrder(days), V)
         /\ Cardinality(V) > 5 \/ Rises(V) => DictOrder(days) = Ascending(V)
<1> PICK D : D = DOMAIN days
  OBVIOUS
<1>1. IsFiniteSet(D) /\ \A i \in D : days[i] \in DayNumbers
  BY DomainOf
<1>2. V = {days[i] : i \in D} /\ V \in SUBSET DayNumbers
  <2>1. V = {days[i] : i \in D}
    BY DEF ToSet
  <2>2. QED
    BY <1>1, <2>1
<1>3. IsFiniteSet(V) /\ Cardinality(V) \in Nat
  <2>1. days \in [D -> V] /\ \A v \in V : \E i \in D : days[i] = v
    BY <1>2
  <2>2. days \in Surjection(D, V)
    BY <2>1, Fun_IsSurj
  <2>3. IsFiniteSet(V)
    BY <1>1, <2>2, FS_Surjection
  <2>4. QED
    BY <2>3, FS_CardinalityType
<1>4. V \in SUBSET Int
  <2>1. \A e \in DayNumbers : e \in Int
    BY DEF DayNumbers
  <2>2. QED
    BY <1>2, <2>1
<1>5. CASE Cardinality(V) > 5
  <2>1. DictOrder(days) = Ascending(V)
    BY <1>5 DEF DictOrder
  <2>2. QED
    BY <1>3, <1>4, <2>1, AscendingLists
<1>6. CASE ~(Cardinality(V) > 5)
  <2>1. PICK t : t = Table(days)
    OBVIOUS
  <2>2. PICK I : I = {i \in 0 .. 7 : t[i] # 0}
    OBVIOUS
  <2>3. DictOrder(days) = Pick(t, I)
    BY <1>6, <2>1, <2>2 DEF DictOrder
  <2>4. Cardinality(V) < 8
    BY <1>3, <1>6
  <2>5. TableOf(t, V) /\ (Apart(V) => InPlace(t))
    BY <1>3, <2>1, <2>4, TableIs
  <2>6. /\ \A i \in I : t[i] \in V
        /\ \A i, j \in I : t[i] = t[j] => i = j
        /\ \A v \in V : \E i \in I : t[i] = v
    <3>1. ASSUME NEW i \in I PROVE t[i] \in V
      <4>1. t[i] \in 0 .. 31 /\ t[i] # 0 /\ i \in 0 .. 7
        BY <2>2, <2>5 DEF TableOf
      <4>2. t[i] \in 1 .. 31
        BY <4>1
      <4>3. QED
        BY <2>5, <4>1, <4>2 DEF TableOf
    <3>2. \A i, j \in I : t[i] = t[j] => i = j
      BY <2>2, <2>5 DEF TableOf
    <3>3. ASSUME NEW v \in V PROVE \E i \in I : t[i] = v
      <4>1. v \in 1 .. 31
        BY <1>2 DEF DayNumbers
      <4>2. PICK i \in 0 .. 7 : t[i] = v
        BY <2>5, <4>1 DEF TableOf
      <4>3. v # 0
        BY <4>1
      <4>4. QED
        BY <2>2, <4>2, <4>3
    <3>4. QED
      BY <3>1, <3>2, <3>3
  <2>7. I \in SUBSET Int /\ IsFiniteSet(I)
    <3>1. PICK lo : lo = 0
      OBVIOUS
    <3>2. PICK hi : hi = 7
      OBVIOUS
    <3>3. lo \in Int /\ hi \in Int
      BY <3>1, <3>2
    <3>4. IsFiniteSet(lo .. hi)
      BY <3>3, FS_Interval
    <3>5. I \in SUBSET (lo .. hi) /\ I \in SUBSET Int
      BY <2>2, <3>1, <3>2
    <3>6. QED
      BY <3>4, <3>5, FS_Subset
  <2>8. Lists(Pick(t, I), V)
    BY <2>6, <2>7, PickedLists
  <2>9. ASSUME Rises(V) PROVE Pick(t, I) = Ascending(V)
    <3>1. PICK c : c = Cardinality(I)
      OBVIOUS
    <3>2. PICK a : a = Ascending(I)
      OBVIOUS
    <3>3. PICK p : p = Pick(t, I)
      OBVIOUS
    <3>4. /\ c \in Nat /\ a \in [1 .. c -> I]
          /\ \A m, n \in 1 .. c : m < n => a[m] < a[n]
      BY <2>7, <3>1, <3>2, AscendingLists DEF Lists
    <3>5. p = [n \in 1 .. c |-> t[a[n]]]
      BY <3>2, <3>3, <3>4 DEF Pick
    <3>6. c = Cardinality(V)
      <4>1. /\ DOMAIN p = 1 .. Cardinality(V) /\ Cardinality(V) \in Nat
        BY <2>8, <3>3 DEF Lists
      <4>2. DOMAIN p = 1 .. c
        BY <3>5
      <4>3. QED
        BY <3>4, <4>1, <4>2
    <3>7. Apart(V)
      <4> SUFFICES ASSUME NEW x \in V, NEW y \in V, x % 8 = y % 8 PROVE x = y
        BY DEF Apart
      <4>1. x \in Int /\ y \in Int
        BY <1>4
      <4>2. PICK k : k = x % 8
        OBVIOUS
      <4>3. k = y % 8 /\ k \in Int
        BY <4>1, <4>2
      <4>4. (x < y => k < k) /\ (y < x => k < k)
        <5>1. (x < y => x % 8 < y % 8) /\ (y < x => y % 8 < x % 8)
          BY <2>9, Zenon DEF Rises
        <5>2. QED
          BY <4>2, <4>3, <5>1
      <4>5. QED
        BY <4>1, <4>3, <4>4
    <3>8. \A i \in I : t[i] \in V /\ t[i] \in Int /\ t[i] % 8 = i
      BY <1>4, <2>2, <2>5, <2>6, <3>7 DEF InPlace
    <3>9. ASSUME NEW m \in 1 .. c, NEW n \in 1 .. c, m < n PROVE p[m] < p[n]
      <4>1. PICK i \in I : i = a[m]
        BY <3>4
      <4>2. PICK j \in I : j = a[n]
        BY <3>4
      <4>3. i < j
        BY <3>4, <3>9, <4>1, <4>2
      <4>4. p[m] = t[i] /\ p[n] = t[j]
        BY <3>5, <4>1, <4>2
      <4>5. t[j] < t[i] => j < i
        BY <2>9, <3>8 DEF Rises
      <4>6. t[j] = t[i] => j = i
        BY <3>8
      <4>7. i \in Int /\ j \in Int /\ t[i] \in Int /\ t[j] \in Int
        BY <3>8
      <4>8. QED
        BY <4>3, <4>4, <4>5, <4>6, <4>7
    <3>10. QED
      BY <1>4, <2>8, <3>3, <3>6, <3>9, AscendingOnly
  <2>10. QED
    BY <1>6, <2>3, <2>8, <2>9
<1>7. QED
  BY <1>5, <1>6


Event == [kind : STRING, user : STRING, flavor : DOMAIN FlavorKey, day : 1 .. 31]
Kind(es, kind) == {i \in DOMAIN es : es[i].kind = kind}

LEMMA Joined ==
  ASSUME NEW T, NEW a \in Seq(T), NEW b \in Seq(T)
  PROVE  a \o b \in Seq(T) /\ ToSet(a \o b) = ToSet(a) \cup ToSet(b)
<1>1. a \o b \in Seq(T)
  OBVIOUS
<1>2. /\ Len(a) \in Nat /\ Len(b) \in Nat /\ Len(a \o b) = Len(a) + Len(b)
      /\ \A i \in 1 .. Len(a) : (a \o b)[i] = a[i]
      /\ \A i \in 1 .. Len(b) : (a \o b)[Len(a) + i] = b[i]
  OBVIOUS
<1>3. /\ DOMAIN a = 1 .. Len(a) /\ DOMAIN b = 1 .. Len(b)
      /\ DOMAIN (a \o b) = 1 .. Len(a) + Len(b)
  BY <1>1, <1>2
<1> PICK c : c = a \o b
  OBVIOUS
<1> PICK k : k = Len(a)
  OBVIOUS
<1> PICK l : l = Len(b)
  OBVIOUS
<1>4. ASSUME NEW i \in 1 .. k + l PROVE c[i] \in ToSet(a) \cup ToSet(b)
  <2>1. CASE i \in 1 .. k
    BY <1>2, <1>3, <2>1 DEF ToSet
  <2>2. CASE i \notin 1 .. k
    <3> PICK j : j = i - k
      OBVIOUS
    <3>1. j \in 1 .. l /\ i = k + j
      BY <1>2, <2>2
    <3>2. c[i] = b[j]
      BY <1>2, <3>1
    <3>3. QED
      BY <1>3, <3>1, <3>2 DEF ToSet
  <2>3. QED
    BY <2>1, <2>2
<1>5. ASSUME NEW i \in 1 .. k PROVE a[i] \in ToSet(c)
  <2>1. i \in 1 .. k + l /\ c[i] = a[i]
    BY <1>2
  <2>2. QED
    BY <1>3, <2>1 DEF ToSet
<1>6. ASSUME NEW i \in 1 .. l PROVE b[i] \in ToSet(c)
  <2>1. k + i \in 1 .. k + l /\ c[k + i] = b[i]
    BY <1>2
  <2>2. QED
    BY <1>3, <2>1 DEF ToSet
<1>7. ToSet(c) = ToSet(a) \cup ToSet(b)
  <2>1. ToSet(c) \subseteq ToSet(a) \cup ToSet(b)
    BY <1>3, <1>4 DEF ToSet
  <2>2. ToSet(a) \subseteq ToSet(c)
    BY <1>3, <1>5 DEF ToSet
  <2>3. ToSet(b) \subseteq ToSet(c)
    BY <1>3, <1>6 DEF ToSet
  <2>4. QED
    BY <2>1, <2>2, <2>3
<1>8. QED
  BY <1>1, <1>7

LEMMA DayOf ==
  ASSUME NEW es \in Seq(Event), NEW i \in DOMAIN es
  PROVE  /\ es[i].day \in DayNumbers /\ es[i].flavor \in DOMAIN FlavorKey
         /\ Days(es)[i] = es[i].day
<1>1. es[i] \in Event
  BY DomainOf
<1>2. QED
  BY <1>1 DEF Event, DayNumbers, Days

\* The days of a bar chart are those with events of any kind.
LEMMA CountedDaysAre ==
  ASSUME NEW es \in Seq(Event), NEW kind, NEW V, V = ToSet(Days(es))
  PROVE  /\ CountedDays(es, kind) \in Seq(DayNumbers) /\ ToSet(CountedDays(es, kind)) = V
         /\ IsFiniteSet(V) /\ Lists(XDays(es), V)
<1> PICK D : D = DOMAIN es
  OBVIOUS
<1> PICK I : I = Kind(es, kind)
  OBVIOUS
<1> PICK p : p = Pick(es, I)
  OBVIOUS
<1>1. IsFiniteSet(D) /\ D \in SUBSET Int /\ I \in SUBSET D
  BY DomainOf DEF Kind
<1>2. I \in SUBSET Int /\ IsFiniteSet(I)
  BY <1>1, FS_Subset
<1>3. GroupOf(p, es, I)
  BY <1>2, PickIs
<1> PICK c : c = Cardinality(I)
  OBVIOUS
<1>4. c \in Nat /\ DOMAIN p = 1 .. c /\ \A m \in DOMAIN p : \E i \in I : p[m] = es[i]
  BY <1>1, <1>3, GroupCounts
<1>5. DaysOf(es, kind) = [m \in 1 .. c |-> p[m].day]
  BY <1>4 DEF DaysOf, Days, Kind
<1>6. V = {Days(es)[i] : i \in D} /\ DOMAIN Days(es) = D
  BY DEF ToSet, Days
<1>7. \A i \in D : Days(es)[i] = es[i].day /\ es[i].day \in DayNumbers /\ es[i].day \in V
  BY <1>6, DayOf
<1>8. \A v \in V : v \in DayNumbers
  BY <1>6, <1>7
<1>9. IsFiniteSet(V)
  <2>1. Days(es) \in [D -> V] /\ \A v \in V : \E i \in D : Days(es)[i] = v
    BY <1>6 DEF Days
  <2>2. Days(es) \in Surjection(D, V)
    BY <2>1, Fun_IsSurj
  <2>3. QED
    BY <1>1, <2>2, FS_Surjection
<1> PICK a : a = DaysOf(es, kind)
  OBVIOUS
<1> PICK b : b = XDays(es)
  OBVIOUS
<1>10. \A m \in 1 .. c : a[m] \in V /\ a[m] \in DayNumbers
  <2> SUFFICES ASSUME NEW m \in 1 .. c PROVE a[m] \in V /\ a[m] \in DayNumbers
    OBVIOUS
  <2>1. PICK i \in I : p[m] = es[i]
    BY <1>4
  <2>2. a[m] = es[i].day
    BY <1>5, <2>1
  <2>3. QED
    BY <1>1, <1>7, <2>2
<1>11. DOMAIN a = 1 .. c /\ a = [m \in 1 .. c |-> a[m]]
  BY <1>5
<1>12. a \in [1 .. c -> DayNumbers]
  BY <1>10, <1>11
<1>13. a \in Seq(DayNumbers) /\ ToSet(a) \subseteq V
  <2>1. a \in Seq(DayNumbers)
    BY <1>4, <1>12, SequenceOf
  <2>2. QED
    BY <1>10, <1>11, <2>1 DEF ToSet
<1>14. Lists(b, V)
  <2>1. \A e \in DayNumbers : e \in Int
    BY DEF DayNumbers
  <2>2. V \in SUBSET Int
    BY <1>8, <2>1
  <2>3. b = Ascending(V)
    BY DEF XDays
  <2>4. QED
    BY <1>9, <2>2, <2>3, AscendingLists
<1> PICK n : n = Cardinality(V)
  OBVIOUS
<1>15. n \in Nat /\ b \in [1 .. n -> V] /\ \A v \in V : \E m \in 1 .. n : b[m] = v
  BY <1>14 DEF Lists
<1>16. b \in [1 .. n -> DayNumbers]
  BY <1>8, <1>15
<1>17. b \in Seq(DayNumbers) /\ DOMAIN b = 1 .. n
  BY <1>15, <1>16, SequenceOf
<1>18. ToSet(b) = V
  <2>1. \A v \in V : \E m \in DOMAIN b : b[m] = v
    BY <1>15, <1>17
  <2>2. \A m \in DOMAIN b : b[m] \in V
    BY <1>15, <1>17
  <2>3. ToSet(b) = {b[m] : m \in DOMAIN b}
    BY DEF ToSet
  <2>4. \A v \in ToSet(b) : v \in V
    BY <2>2, <2>3
  <2>5. \A v \in V : v \in ToSet(b)
    BY <2>1, <2>3
  <2>6. QED
    BY <2>4, <2>5, Zenon
<1>19. a \o b \in Seq(DayNumbers) /\ ToSet(a \o b) = ToSet(a) \cup ToSet(b)
  BY <1>13, <1>17, Joined
<1>20. CountedDays(es, kind) = a \o b
  BY DEF CountedDays
<1>21. ToSet(a) \cup ToSet(b) = V
  BY <1>13, <1>18
<1>22. QED
  BY <1>9, <1>14, <1>19, <1>20, <1>21

OnDay(es, kind, d) == CountEvents(es, kind, LAMBDA e : e.day = d)

\* The bars of a kind add up to its events.
LEMMA BarsAre ==
  ASSUME NEW es \in Seq(Event), NEW kind, NEW V, V = ToSet(Days(es))
  PROVE  /\ Total(Bars(es, kind)) = Count(es, kind)
         /\ Cardinality(V) \in Nat /\ Len(Bars(es, kind)) = Cardinality(V)
         /\ DOMAIN Bars(es, kind) = 1 .. Cardinality(V)
         /\ Cardinality(V) > 5 \/ Rises(V) => \A n \in 1 .. Cardinality(V) :
              Bars(es, kind)[n] = OnDay(es, kind, XDays(es)[n])
<1> PICK I : I = Kind(es, kind)
  OBVIOUS
<1> PICK order : order = DictOrder(CountedDays(es, kind))
  OBVIOUS
<1> PICK c : c = Cardinality(V)
  OBVIOUS
<1> PICK bars : bars = Bars(es, kind)
  OBVIOUS
<1>1. /\ CountedDays(es, kind) \in Seq(DayNumbers) /\ ToSet(CountedDays(es, kind)) = V
      /\ IsFiniteSet(V)
  BY CountedDaysAre
<1>2. Lists(order, V) /\ (c > 5 \/ Rises(V) => order = Ascending(V))
  BY <1>1, DictOrderLists
<1>3. c \in Nat /\ DOMAIN order = 1 .. c
  BY <1>2 DEF Lists
<1>4. bars = [n \in DOMAIN order |->
                Cardinality({i \in DOMAIN es : es[i].kind = kind /\ es[i].day = order[n]})]
  BY DEF Bars, CountEvents
<1>5. IsFiniteSet(I) /\ I \in SUBSET DOMAIN es
  <2>1. I \in SUBSET DOMAIN es /\ IsFiniteSet(DOMAIN es)
    BY DomainOf DEF Kind
  <2>2. QED
    BY <2>1, FS_Subset
<1> PICK key : key = [i \in I |-> es[i].day]
  OBVIOUS
<1>6. key \in [I -> V]
  <2>1. \A i \in I : es[i].day \in V
    <3>1. DOMAIN Days(es) = DOMAIN es
      BY DEF Days
    <3>2. QED
      BY <1>5, <3>1, DayOf DEF ToSet
  <2>2. QED
    BY <2>1
<1>7. \A v : {i \in DOMAIN es : es[i].kind = kind /\ es[i].day = v} = At(I, key, v)
  BY DEF At, Kind
<1>8. DOMAIN bars = 1 .. c /\ \A n \in 1 .. c : bars[n] = Cardinality(At(I, key, order[n]))
  BY <1>3, <1>4, <1>7
<1>9. Sizes(bars, I, V, key, order)
  BY <1>2, <1>5, <1>6, <1>8 DEF Sizes
<1>10. Total(bars) = Cardinality(I)
  BY <1>9, TotalOfGroups
<1>11. Count(es, kind) = Cardinality(I)
  <2>1. Count(es, kind) = Cardinality({i \in DOMAIN es : es[i].kind = kind /\ TRUE})
    BY DEF Count, CountEvents
  <2>2. {i \in DOMAIN es : es[i].kind = kind /\ TRUE} = I
    BY DEF Kind
  <2>3. QED
    BY <2>1, <2>2
<1>12. Len(bars) = c
  <2> PICK T : T = {bars[n] : n \in 1 .. c}
    OBVIOUS
  <2>1. bars = [n \in 1 .. c |-> bars[n]]
    BY <1>3, <1>4
  <2>2. bars \in [1 .. c -> T]
    BY <2>1
  <2>3. QED
    BY <1>3, <2>2, SequenceOf
<1>13. ASSUME c > 5 \/ Rises(V), NEW n \in 1 .. c
       PROVE  bars[n] = OnDay(es, kind, XDays(es)[n])
  <2>1. order = XDays(es)
    BY <1>2, <1>13 DEF XDays
  <2>2. bars[n] = Cardinality({i \in DOMAIN es : es[i].kind = kind /\ es[i].day = XDays(es)[n]})
    BY <1>3, <1>4, <2>1
  <2>3. QED
    BY <2>2 DEF OnDay, CountEvents
<1>14. QED
  BY <1>3, <1>8, <1>10, <1>11, <1>12, <1>13

\* The shares of the flavors add up to the machines created.
LEMMA FlavorsAdd ==
  ASSUME NEW es \in Seq(Event)
  PROVE  Total(FlavorDistribution(es)) = Count(es, "create")
<1> PICK I : I = Kind(es, "create")
  OBVIOUS
<1> PICK f : f = FlavorDistribution(es)
  OBVIOUS
<1> PICK F : F = {FlavorKey[es[i].flavor] : i \in I}
  OBVIOUS
<1>1. IsFiniteSet(I) /\ I \in SUBSET DOMAIN es
  <2>1. I \in SUBSET DOMAIN es /\ IsFiniteSet(DOMAIN es)
    BY DomainOf DEF Kind
  <2>2. QED
    BY <2>1, FS_Subset
<1>2. f = [x \in F |-> Cardinality({i \in DOMAIN es : es[i].kind = "create"
                                                    /\ FlavorKey[es[i].flavor] = x})]
  BY DEF FlavorDistribution, CountEvents, Kind
<1> PICK key : key = [i \in I |-> FlavorKey[es[i].flavor]]
  OBVIOUS
<1>3. DOMAIN f = F /\ key \in [I -> DOMAIN f]
  BY <1>2
<1>4. \A v : {i \in DOMAIN es : es[i].kind = "create" /\ FlavorKey[es[i].flavor] = v} = At(I, key, v)
  BY DEF At, Kind
<1>5. \A x \in DOMAIN f : f[x] = Cardinality(At(I, key, x))
  BY <1>2, <1>3, <1>4
<1>6. Total(f) = Cardinality(I)
  BY <1>1, <1>3, <1>5, TotalOfParts
<1>7. Count(es, "create") = Cardinality(I)
  <2>1. Count(es, "create") = Cardinality({i \in DOMAIN es : es[i].kind = "create" /\ TRUE})
    BY DEF Count, CountEvents
  <2>2. {i \in DOMAIN es : es[i].kind = "create" /\ TRUE} = I
    BY DEF Kind
  <2>3. QED
    BY <2>1, <2>2
<1>8. QED
  BY <1>6, <1>7


\* What the labels say of the days.
LEMMA DaysRise ==
  ASSUME NEW es \in Seq(Event), NEW V, V = ToSet(Days(es)), ListedInOrder(XDays(es))
  PROVE  Cardinality(V) > 5 \/ Rises(V)
<1>1. PICK c : c = Cardinality(V)
  OBVIOUS
<1>2. PICK a : a = XDays(es)
  OBVIOUS
<1>3. Lists(a, V) /\ IsFiniteSet(V) /\ V \in SUBSET Int
  <2>1. Lists(a, V) /\ IsFiniteSet(V)
    BY <1>2, CountedDaysAre
  <2>2. \A i \in DOMAIN es : Days(es)[i] \in DayNumbers /\ DOMAIN Days(es) = DOMAIN es
    BY DayOf DEF Days
  <2>3. V \in SUBSET Int
    BY <2>2 DEF ToSet, DayNumbers, Days
  <2>4. QED
    BY <2>1, <2>3
<1>4. c \in Nat /\ a \in [1 .. c -> V] /\ \A x \in V : \E n \in 1 .. c : a[n] = x
  BY <1>1, <1>3 DEF Lists
<1>5. \A m, n \in 1 .. c : m < n => a[m] < a[n]
  <2>1. a = Ascending(V)
    BY <1>2 DEF XDays
  <2>2. QED
    BY <1>1, <1>3, <2>1, AscendingLists
<1>6. Len(a) = c /\ DOMAIN a = 1 .. c
  BY <1>4, SequenceOf
<1>7. CASE Len(a) > 5
  BY <1>1, <1>6, <1>7
<1>8. CASE \A m, n \in DOMAIN a : m < n => a[m] % 8 < a[n] % 8
  <2>1. SUFFICES ASSUME NEW x \in V, NEW y \in V, x < y PROVE x % 8 < y % 8
    BY DEF Rises
  <2>2. PICK m \in 1 .. c : a[m] = x
    BY <1>4
  <2>3. PICK n \in 1 .. c : a[n] = y
    BY <1>4
  <2>4. x \in Int /\ y \in Int
    BY <1>3
  <2>5. n < m => y < x
    BY <1>5, <2>2, <2>3
  <2>6. m < n
    BY <1>4, <2>1, <2>2, <2>3, <2>4, <2>5
  <2>7. QED
    BY <1>6, <1>8, <2>2, <2>3, <2>6
<1>9. QED
  BY <1>2, <1>7, <1>8 DEF ListedInOrder

LEMMA DaysAgree ==
  ASSUME NEW es \in Seq(Event), NEW days, days = TimeDistribution(es)
  PROVE  /\ Total(days.create) = Count(es, "create")
         /\ Len(days.create) = Len(days.labels)
         /\ Len(days.delete) = Len(days.labels)
         /\ ListedInOrder(days.labels) => BarsTell(days, es)
<1> PICK V : V = ToSet(Days(es))
  OBVIOUS
<1> PICK c : c = Cardinality(V)
  OBVIOUS
<1>1. /\ days.labels = XDays(es) /\ days.create = Bars(es, "create")
      /\ days.delete = Bars(es, "delete")
  BY DEF TimeDistribution
<1>2. /\ Total(Bars(es, "create")) = Count(es, "create")
      /\ c \in Nat /\ Len(Bars(es, "create")) = c
      /\ c > 5 \/ Rises(V) => \A n \in 1 .. c : Bars(es, "create")[n] = OnDay(es, "create", XDays(es)[n])
  BY BarsAre
<1>3. /\ Len(Bars(es, "delete")) = c
      /\ c > 5 \/ Rises(V) => \A n \in 1 .. c : Bars(es, "delete")[n] = OnDay(es, "delete", XDays(es)[n])
  BY BarsAre
<1>4. Len(XDays(es)) = c /\ DOMAIN XDays(es) = 1 .. c
  <2>1. Lists(XDays(es), V)
    BY CountedDaysAre
  <2>2. XDays(es) \in [1 .. c -> V]
    BY <2>1 DEF Lists
  <2>3. QED
    BY <1>2, <2>2, SequenceOf
<1>5. ASSUME ListedInOrder(days.labels) PROVE BarsTell(days, es)
  <2>1. (c > 5 \/ Rises(V)) /\ DOMAIN days.labels = 1 .. c
    BY <1>1, <1>4, <1>5, DaysRise
  <2>2. ASSUME NEW n \in DOMAIN days.labels
        PROVE  /\ days.create[n] = OnDay(es, "create", days.labels[n])
               /\ days.delete[n] = OnDay(es, "delete", days.labels[n])
    BY <1>1, <1>2, <1>3, <2>1
  <2>3. QED
    BY <2>2, Zenon DEF BarsTell, OnDay
<1>6. QED
  BY <1>1, <1>2, <1>3, <1>4, <1>5

(***************************************************************************)
(* The machines created are those of the flavors and those of the days of  *)
(* a meter report, for any events, and each bar stands at its day if the   *)
(* days are more than five or their slots in the dictionary ascend.        *)
(***************************************************************************)
THEOREM MeterCountsAgree == Spec => []CountsAgree
<1>1. ASSUME Inv, NEW r \in Runs, Filed(r, "meter"), "vm_statistics" \in DOMAIN run[r].drawn,
             NEW d, d = run[r].drawn,
             NEW created, created = d["vm_statistics"].success, NEW days, days = d["days"]
      PROVE  /\ Total(d["flavors"]) = created
             /\ "days" \in DOMAIN d =>
                  /\ Total(days.create) = created
                  /\ Len(days.create) = Len(days.labels)
                  /\ Len(days.delete) = Len(days.labels)
                  /\ ListedInOrder(days.labels) => BarsTell(days, run[r].work)
  <2> PICK o : o = objects[run[r].object]
    OBVIOUS
  <2> PICK es : es = run[r].work
    OBVIOUS
  <2>1. run[r].stage = "filed" /\ Info[o.task].type = "meter" /\ RunKept(run[r], o)
    BY <1>1, FiledIs
  <2>2. MeterRun(run[r], o)
    BY <2>1 DEF RunKept
  <2>3. /\ es \in MeterAnswers \cup {<<>>}
        /\ d["vm_statistics"] = StateDistribution(es)
        /\ d["flavors"] = FlavorDistribution(es)
        /\ "days" \in DOMAIN d => days = TimeDistribution(es)
    BY <1>1, <2>1, <2>2 DEF MeterRun
  <2>4. es \in Seq(Event)
    <3>1. MeterAnswers \subseteq Seq(Event)
      BY MeterAssumption DEF Event
    <3> PICK T : T = Event
      OBVIOUS
    <3>2. <<>> \in Seq(T)
      OBVIOUS
    <3>3. QED
      BY <2>3, <3>1, <3>2
  <2>5. created = Count(es, "create")
    BY <1>1, <2>3 DEF StateDistribution
  <2>6. Total(d["flavors"]) = created
    BY <2>3, <2>4, <2>5, FlavorsAdd
  <2>7. QED
    BY <2>3, <2>4, <2>5, <2>6, DaysAgree
<1>2. Inv => CountsAgree
  BY <1>1, Zenon DEF CountsAgree
<1>3. QED
  BY <1>2, ReportsKept, PTL

==============================================================================
