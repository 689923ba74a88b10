------------------------------ MODULE Counting ------------------------------
(***************************************************************************)
(* What the proofs of several components need.  How the number of points   *)
(* that a function maps into a set changes when the function is updated at *)
(* one point: counters that the code keeps beside the objects they count   *)
(* are shown to be exact with it.  And induction for the loops of the code,*)
(* which are functions of the number of their iterations.                  *)
(***************************************************************************)
EXTENDS Integers, Sequences, FiniteSets, FiniteSetTheorems, NaturalsInduction,
        WellFoundedInduction, TLAPS

Ind(v, P) == IF v \in P THEN 1 ELSE 0

(* f and g differ at x only.                                               *)
DiffersAt(D, f, g, x) == \A y \in D : y # x => g[y] = f[y]

Count(D, f, P) == Cardinality({x \in D : f[x] \in P})

(* A count is a natural number, bounded by the size of the domain.         *)
LEMMA CountType ==
    ASSUME NEW D, IsFiniteSet(D), NEW f, NEW P
    PROVE  Count(D, f, P) \in Nat /\ Count(D, f, P) <= Cardinality(D)
<1> DEFINE S == {y \in D : f[y] \in P}
<1>1. S \in SUBSET D  OBVIOUS
<1> QED  BY <1>1, FS_Subset, FS_CardinalityType DEF Count

(* Changing a function at one point changes the number of points it maps   *)
(* into P by at most one.                                                  *)
LEMMA CountUpdate ==
    ASSUME NEW D, IsFiniteSet(D), NEW f, NEW g, NEW x \in D,
           DiffersAt(D, f, g, x), NEW P
    PROVE  Count(D, g, P) = Count(D, f, P) - Ind(f[x], P) + Ind(g[x], P)
<1> DEFINE S == {y \in D : f[y] \in P}
           T == {y \in D : g[y] \in P}
<1>1. S \in SUBSET D /\ T \in SUBSET D  OBVIOUS
<1>2. IsFiniteSet(S) /\ IsFiniteSet(T)  BY <1>1, FS_Subset
<1>3. Cardinality(S) \in Nat /\ Cardinality(T) \in Nat  BY <1>2, FS_CardinalityType
<1>4. S \ {x} = T \ {x}  BY DEF DiffersAt
<1>5. x \in S <=> f[x] \in P  OBVIOUS
<1>6. x \in T <=> g[x] \in P  OBVIOUS
<1>7. Cardinality(S \ {x}) = IF x \in S THEN Cardinality(S) - 1 ELSE Cardinality(S)
  BY <1>2, FS_RemoveElement
<1>8. Cardinality(T \ {x}) = IF x \in T THEN Cardinality(T) - 1 ELSE Cardinality(T)
  BY <1>2, FS_RemoveElement
<1>9. Count(D, f, P) = Cardinality(S) /\ Count(D, g, P) = Cardinality(T)
  BY DEF Count
<1>10. Cardinality(T) = Cardinality(S) - Ind(f[x], P) + Ind(g[x], P)
  <2> DEFINE s == Cardinality(S)
             t == Cardinality(T)
             r == Cardinality(S \ {x})
  <2>1. s \in Nat /\ t \in Nat  BY <1>3
  <2>2. r = Cardinality(T \ {x})  BY <1>4
  <2> HIDE DEF S, T
  <2>3. r = s - Ind(f[x], P) /\ r = t - Ind(g[x], P)
    BY <1>3, <1>5, <1>6, <1>7, <1>8, <2>2 DEF Ind
  <2>4. Ind(g[x], P) \in Int /\ Ind(f[x], P) \in Int  BY DEF Ind
  <2> HIDE DEF s, t, r
  <2>5. t = s - Ind(f[x], P) + Ind(g[x], P)  BY <2>1, <2>3, <2>4
  <2> QED  BY <2>5 DEF s, t
<1> HIDE DEF S, T
<1> QED  BY <1>3, <1>9, <1>10

(* A point that is not mapped into P does not count.                       *)
LEMMA CountOutside ==
    ASSUME NEW D, IsFiniteSet(D), NEW f, NEW P, NEW x \in D, f[x] \notin P
    PROVE  Count(D, f, P) <= Cardinality(D) - 1
<1> DEFINE S == {y \in D : f[y] \in P}
<1>1. S \in SUBSET (D \ {x})  OBVIOUS
<1>2. IsFiniteSet(D \ {x}) /\ Cardinality(D \ {x}) = Cardinality(D) - 1
  BY FS_RemoveElement
<1> QED  BY <1>1, <1>2, FS_Subset DEF Count

-----------------------------------------------------------------------------
(* A set of natural numbers that is not empty has a least element.         *)
LEMMA LeastNumber ==
    ASSUME NEW S \in SUBSET Nat, S # {}
    PROVE  \E n \in S : \A m \in S : n <= m
<1> DEFINE R == OpToRel(<, Nat)
<1>1. IsWellFoundedOn(R, Nat)  BY Zenon, NatLessThanWellFounded
<1>2. \A x, y \in Nat : x < y => <<x, y>> \in R  BY Zenon DEF OpToRel
<1> HIDE DEF R
<1>3. PICK n \in S : \A m \in S : <<m, n>> \notin R  BY Zenon, <1>1, WFMin
<1>4. \A m \in S : ~(m < n)  BY Zenon, <1>2, <1>3
<1>5. \A m \in S : n <= m  BY <1>4
<1> QED  BY Zenon, <1>5

(* The numbers of the iterations of a loop.                                *)
Initial(D) == D \in SUBSET Nat /\ 0 \in D /\ \A n \in D : n # 0 => n - 1 \in D

LEMMA NatInitial == Initial(Nat)
BY DEF Initial

LEMMA RangeInitial == \A m \in Nat : Initial(0 .. m)
BY DEF Initial

(* What holds before a loop and is kept by every iteration holds at the    *)
(* end: r[n] is what the loop has computed after n iterations, and X[n]    *)
(* what is to hold then.                                                   *)
LEMMA LoopKeeps ==
    ASSUME NEW D, Initial(D), NEW r, NEW X, r[0] \in X[0],
           \A n \in D : n # 0 /\ r[n - 1] \in X[n - 1] => r[n] \in X[n]
    PROVE  \A n \in D : r[n] \in X[n]
<1> DEFINE Wrong == {n \in D : r[n] \notin X[n]}
<1> SUFFICES ASSUME Wrong # {} PROVE FALSE
  BY Zenon
<1>1. Wrong \in SUBSET Nat  BY Zenon DEF Initial
<1>2. PICK n \in Wrong : \A m \in Wrong : n <= m
  <2> HIDE DEF Wrong
  <2> QED  BY Zenon, <1>1, LeastNumber
<1>3. n \in Nat /\ n # 0  BY Zenon, <1>1
<1>4. n - 1 \in D /\ ~(n <= n - 1)  BY <1>3 DEF Initial
<1>5. n - 1 \notin Wrong  BY Zenon, <1>2, <1>4
<1> QED  BY Zenon, <1>3, <1>4, <1>5

(* Every loop computes something.                                          *)
Computes(g, D, a, F) == \A n \in D : g[n] = IF n = 0 THEN a ELSE F[n][g[n - 1]]

LEMMA LoopPrefix ==
    ASSUME NEW m \in Nat, NEW a, NEW F
    PROVE  \E g : Computes(g, 0 .. m, a, F)
<1> DEFINE Bad == {k \in Nat : ~ \E g : Computes(g, 0 .. k, a, F)}
<1> SUFFICES ASSUME Bad # {} PROVE FALSE
  BY Zenon
<1>1. PICK k \in Bad : \A n \in Bad : k <= n
  <2>1. Bad \in SUBSET Nat  BY Zenon
  <2> HIDE DEF Bad
  <2> QED  BY Zenon, <2>1, LeastNumber
<1>2. k # 0
  <2>1. Computes([n \in 0 .. 0 |-> a], 0 .. 0, a, F)  BY DEF Computes
  <2> QED  BY Zenon, <2>1
<1>3. k - 1 \in Nat /\ ~(k <= k - 1)  BY <1>2
<1>4. PICK g : Computes(g, 0 .. k - 1, a, F)  BY Zenon, <1>1, <1>3
<1> DEFINE f == [n \in 0 .. k |-> IF n = k THEN F[k][g[k - 1]] ELSE g[n]]
<1>5. f[k] = F[k][g[k - 1]] /\ \A n \in 0 .. k - 1 : f[n] = g[n]  BY <1>3
<1>6. f[k] = F[k][f[k - 1]]  BY <1>3, <1>5
<1> HIDE DEF f
<1>7. Computes(f, 0 .. k, a, F)
  <2> SUFFICES ASSUME NEW n \in 0 .. k
               PROVE  f[n] = IF n = 0 THEN a ELSE F[n][f[n - 1]]
    BY Zenon DEF Computes
  <2>1. CASE n = k  BY Zenon, <1>2, <1>6, <2>1
  <2>2. CASE n # k
    <3>1. n \in 0 .. k - 1 /\ (n # 0 => n - 1 \in 0 .. k - 1)  BY <1>3, <2>2
    <3> QED  BY Zenon, <1>4, <1>5, <3>1 DEF Computes
  <2> QED  BY Zenon, <2>1, <2>2
<1> QED  BY Zenon, <1>1, <1>7

LEMMA LoopUnique ==
    ASSUME NEW a, NEW F, NEW k \in Nat, NEW m \in Nat, NEW g, NEW h,
           Computes(g, 0 .. k, a, F), Computes(h, 0 .. m, a, F), k <= m
    PROVE  g[k] = h[k]
<1> DEFINE Bad == {n \in 0 .. k : g[n] # h[n]}
<1>1. Bad = {}
  <2> SUFFICES ASSUME Bad # {} PROVE FALSE
    BY Zenon
  <2>1. PICK n \in Bad : \A i \in Bad : n <= i
    <3>1. Bad \in SUBSET Nat  OBVIOUS
    <3> HIDE DEF Bad
    <3> QED  BY Zenon, <3>1, LeastNumber
  <2>2. n \in 0 .. k /\ n \in 0 .. m  OBVIOUS
  <2>3. n # 0  BY Zenon, <2>2 DEF Computes
  <2>4. n - 1 \in 0 .. k /\ ~(n <= n - 1)  BY <2>2, <2>3
  <2>5. g[n - 1] = h[n - 1]  BY Zenon, <2>1, <2>4
  <2> QED  BY Zenon, <2>2, <2>3, <2>5 DEF Computes
<1>2. k \in 0 .. k  OBVIOUS
<1> QED  BY Zenon, <1>1, <1>2

LEMMA LoopExists ==
    ASSUME NEW D, Initial(D), NEW a, NEW F
    PROVE  \E g : Computes(g, D, a, F)
<1> DEFINE P(m) == CHOOSE g : Computes(g, 0 .. m, a, F)
           f == [n \in D |-> P(n)[n]]
<1>1. \A m \in Nat : Computes(P(m), 0 .. m, a, F)  BY Zenon, LoopPrefix
<1>2. \A n \in D : f[n] = P(n)[n]  BY Zenon
<1> HIDE DEF P, f
<1>3. ASSUME NEW n \in D
      PROVE  f[n] = IF n = 0 THEN a ELSE F[n][f[n - 1]]
  <2>1. n \in Nat /\ n \in 0 .. n  BY DEF Initial
  <2>2. P(n)[n] = IF n = 0 THEN a ELSE F[n][P(n)[n - 1]]
    BY Zenon, <1>1, <2>1 DEF Computes
  <2>3. CASE n = 0  BY Zenon, <1>2, <2>2, <2>3
  <2>4. CASE n # 0
    <3>1. n - 1 \in D /\ n - 1 \in Nat /\ n - 1 <= n  BY <2>1, <2>4 DEF Initial
    <3>2. PICK k : k = n - 1  BY Zenon
    <3>3. P(n - 1)[n - 1] = P(n)[n - 1]
      <4>1. k \in Nat /\ k <= n  BY Zenon, <3>1, <3>2
      <4>2. Computes(P(k), 0 .. k, a, F) /\ Computes(P(n), 0 .. n, a, F)
        BY Zenon, <1>1, <2>1, <4>1
      <4>3. P(k)[k] = P(n)[k]  BY <2>1, <4>1, <4>2, LoopUnique
      <4> QED  BY Zenon, <3>2, <4>3
    <3>4. f[n - 1] = P(n)[n - 1]  BY Zenon, <1>2, <3>1, <3>3
    <3> QED  BY Zenon, <1>2, <2>2, <2>4, <3>4
  <2> QED  BY Zenon, <2>3, <2>4
<1> QED  BY Zenon, <1>3 DEF Computes

(* The loop that applies F[n] in its n-th iteration, where F[n] maps       *)
(* X[n - 1] into X[n].                                                     *)
LEMMA LoopIn ==
    ASSUME NEW D, Initial(D), NEW X, NEW a \in X[0], NEW F,
           \A n \in D : n # 0 => \A x \in X[n - 1] : F[n][x] \in X[n]
    PROVE  \E g : Computes(g, D, a, F) /\ \A n \in D : g[n] \in X[n]
<1>0. PICK f : Computes(f, D, a, F)  BY Zenon, LoopExists
<1>1. \A n \in D : f[n] = IF n = 0 THEN a ELSE F[n][f[n - 1]]  BY Zenon, <1>0 DEF Computes
<1>2. 0 \in D /\ \A n \in D : n # 0 => n - 1 \in D  BY Zenon DEF Initial
<1>3. f[0] \in X[0]  BY Zenon, <1>1, <1>2
<1>4. \A n \in D : n # 0 /\ f[n - 1] \in X[n - 1] => f[n] \in X[n]  BY Zenon, <1>1, <1>2
<1>5. \A n \in D : f[n] \in X[n]  BY Zenon, <1>3, <1>4, LoopKeeps
<1> QED  BY Zenon, <1>0, <1>5

-----------------------------------------------------------------------------
(* Lists in which nothing is twice.                                        *)
Elems(s) == {s[i] : i \in 1 .. Len(s)}
NoRepeat(s) == \A i, j \in 1 .. Len(s) : s[i] = s[j] => i = j

LEMMA ListEmpty ==
    /\ NoRepeat(<<>>) /\ Elems(<<>>) = {}
    /\ \A E : <<>> \in Seq(E)
BY DEF NoRepeat, Elems

LEMMA ListNotEmpty ==
    ASSUME NEW E, NEW s \in Seq(E)
    PROVE  Elems(s) = {} <=> s = <<>>
<1>1. Len(s) \in Nat  OBVIOUS
<1>2. Len(s) # 0 => 1 \in 1 .. Len(s)  BY <1>1
<1>3. Len(s) = 0 <=> s = <<>>  OBVIOUS
<1>4. Len(s) = 0 => Elems(s) = {}  BY DEF Elems
<1>5. Len(s) # 0 => Elems(s) # {}  BY Zenon, <1>2 DEF Elems
<1> QED  BY Zenon, <1>3, <1>4, <1>5

LEMMA ListCons ==
    ASSUME NEW E, NEW s \in Seq(E), NoRepeat(s), NEW e \in E, e \notin Elems(s)
    PROVE  /\ <<e>> \o s \in Seq(E) /\ NoRepeat(<<e>> \o s)
           /\ Elems(<<e>> \o s) = Elems(s) \union {e}
<1> DEFINE r == <<e>> \o s
           n == Len(s)
<1>1. /\ r \in Seq(E) /\ n \in Nat /\ Len(r) = n + 1 /\ r[1] = e
      /\ \A i \in 1 .. n + 1 : i # 1 => r[i] = s[i - 1]
  OBVIOUS
<1>2. \A i \in 1 .. n + 1 : i # 1 => i - 1 \in 1 .. n  BY <1>1
<1>3. \A i \in 1 .. n : r[i + 1] = s[i] /\ i + 1 \in 1 .. n + 1  BY <1>1
<1>4. 1 \in 1 .. n + 1  BY <1>1
<1> HIDE DEF r, n
<1>5. Elems(s) = {s[i] : i \in 1 .. n} /\ Elems(r) = {r[i] : i \in 1 .. n + 1}
  BY Zenon, <1>1 DEF Elems, n
<1>6. Elems(r) = Elems(s) \union {e}
  <2>1. ASSUME NEW x \in Elems(r) PROVE x \in Elems(s) \union {e}
    <3>1. PICK i \in 1 .. n + 1 : x = r[i]  BY Zenon, <1>5
    <3> QED  BY Zenon, <1>1, <1>2, <1>5, <3>1
  <2>2. ASSUME NEW x \in Elems(s) PROVE x \in Elems(r)
    <3>1. PICK i \in 1 .. n : x = s[i]  BY Zenon, <1>5
    <3> QED  BY Zenon, <1>3, <1>5, <3>1
  <2>3. e \in Elems(r)  BY Zenon, <1>1, <1>4, <1>5
  <2> QED  BY Zenon, <2>1, <2>2, <2>3
<1>7. NoRepeat(r)
  <2> SUFFICES ASSUME NEW i \in 1 .. n + 1, NEW j \in 1 .. n + 1, r[i] = r[j] PROVE i = j
    BY Zenon, <1>1 DEF NoRepeat
  <2>1. CASE i = 1 \/ j = 1
    <3>1. \A k \in 1 .. n + 1 : k # 1 => r[k] # e  BY Zenon, <1>1, <1>2, <1>5
    <3> QED  BY Zenon, <1>1, <2>1, <3>1
  <2>2. CASE i # 1 /\ j # 1
    <3>1. s[i - 1] = s[j - 1] /\ i - 1 \in 1 .. n /\ j - 1 \in 1 .. n
      BY Zenon, <1>1, <1>2, <2>2
    <3>2. i - 1 = j - 1  BY Zenon, <3>1 DEF NoRepeat, n
    <3> QED  BY <3>2
  <2> QED  BY Zenon, <2>1, <2>2
<1> QED  BY Zenon, <1>1, <1>6, <1>7 DEF r

LEMMA ListTail ==
    ASSUME NEW E, NEW s \in Seq(E), NoRepeat(s), s # <<>>
    PROVE  /\ Head(s) \in E /\ Head(s) \in Elems(s) /\ Tail(s) \in Seq(E) /\ NoRepeat(Tail(s))
           /\ Elems(Tail(s)) = Elems(s) \ {Head(s)}
<1> DEFINE r == Tail(s)
           n == Len(s)
           e == s[1]
<1>1. /\ r \in Seq(E) /\ n \in Nat \ {0} /\ Len(r) = n - 1 /\ Head(s) = e
      /\ \A i \in 1 .. n - 1 : r[i] = s[i + 1]
  OBVIOUS
<1>2. 1 \in 1 .. n /\ \A i \in 1 .. n - 1 : i + 1 \in 1 .. n /\ i + 1 # 1  BY <1>1
<1>3. \A i \in 1 .. n : i # 1 => r[i - 1] = s[i] /\ i - 1 \in 1 .. n - 1  BY <1>1
<1>4. e \in E  BY <1>2
<1> HIDE DEF r, n, e
<1>5. /\ \A i, j \in 1 .. n : s[i] = s[j] => i = j
      /\ e = s[1]
  BY Zenon DEF NoRepeat, n, e
<1>6. Elems(s) = {s[i] : i \in 1 .. n} /\ Elems(r) = {r[i] : i \in 1 .. n - 1}
  BY Zenon, <1>1 DEF Elems, n
<1>7. Elems(r) = Elems(s) \ {e}
  <2>1. ASSUME NEW x \in Elems(r) PROVE x \in Elems(s) \ {e}
    <3>1. PICK i \in 1 .. n - 1 : x = r[i]  BY Zenon, <1>6
    <3>2. x = s[i + 1] /\ i + 1 \in 1 .. n /\ i + 1 # 1  BY Zenon, <1>1, <1>2, <3>1
    <3>3. x # s[1]  BY Zenon, <1>2, <1>5, <3>2
    <3> QED  BY Zenon, <1>5, <1>6, <3>2, <3>3
  <2>2. ASSUME NEW x \in Elems(s) \ {e} PROVE x \in Elems(r)
    <3>1. PICK i \in 1 .. n : x = s[i]  BY Zenon, <1>6
    <3>2. i # 1  BY Zenon, <1>5, <3>1
    <3> QED  BY Zenon, <1>3, <1>6, <3>1, <3>2
  <2> QED  BY Zenon, <2>1, <2>2
<1>8. NoRepeat(r)
  <2> SUFFICES ASSUME NEW i \in 1 .. n - 1, NEW j \in 1 .. n - 1, r[i] = r[j] PROVE i = j
    BY Zenon, <1>1 DEF NoRepeat
  <2>1. s[i + 1] = s[j + 1]  BY Zenon, <1>1
  <2>2. i + 1 = j + 1  BY Zenon, <1>2, <1>5, <2>1
  <2> QED  BY <2>2
<1>9. e \in Elems(s)  BY Zenon, <1>2, <1>5, <1>6
<1> QED  BY Zenon, <1>1, <1>4, <1>7, <1>8, <1>9 DEF r

(* How often an element is in such a list.                                 *)
LEMMA ListCount ==
    ASSUME NEW s, NoRepeat(s), NEW e
    PROVE  Cardinality({k \in 1 .. Len(s) : s[k] = e}) = IF e \in Elems(s) THEN 1 ELSE 0
<1> DEFINE K == {k \in 1 .. Len(s) : s[k] = e}
<1>1. CASE e \in Elems(s)
  <2>1. PICK i \in 1 .. Len(s) : e = s[i]  BY Zenon, <1>1 DEF Elems
  <2>2. K = {i}  BY Zenon, <2>1 DEF NoRepeat
  <2>3. Cardinality(K) = 1  BY Zenon, <2>2, FS_Singleton
  <2> QED  BY Zenon, <1>1, <2>3
<1>2. CASE e \notin Elems(s)
  <2>1. K = {}  BY Zenon, <1>2 DEF Elems
  <2>2. Cardinality(K) = 0  BY Zenon, <2>1, FS_EmptySet
  <2> QED  BY Zenon, <1>2, <2>2
<1> QED  BY Zenon, <1>1, <1>2
=============================================================================
