---------------------------- MODULE CacheUpdates ----------------------------
(***************************************************************************)
(* Lemmas about Cache, for all sets of keys, threads, sizes and limits.    *)
(*                                                                         *)
(* First what the functions of cache.c do to a cache: each changes one     *)
(* entry (Changed) or drops some (Drops), and keeps the sum of sizes; the  *)
(* loops by induction over their iterations.  Then the invariant: CacheInv *)
(* says of every entry whether it has a value, a private one, is computed  *)
(* or was left, and that epochs are unique; WaitInv says what threads wait *)
(* for.  Last, that the commands which create an entry or find it, and     *)
(* then evaluate or set its value, keep the invariant.                     *)
(***************************************************************************)
EXTENDS Cache, Counting

(* The leaves that name no prover are for Zenon.                           *)
USE Zenon

(* The list without k.                                                     *)
LEMMA RangeElems ==
    ASSUME NEW E, NEW s \in Seq(E) PROVE Range(s) = Elems(s)
<1>1. DOMAIN s = 1 .. Len(s)  BY SMT
<1> QED  BY <1>1 DEF Range, Elems

LEMMA WithoutForm ==
    ASSUME NEW E, NEW s \in Seq(E), NoRepeat(s), NEW p \in 1 .. Len(s)
    PROVE  Without(s, s[p]) = [i \in 1 .. Len(s) - 1 |-> s[IF i < p THEN i ELSE i + 1]]
<1> DEFINE k == s[p]
           r == CHOOSE r \in 1 .. Len(s) : s[r] = k
<1>1. k \in Range(s)  BY RangeElems DEF Elems
<1>2. r \in 1 .. Len(s) /\ s[r] = k  OBVIOUS
<1>3. r = p  BY <1>2 DEF NoRepeat
<1>4. Without(s, k) = [i \in 1 .. Len(s) - 1 |-> s[IF i < r THEN i ELSE i + 1]]
  BY <1>1 DEF Without
<1> HIDE DEF r
<1> QED  BY <1>3, <1>4

LEMMA WithoutKeeps ==
    ASSUME NEW E, NEW s \in Seq(E), NoRepeat(s), NEW p \in 1 .. Len(s)
    PROVE  /\ Without(s, s[p]) \in Seq(E) /\ NoRepeat(Without(s, s[p]))
           /\ Len(Without(s, s[p])) = Len(s) - 1
           /\ \A i \in 1 .. Len(s) - 1 : Without(s, s[p])[i] = s[IF i < p THEN i ELSE i + 1]
           /\ Elems(Without(s, s[p])) = Elems(s) \ {s[p]}
<1> DEFINE n == Len(s)
           at(i) == IF i < p THEN i ELSE i + 1
           w == [i \in 1 .. n - 1 |-> s[at(i)]]
<1>0. n \in Nat /\ n - 1 \in Nat  BY SMT
<1>1. \A i \in 1 .. n - 1 : at(i) \in 1 .. n /\ at(i) # p  BY SMT
<1>2. \A i, j \in 1 .. n - 1 : at(i) = at(j) => i = j  BY SMT
<1>3. \A j \in 1 .. n : j # p => \E i \in 1 .. n - 1 : at(i) = j
  <2> SUFFICES ASSUME NEW j \in 1 .. n, j # p PROVE \E i \in 1 .. n - 1 : at(i) = j
    BY SMT
  <2>1. CASE j < p
    <3>1. j \in 1 .. n - 1 /\ at(j) = j  BY SMT, <2>1
    <3> QED  BY <3>1
  <2>2. CASE ~(j < p)
    <3>1. j - 1 \in 1 .. n - 1 /\ at(j - 1) = j  BY SMT, <2>2
    <3> QED  BY <3>1
  <2> QED  BY <2>1, <2>2
<1>4. w \in Seq(E) /\ Len(w) = n - 1
  <2>1. \A i \in 1 .. n - 1 : s[at(i)] \in E  BY SMT, <1>1
  <2> HIDE DEF at
  <2>2. w \in [1 .. n - 1 -> E]  BY <2>1
  <2> HIDE DEF w
  <2> QED  BY SMT, <1>0, <2>2
<1>5. Without(s, s[p]) = w  BY WithoutForm
<1>6. \A i \in 1 .. n - 1 : w[i] = s[at(i)]  OBVIOUS
<1> HIDE DEF at, w, n
<1>7. \A i, j \in 1 .. n : s[i] = s[j] => i = j  BY DEF NoRepeat, n
<1>8. NoRepeat(w)
  <2>1. ASSUME NEW i \in 1 .. n - 1, NEW j \in 1 .. n - 1, w[i] = w[j] PROVE i = j
    <3>1. s[at(i)] = s[at(j)] /\ at(i) \in 1 .. n /\ at(j) \in 1 .. n
      BY <1>1, <1>6, <2>1
    <3>2. at(i) = at(j)  BY <1>7, <3>1
    <3> QED  BY <1>2, <3>2
  <2> QED  BY <1>4, <2>1 DEF NoRepeat
<1>9. Elems(w) = {w[i] : i \in 1 .. n - 1} /\ Elems(s) = {s[i] : i \in 1 .. n}
  BY <1>4 DEF Elems, n
<1>10. Elems(w) = Elems(s) \ {s[p]}
  <2>1. ASSUME NEW x \in Elems(w) PROVE x \in Elems(s) \ {s[p]}
    <3>1. PICK i \in 1 .. n - 1 : x = w[i]  BY <1>9
    <3>2. x = s[at(i)] /\ at(i) \in 1 .. n /\ at(i) # p  BY <1>1, <1>6, <3>1
    <3>3. p \in 1 .. n  BY DEF n
    <3>4. x # s[p]  BY <1>7, <3>2, <3>3
    <3> QED  BY <1>9, <3>2, <3>4
  <2>2. ASSUME NEW x \in Elems(s), x # s[p] PROVE x \in Elems(w)
    <3>1. PICK j \in 1 .. n : x = s[j]  BY <1>9
    <3>2. j # p  BY <2>2, <3>1
    <3>3. PICK i \in 1 .. n - 1 : at(i) = j  BY <1>3, <3>2
    <3> QED  BY <1>6, <1>9, <3>1, <3>3
  <2> QED  BY <2>1, <2>2
<1>11. \A i \in 1 .. n - 1 : w[i] = s[IF i < p THEN i ELSE i + 1]  BY <1>6 DEF at
<1> QED  BY <1>4, <1>5, <1>8, <1>10, <1>11 DEF n

LEMMA WithoutKey ==
    ASSUME NEW E, NEW s \in Seq(E), NoRepeat(s), NEW k \in Elems(s)
    PROVE  /\ Without(s, k) \in Seq(E) /\ NoRepeat(Without(s, k))
           /\ Elems(Without(s, k)) = Elems(s) \ {k}
<1>1. PICK p \in 1 .. Len(s) : k = s[p]  BY DEF Elems
<1>2. /\ Without(s, s[p]) \in Seq(E) /\ NoRepeat(Without(s, s[p]))
      /\ Elems(Without(s, s[p])) = Elems(s) \ {s[p]}
  BY WithoutKeeps
<1> QED  BY <1>1, <1>2

-----------------------------------------------------------------------------
(* The running sums of what the entries of a list take.                    *)
Sums(r, s, e) ==
    /\ r \in [0 .. Len(s) -> Int] /\ r[0] = 0
    /\ \A n \in 1 .. Len(s) : r[n] = r[n - 1] + Overhead + e[s[n]].size

Sized(v, s, e) == \E r : Sums(r, s, e) /\ v = r[Len(s)]

LEMMA SizedEmpty == ASSUME NEW e PROVE Sized(0, <<>>, e)
<1> DEFINE r == [n \in 0 .. 0 |-> 0]
<1>1. Sums(r, <<>>, e)  BY SMT DEF Sums
<1>2. r[Len(<<>>)] = 0  BY SMT
<1> QED  BY <1>1, <1>2 DEF Sized

(* The entry k, which is in the list once, changes its size.               *)
LEMMA SizedChange ==
    ASSUME NEW E, NEW s \in Seq(E), NoRepeat(s), NEW k \in Elems(s), NEW e, NEW f, NEW v,
           Sized(v, s, e), e[k].size \in Nat, \A j \in Elems(s) : f[j].size \in Nat,
           \A j \in Elems(s) \ {k} : f[j] = e[j]
    PROVE  Sized(v - e[k].size + f[k].size, s, f)
<1>1. PICK r : Sums(r, s, e) /\ v = r[Len(s)]  BY DEF Sized
<1> DEFINE m == Len(s)
           d == f[k].size - e[k].size
<1>2. PICK p \in 1 .. m : k = s[p]  BY DEF Elems
<1>3. \A n \in 1 .. m : n # p => s[n] \in Elems(s) \ {k}
  BY <1>2 DEF NoRepeat, Elems
<1> DEFINE q == [n \in 0 .. m |-> IF n < p THEN r[n] ELSE r[n] + d]
<1>4. m \in Nat /\ p \in 1 .. m /\ d \in Int /\ Overhead \in Nat  BY SMT, CacheAssumption
<1>5. /\ r \in [0 .. m -> Int] /\ r[0] = 0
      /\ \A n \in 1 .. m : r[n] = r[n - 1] + Overhead + e[s[n]].size
  BY <1>1 DEF Sums
<1>6. f[s[p]].size = e[s[p]].size + d  BY SMT, <1>2
<1>7. \A n \in 1 .. m : n # p => f[s[n]].size = e[s[n]].size  BY <1>3
<1>8. e[s[p]].size \in Int  BY SMT, <1>2
<1>14. \A n \in 1 .. m : f[s[n]].size \in Int
  <2>1. \A n \in 1 .. m : f[s[n]].size \in Nat  BY DEF Elems
  <2> QED  BY SMT, <2>1
<1> HIDE DEF m, d
<1>9. q \in [0 .. m -> Int] /\ q[0] = 0  BY SMT, <1>4, <1>5
<1>10. ASSUME NEW n \in 1 .. m PROVE q[n] = q[n - 1] + Overhead + f[s[n]].size
  <2>0. n \in 0 .. m /\ n - 1 \in 0 .. m  BY SMT, <1>4
  <2>1. CASE n < p
    <3>1. q[n] = r[n] /\ q[n - 1] = r[n - 1]  BY SMT, <1>4, <2>0, <2>1
    <3>2. n # p /\ r[n] = r[n - 1] + Overhead + e[s[n]].size  BY SMT, <1>4, <1>5, <2>1
    <3> HIDE DEF q
    <3> QED  BY <1>7, <3>1, <3>2
  <2>2. CASE n = p
    <3>1. q[n] = r[n] + d /\ q[n - 1] = r[n - 1]  BY SMT, <1>4, <2>0, <2>2
    <3>2. r[n] = r[n - 1] + Overhead + e[s[p]].size /\ r[n - 1] \in Int
      BY SMT, <1>5, <2>0, <2>2
    <3> HIDE DEF q
    <3> QED  BY SMT, <1>4, <1>6, <1>8, <2>2, <3>1, <3>2
  <2>3. CASE n > p
    <3>1. q[n] = r[n] + d /\ q[n - 1] = r[n - 1] + d  BY SMT, <1>4, <2>0, <2>3
    <3>2. r[n] = r[n - 1] + Overhead + f[s[n]].size /\ r[n - 1] \in Int /\ r[n] \in Int
      <4>1. n # p /\ r[n] = r[n - 1] + Overhead + e[s[n]].size /\ r[n - 1] \in Int
            /\ r[n] \in Int
        BY SMT, <1>4, <1>5, <2>0, <2>3
      <4> QED  BY <1>7, <4>1
    <3>3. f[s[n]].size \in Int  BY <1>14
    <3> DEFINE a == r[n - 1]
               b == f[s[n]].size
    <3> HIDE DEF q, a, b
    <3> QED  BY SMT, <1>4, <3>1, <3>2, <3>3 DEF a, b
  <2> QED  BY SMT, <1>4, <2>1, <2>2, <2>3
<1>11. q[m] = r[m] + d /\ r[m] \in Int  BY SMT, <1>4, <1>5
<1> HIDE DEF q
<1>12. Sums(q, s, f)  BY <1>9, <1>10 DEF Sums, m
<1>13. v - e[k].size + f[k].size = r[m] + d  BY SMT, <1>1, <1>11 DEF d, m
<1> QED  BY <1>11, <1>12, <1>13 DEF Sized, m

(* Entries that are not in the list do not count.                          *)
LEMMA SizedSame ==
    ASSUME NEW s, NEW e, NEW f, NEW v, Sized(v, s, e), \A j \in Elems(s) : f[j] = e[j]
    PROVE  Sized(v, s, f)
<1>1. PICK r : Sums(r, s, e) /\ v = r[Len(s)]  BY DEF Sized
<1>2. \A n \in 1 .. Len(s) : f[s[n]] = e[s[n]]  BY DEF Elems
<1>3. Sums(r, s, f)  BY <1>1, <1>2 DEF Sums
<1> QED  BY <1>1, <1>3 DEF Sized

(* The entry k, which is in the list once, leaves it.                      *)
LEMMA SizedRemove ==
    ASSUME NEW E, NEW s \in Seq(E), NoRepeat(s), NEW k \in Elems(s), NEW e, NEW v,
           Sized(v, s, e), \A j \in Elems(s) : e[j].size \in Nat
    PROVE  Sized(v - e[k].size - Overhead, Without(s, k), e)
<1>1. PICK r : Sums(r, s, e) /\ v = r[Len(s)]  BY DEF Sized
<1> DEFINE m == Len(s)
           w == Without(s, k)
           d == e[k].size + Overhead
<1>2. PICK p \in 1 .. m : k = s[p]  BY DEF Elems
<1> DEFINE q == [n \in 0 .. m - 1 |-> IF n < p THEN r[n] ELSE r[n + 1] - d]
<1>3. Len(w) = m - 1 /\ \A i \in 1 .. m - 1 : w[i] = s[IF i < p THEN i ELSE i + 1]
  BY <1>2, WithoutKeeps
<1>4. \A n \in 1 .. m : e[s[n]].size \in Nat  BY DEF Elems
<1>5. m \in Nat /\ p \in 1 .. m /\ d \in Int /\ Overhead \in Int /\ e[s[p]].size \in Int
  <2>1. e[k].size \in Nat  BY <1>2, <1>4
  <2> QED  BY SMT, CacheAssumption, <1>2, <2>1
<1>6. /\ r \in [0 .. m -> Int] /\ r[0] = 0
      /\ \A n \in 1 .. m : r[n] = r[n - 1] + Overhead + e[s[n]].size
  BY <1>1 DEF Sums
<1>7. d = e[s[p]].size + Overhead  BY <1>2
<1> HIDE DEF m, d, w
<1>8. q \in [0 .. m - 1 -> Int] /\ q[0] = 0  BY SMT, <1>5, <1>6
<1>9. ASSUME NEW n \in 1 .. m - 1 PROVE q[n] = q[n - 1] + Overhead + e[w[n]].size
  <2>0. n \in 0 .. m - 1 /\ n - 1 \in 0 .. m - 1 /\ n \in 1 .. m /\ n + 1 \in 1 .. m
    BY SMT, <1>5
  <2>1. CASE n < p
    <3>1. q[n] = r[n] /\ q[n - 1] = r[n - 1]  BY SMT, <1>5, <2>0, <2>1
    <3>2. w[n] = s[n]  BY <1>3, <2>1
    <3> HIDE DEF q
    <3> QED  BY <1>6, <2>0, <3>1, <3>2
  <2>2. CASE ~(n < p)
    <3>1. q[n] = r[n + 1] - d  BY SMT, <1>5, <2>0, <2>2
    <3>2. w[n] = s[n + 1]  BY <1>3, <2>2
    <3>3. r[n + 1] = r[n] + Overhead + e[w[n]].size /\ r[n] \in Int
      <4>1. r[n + 1] = r[(n + 1) - 1] + Overhead + e[s[n + 1]].size  BY <1>6, <2>0
      <4>2. (n + 1) - 1 = n /\ n \in 0 .. m  BY SMT, <1>5, <2>0
      <4> QED  BY <1>6, <3>2, <4>1, <4>2
    <3>4. e[w[n]].size \in Int
      <4>1. e[w[n]].size \in Nat  BY <1>4, <2>0, <3>2
      <4> QED  BY SMT, <4>1
    <3>5. q[n - 1] = r[n] - d
      <4>1. CASE n = p
        <5>1. q[n - 1] = r[n - 1]  BY SMT, <1>5, <2>0, <4>1
        <5>2. r[n] = r[n - 1] + Overhead + e[s[p]].size  BY <1>6, <2>0, <4>1
        <5>3. r[n - 1] \in Int  BY SMT, <1>5, <1>6, <2>0
        <5> HIDE DEF q
        <5> QED  BY SMT, <1>5, <1>7, <5>1, <5>2, <5>3
      <4>2. CASE n # p
        <5>1. q[n - 1] = r[(n - 1) + 1] - d  BY SMT, <1>5, <2>0, <2>2, <4>2
        <5>2. (n - 1) + 1 = n  BY SMT, <2>0
        <5> HIDE DEF q
        <5> QED  BY <5>1, <5>2
      <4> QED  BY <4>1, <4>2
    <3> HIDE DEF q
    <3> DEFINE x == e[w[n]].size
               y == r[n]
    <3> HIDE DEF x, y
    <3> QED  BY SMT, <1>5, <3>1, <3>3, <3>4, <3>5 DEF x, y
  <2> QED  BY <2>1, <2>2
<1>10. q[m - 1] = r[m] - d
  <2>1. CASE m = p
    <3>1. q[m - 1] = r[m - 1]  BY SMT, <1>5, <2>1
    <3>2. r[m] = r[m - 1] + Overhead + e[s[p]].size  BY <1>5, <1>6, <2>1
    <3>3. r[m - 1] \in Int  BY SMT, <1>5, <1>6
    <3> HIDE DEF q
    <3> QED  BY SMT, <1>5, <1>7, <3>1, <3>2, <3>3
  <2>2. CASE m # p
    <3>1. q[m - 1] = r[(m - 1) + 1] - d  BY SMT, <1>5, <2>2
    <3>2. (m - 1) + 1 = m  BY SMT, <1>5
    <3> HIDE DEF q
    <3> QED  BY <3>1, <3>2
  <2> QED  BY <2>1, <2>2
<1>11. r[m] \in Int  BY SMT, <1>5, <1>6
<1> HIDE DEF q
<1>12. Sums(q, w, e)  BY <1>3, <1>8, <1>9 DEF Sums
<1>13. v - e[k].size - Overhead = q[Len(w)]
  <2>1. v = r[m] /\ q[Len(w)] = q[m - 1] /\ e[k].size = e[s[p]].size
    BY <1>1, <1>2, <1>3 DEF m
  <2> DEFINE x == e[s[p]].size
             y == r[m]
  <2>2. x \in Int /\ y \in Int /\ d = x + Overhead /\ Overhead \in Int  BY <1>5, <1>7, <1>11
  <2>3. v = y /\ q[Len(w)] = y - d /\ e[k].size = x  BY <1>10, <2>1
  <2> HIDE DEF x, y
  <2>4. y - x - Overhead = y - d  BY SMT, <2>2
  <2> QED  BY <2>3, <2>4
<1> QED  BY <1>12, <1>13 DEF Sized, w

(* An entry is pushed to the front.                                        *)
LEMMA SizedPush ==
    ASSUME NEW E, NEW s \in Seq(E), NEW k \in E, NEW e, NEW v, Sized(v, s, e),
           e[k].size \in Nat, \A j \in Elems(s) : e[j].size \in Nat
    PROVE  Sized(v + e[k].size + Overhead, <<k>> \o s, e)
<1>1. PICK r : Sums(r, s, e) /\ v = r[Len(s)]  BY DEF Sized
<1> DEFINE m == Len(s)
           w == <<k>> \o s
           d == e[k].size + Overhead
           q == [n \in 0 .. m + 1 |-> IF n = 0 THEN 0 ELSE r[n - 1] + d]
<1>3. Len(w) = m + 1 /\ w[1] = k /\ \A i \in 1 .. m + 1 : i # 1 => w[i] = s[i - 1]
  BY SMT
<1>4. \A n \in 1 .. m : e[s[n]].size \in Nat  BY DEF Elems
<1>5. m \in Nat /\ d \in Int /\ Overhead \in Int /\ e[k].size \in Int
  BY SMT, CacheAssumption
<1>6. /\ r \in [0 .. m -> Int] /\ r[0] = 0
      /\ \A n \in 1 .. m : r[n] = r[n - 1] + Overhead + e[s[n]].size
  BY <1>1 DEF Sums
<1>7. d = e[k].size + Overhead  BY SMT
<1> HIDE DEF m, d, w
<1>8. q \in [0 .. m + 1 -> Int] /\ q[0] = 0  BY SMT, <1>5, <1>6
<1>9. ASSUME NEW n \in 1 .. m + 1 PROVE q[n] = q[n - 1] + Overhead + e[w[n]].size
  <2>0. n \in 0 .. m + 1 /\ n - 1 \in 0 .. m + 1 /\ n # 0 /\ n - 1 \in 0 .. m  BY SMT, <1>5
  <2>1. CASE n = 1
    <3>1. q[n] = r[0] + d /\ q[n - 1] = 0  BY SMT, <1>5, <2>0, <2>1
    <3>2. w[n] = k  BY <1>3, <2>1
    <3> HIDE DEF q
    <3> QED  BY SMT, <1>5, <1>6, <1>7, <3>1, <3>2
  <2>2. CASE n # 1
    <3>0. n - 1 \in 1 .. m /\ n - 1 # 0 /\ (n - 1) - 1 \in 0 .. m  BY SMT, <1>5, <2>0, <2>2
    <3>1. q[n] = r[n - 1] + d /\ q[n - 1] = r[(n - 1) - 1] + d  BY SMT, <1>5, <2>0, <3>0
    <3>2. w[n] = s[n - 1]  BY <1>3, <2>2
    <3>3. r[n - 1] = r[(n - 1) - 1] + Overhead + e[w[n]].size /\ r[(n - 1) - 1] \in Int
      BY <1>6, <3>0, <3>2
    <3>4. e[w[n]].size \in Int
      <4>1. e[w[n]].size \in Nat  BY <1>4, <3>0, <3>2
      <4> QED  BY SMT, <4>1
    <3> DEFINE x == e[w[n]].size
               y == r[(n - 1) - 1]
    <3> HIDE DEF q, x, y
    <3> QED  BY SMT, <1>5, <3>1, <3>3, <3>4 DEF x, y
  <2> QED  BY <2>1, <2>2
<1>10. q[m + 1] = r[m] + d /\ r[m] \in Int
  <2>1. (m + 1) - 1 = m /\ m + 1 # 0 /\ m + 1 \in 0 .. m + 1 /\ m \in 0 .. m  BY SMT, <1>5
  <2> QED  BY <1>6, <2>1
<1> HIDE DEF q
<1>12. Sums(q, w, e)  BY <1>3, <1>8, <1>9 DEF Sums
<1>13. v + e[k].size + Overhead = q[Len(w)]
  <2>1. v = r[m] /\ q[Len(w)] = q[m + 1]  BY <1>1, <1>3 DEF m
  <2> QED  BY SMT, <1>5, <1>7, <1>10, <2>1
<1> QED  BY <1>12, <1>13 DEF Sized, w

(* The running sums are natural numbers.                                   *)
LEMMA SizedNat ==
    ASSUME NEW E, NEW s \in Seq(E), NEW e, NEW v, Sized(v, s, e),
           \A j \in Elems(s) : e[j].size \in Nat
    PROVE  v \in Nat
<1>1. PICK r : Sums(r, s, e) /\ v = r[Len(s)]  BY DEF Sized
<1> DEFINE m == Len(s)
           X == [n \in 0 .. m |-> Nat]
<1>2. m \in Nat /\ Overhead \in Nat /\ m \in 0 .. m  BY SMT, CacheAssumption
<1>4. \A n \in 1 .. m : e[s[n]].size \in Nat  BY DEF Elems
<1>6. r[0] = 0 /\ \A n \in 1 .. m : r[n] = r[n - 1] + Overhead + e[s[n]].size
  BY <1>1 DEF Sums
<1> HIDE DEF m
<1>7. Initial(0 .. m)  BY <1>2, RangeInitial
<1>8. \A n \in 0 .. m : X[n] = Nat  OBVIOUS
<1>9. ASSUME NEW n \in 0 .. m, n # 0, r[n - 1] \in X[n - 1] PROVE r[n] \in X[n]
  <2>1. n - 1 \in 0 .. m /\ n \in 1 .. m  BY SMT, <1>2, <1>9
  <2>2. r[n - 1] \in Nat /\ e[s[n]].size \in Nat
        /\ r[n] = r[n - 1] + Overhead + e[s[n]].size
    BY <1>4, <1>6, <1>8, <1>9, <2>1
  <2>3. r[n] \in Nat  BY SMT, <1>2, <2>2
  <2> QED  BY <1>8, <2>3
<1>10. r[0] \in X[0]
  <2>1. 0 \in 0 .. m /\ 0 \in Nat  BY SMT, <1>2
  <2> QED  BY <1>6, <1>8, <2>1
<1> HIDE DEF X
<1>11. \A n \in 0 .. m : r[n] \in X[n]  BY <1>7, <1>9, <1>10, LoopKeeps
<1> QED  BY <1>1, <1>2, <1>8, <1>11 DEF m

(* They end in what Total computes.                                        *)
LEMMA SizedTotal ==
    ASSUME NEW c, c.lru \in Seq(Keys), Sized(c.currentSize, c.lru, c.entry)
    PROVE  c.currentSize = Total(c)
<1> DEFINE m == Len(c.lru)
<1>1. PICK r : Sums(r, c.lru, c.entry) /\ c.currentSize = r[m]  BY DEF Sized
<1> DEFINE D == 0 .. m
           Is(t) == t = [n \in D |-> IF n = 0 THEN 0
                                     ELSE t[n - 1] + Overhead + c.entry[c.lru[n]].size]
           t == CHOOSE t : Is(t)
           X == [n \in D |-> {r[n]}]
<1>2. Total(c) = t[m]  BY DEF Total
<1>3. m \in Nat /\ m \in 0 .. m  BY SMT
<1>4. r \in [D -> Int] /\ r[0] = 0
      /\ \A n \in 1 .. m : r[n] = r[n - 1] + Overhead + c.entry[c.lru[n]].size
  BY <1>1 DEF Sums
<1> HIDE DEF m
<1>5. Initial(D)  BY <1>3, RangeInitial
<1>6. Is(r)
  <2>1. r = [n \in D |-> r[n]]  BY <1>4
  <2>2. ASSUME NEW n \in D
        PROVE  r[n] = IF n = 0 THEN 0 ELSE r[n - 1] + Overhead + c.entry[c.lru[n]].size
    <3>1. n = 0 \/ n \in 1 .. m  BY SMT, <1>3
    <3>2. CASE n = 0  BY <1>4, <3>2
    <3>3. CASE n # 0  BY <1>4, <3>1, <3>3
    <3> QED  BY <3>2, <3>3
  <2> QED  BY <2>1, <2>2
<1>7. Is(t)  BY <1>6
<1>8. \A n \in D : t[n] = IF n = 0 THEN 0 ELSE t[n - 1] + Overhead + c.entry[c.lru[n]].size
  BY <1>7
<1>9. \A n \in D : X[n] = {r[n]}  OBVIOUS
<1> HIDE DEF t, X, Is
<1>10. 0 \in D /\ \A n \in D : n # 0 => n - 1 \in D /\ n \in 1 .. m
  <2>1. 0 \in D /\ \A n \in D : n # 0 => n - 1 \in D  BY <1>5 DEF Initial
  <2>2. \A n \in D : n # 0 => n \in 1 .. m  BY SMT, <1>3
  <2> QED  BY <2>1, <2>2
<1> HIDE DEF D
<1>11. t[0] \in X[0]
  <2>1. t[0] = 0 /\ X[0] = {r[0]}  BY <1>8, <1>9, <1>10
  <2> QED  BY <1>4, <2>1
<1>12. ASSUME NEW n \in D, n # 0, t[n - 1] \in X[n - 1] PROVE t[n] \in X[n]
  <2>1. n - 1 \in D /\ n \in 1 .. m  BY <1>10, <1>12
  <2>2. t[n - 1] = r[n - 1]  BY <1>9, <1>12, <2>1
  <2>3. t[n] = t[n - 1] + Overhead + c.entry[c.lru[n]].size  BY <1>8, <1>12
  <2>4. r[n] = r[n - 1] + Overhead + c.entry[c.lru[n]].size  BY <1>4, <2>1
  <2>5. t[n] = r[n]  BY <2>2, <2>3, <2>4
  <2> QED  BY <1>9, <2>5
<1>13. \A n \in D : t[n] \in X[n]  BY <1>5, <1>11, <1>12, LoopKeeps
<1>14. m \in D  BY <1>3 DEF D
<1>15. t[m] = r[m]  BY <1>9, <1>13, <1>14
<1> QED  BY <1>1, <1>2, <1>15 DEF m

-----------------------------------------------------------------------------
(* What the functions of cache.c do to a cache.                            *)
EntryRecord ==
    [value : Threads \union {NULL}, uncommitted : Threads \union {NULL}, epoch : 0 .. MaxEpoch,
     size : Sizes \union {0}, expires : BOOLEAN, pending : BOOLEAN,
     owner : Threads \union {NULL, Nobody}]

EntryType == {e \in EntryRecord : e.value = NULL /\ e.uncommitted = NULL => e.size = 0}

CacheType == [lru : Seq(Keys), entry : [Keys -> EntryType], currentSize : Int, maxSize : MaxSizes]

IsCache(c) ==
    /\ c \in CacheType /\ NoRepeat(c.lru) /\ Sized(c.currentSize, c.lru, c.entry)
    /\ \A k \in Keys \ Elems(c.lru) : c.entry[k] = Newborn

Made(l, f, v, m) == [lru |-> l, entry |-> f, currentSize |-> v, maxSize |-> m]

(* The cache d, made of c, has the entries K, which are f.                 *)
Becomes(c, d, K, f) ==
    IsCache(d) /\ Elems(d.lru) = K /\ d.entry = f /\ d.maxSize = c.maxSize

LEMMA NewbornType ==
    /\ Newborn \in EntryType /\ Newborn.value = NULL /\ Newborn.uncommitted = NULL
    /\ Newborn.size = 0 /\ Newborn.epoch = 0 /\ ~Newborn.pending /\ ~Newborn.expires
BY SMT, CacheAssumption DEF Newborn, EntryType, EntryRecord

LEMMA SizeType == \A e \in EntryType : e.size \in Nat
<1>1. \A e \in EntryType : e.size \in Sizes \union {0}  BY SMT DEF EntryType, EntryRecord
<1>2. Sizes \union {0} \subseteq Nat  BY SMT, CacheAssumption
<1> QED  BY <1>1, <1>2

LEMMA CacheParts ==
    ASSUME NEW c, IsCache(c)
    PROVE  /\ c = Made(c.lru, c.entry, c.currentSize, c.maxSize)
           /\ c.lru \in Seq(Keys) /\ c.entry \in [Keys -> EntryType] /\ c.currentSize \in Int
           /\ c.maxSize \in MaxSizes /\ Elems(c.lru) \subseteq Keys
           /\ \A k \in Keys : c.entry[k] \in EntryType
           /\ \A k : Exists(c, k) <=> k \in Elems(c.lru)
<1>1. c \in CacheType  BY DEF IsCache
<1>2. c = Made(c.lru, c.entry, c.currentSize, c.maxSize)  BY SMT, <1>1 DEF CacheType, Made
<1>3. c.lru \in Seq(Keys) /\ c.entry \in [Keys -> EntryType] /\ c.currentSize \in Int
      /\ c.maxSize \in MaxSizes
  BY SMT, <1>1 DEF CacheType
<1>4. \A k \in Keys : c.entry[k] \in EntryType  BY <1>3
<1>5. \A k : Exists(c, k) <=> k \in Elems(c.lru)
  BY <1>3, RangeElems DEF Exists
<1>6. Elems(c.lru) \subseteq Keys
  <2> DEFINE s == c.lru
  <2>1. s \in Seq(Keys)  BY <1>3
  <2> HIDE DEF s
  <2>2. \A i \in 1 .. Len(s) : s[i] \in Keys  BY SMT, <2>1
  <2> QED  BY <2>2 DEF Elems, s
<1> QED  BY <1>2, <1>3, <1>4, <1>5, <1>6

LEMMA MadeParts ==
    ASSUME NEW l \in Seq(Keys), NEW f \in [Keys -> EntryType], NEW v \in Int, NEW m \in MaxSizes
    PROVE  /\ Made(l, f, v, m) \in CacheType
           /\ Made(l, f, v, m).lru = l /\ Made(l, f, v, m).entry = f
           /\ Made(l, f, v, m).currentSize = v /\ Made(l, f, v, m).maxSize = m
BY SMT DEF Made, CacheType

LEMMA MadeCache ==
    ASSUME NEW c, IsCache(c), NEW l \in Seq(Keys), NEW f \in [Keys -> EntryType],
           NEW v \in Int, NoRepeat(l), Sized(v, l, f), \A k \in Keys \ Elems(l) : f[k] = Newborn,
           NEW K, K = Elems(l)
    PROVE  Becomes(c, Made(l, f, v, c.maxSize), K, f)
<1>1. c.maxSize \in MaxSizes  BY CacheParts
<1> DEFINE d == Made(l, f, v, c.maxSize)
<1>2. d \in CacheType /\ d.lru = l /\ d.entry = f /\ d.currentSize = v /\ d.maxSize = c.maxSize
  BY SMT, <1>1, MadeParts
<1> HIDE DEF d
<1> QED  BY <1>2 DEF Becomes, IsCache, d

(* The entry k changes.                                                    *)
LEMMA PutIs ==
    ASSUME NEW c, IsCache(c), NEW k \in Elems(c.lru), NEW e \in EntryType, NEW v,
           v = c.currentSize - c.entry[k].size + e.size
    PROVE  Becomes(c, Made(c.lru, [c.entry EXCEPT ![k] = e], v, c.maxSize), Elems(c.lru),
                   [c.entry EXCEPT ![k] = e])
<1> DEFINE f == [c.entry EXCEPT ![k] = e]
           s == c.lru
           g == c.entry
<1>1. /\ s \in Seq(Keys) /\ g \in [Keys -> EntryType] /\ c.currentSize \in Int
      /\ k \in Keys /\ Elems(s) \subseteq Keys
  BY CacheParts
<1>2. f \in [Keys -> EntryType] /\ f[k] = e /\ \A j \in Keys \ {k} : f[j] = g[j]
  BY <1>1
<1>3. NoRepeat(s) /\ Sized(c.currentSize, s, g) /\ \A j \in Keys \ Elems(s) : g[j] = Newborn
  BY DEF IsCache
<1>4. g[k].size \in Nat /\ e.size \in Nat /\ \A j \in Elems(s) : f[j].size \in Nat
  <2>1. g[k] \in EntryType /\ \A j \in Elems(s) : f[j] \in EntryType  BY <1>1, <1>2
  <2> QED  BY <2>1, SizeType
<1>5. v \in Int  BY SMT, <1>1, <1>4
<1>6. \A j \in Elems(s) \ {k} : f[j] = g[j]  BY <1>1, <1>2
<1>7. \A j \in Keys \ Elems(s) : f[j] = Newborn  BY <1>2, <1>3
<1> HIDE DEF f, s, g
<1>8. Sized(c.currentSize - g[k].size + f[k].size, s, f)
  BY <1>1, <1>3, <1>4, <1>6, SizedChange DEF s
<1>9. v = c.currentSize - g[k].size + f[k].size  BY <1>2 DEF g
<1>10. Sized(v, s, f)  BY <1>8, <1>9
<1>11. Becomes(c, Made(s, f, v, c.maxSize), Elems(s), f)
  BY <1>1, <1>2, <1>3, <1>5, <1>7, <1>10, MadeCache
<1> QED  BY <1>11 DEF f, s, g

Cleared(e) ==
    IF e.value = NULL /\ e.uncommitted = NULL THEN e
    ELSE [e EXCEPT !.value = NULL, !.size = 0, !.expires = FALSE,
                   !.uncommitted = IF e.value # NULL THEN @ ELSE NULL]

LEMMA ClearedParts ==
    ASSUME NEW e \in EntryType
    PROVE  /\ Cleared(e) \in EntryType /\ Cleared(e).value = NULL
           /\ e.uncommitted = NULL \/ e.value = NULL => Cleared(e).uncommitted = NULL
           /\ Cleared(e).size = 0
           /\ ~(e.value = NULL /\ e.uncommitted = NULL) => ~Cleared(e).expires
           /\ Cleared(e).pending = e.pending /\ Cleared(e).epoch = e.epoch
           /\ e.value = NULL /\ e.uncommitted = NULL => Cleared(e) = e
BY CacheAssumption DEF Cleared, EntryType, EntryRecord

LEMMA UnsetIs ==
    ASSUME NEW c, IsCache(c), NEW k \in Elems(c.lru)
    PROVE  /\ Becomes(c, Ns_CacheUnsetValue(c, k), Elems(c.lru),
                      [c.entry EXCEPT ![k] = Cleared(c.entry[k])])
           /\ Ns_CacheUnsetValue(c, k).lru = c.lru
<1> DEFINE s == c.lru
           g == c.entry
           v == c.currentSize
           m == c.maxSize
           e == g[k]
           f == [g EXCEPT ![k] = Cleared(e)]
<1>1. /\ c = Made(s, g, v, m) /\ s \in Seq(Keys) /\ g \in [Keys -> EntryType] /\ v \in Int
      /\ k \in Keys /\ e \in EntryType /\ m \in MaxSizes
  BY CacheParts
<1>2. CASE e.value = NULL /\ e.uncommitted = NULL
  <2>1. Ns_CacheUnsetValue(c, k) = c  BY <1>2 DEF Ns_CacheUnsetValue
  <2>2. f = g
    <3>1. Cleared(e) = e  BY <1>1, <1>2, ClearedParts
    <3> QED  BY <1>1, <3>1
  <2> HIDE DEF f, s, g, m
  <2>3. Becomes(c, c, Elems(s), f)  BY <2>2 DEF Becomes, s, g
  <2> QED  BY <2>1, <2>3 DEF f, e, s, g
<1>3. CASE ~(e.value = NULL /\ e.uncommitted = NULL)
  <2>1. Cleared(e) \in EntryType /\ Cleared(e).size = 0
    BY <1>1, <1>3, ClearedParts
  <2> DEFINE w == v - e.size
  <2>2. w = v - e.size + Cleared(e).size
    <3>1. e.size \in Nat  BY <1>1, SizeType
    <3> HIDE DEF e, v
    <3> QED  BY SMT, <1>1, <2>1, <3>1
  <2>3. Becomes(c, Made(s, f, w, m), Elems(s), f)  BY <2>1, <2>2, PutIs
  <2>4. Ns_CacheUnsetValue(c, k) =
          [c EXCEPT !.currentSize = w, !.entry[k] = Cleared(e)]
    BY <1>3 DEF Ns_CacheUnsetValue, Cleared
  <2> HIDE DEF s, g, v, m, e, w
  <2>5. [Made(s, g, v, m) EXCEPT !.currentSize = w, !.entry[k] = Cleared(e)] = Made(s, f, w, m)
    <3>1. [Made(s, g, v, m) EXCEPT !.entry[k] = Cleared(e)] = Made(s, f, v, m)
      BY SMT DEF Made
    <3> HIDE DEF f
    <3>2. [Made(s, f, v, m) EXCEPT !.currentSize = w] = Made(s, f, w, m)  BY SMT DEF Made
    <3> QED  BY <3>1, <3>2 DEF Made, f
  <2>6. Ns_CacheUnsetValue(c, k) = Made(s, f, w, m)  BY <1>1, <2>4, <2>5
  <2>7. Made(s, f, w, m).lru = s  BY SMT DEF Made
  <2> QED  BY <2>3, <2>6, <2>7 DEF f, s, g, e
<1> QED  BY <1>2, <1>3

LEMMA TouchIs ==
    ASSUME NEW c, IsCache(c), NEW k \in Elems(c.lru)
    PROVE  Becomes(c, Touch(c, k), Elems(c.lru), c.entry)
<1> DEFINE s == c.lru
           g == c.entry
           v == c.currentSize
           m == c.maxSize
           w == Without(s, k)
           r == <<k>> \o w
<1>1. /\ c = Made(s, g, v, m) /\ s \in Seq(Keys) /\ g \in [Keys -> EntryType] /\ v \in Int
      /\ k \in Keys /\ \A j \in Keys : g[j].size \in Nat
  BY CacheParts, SizeType
<1>2. /\ NoRepeat(s) /\ Sized(v, s, g) /\ Elems(s) \subseteq Keys
      /\ \A j \in Keys \ Elems(s) : g[j] = Newborn
  BY CacheParts DEF IsCache
<1>3. Touch(c, k) = Made(r, g, v, m)
  <2>1. Touch(c, k) = [c EXCEPT !.lru = r]  BY DEF Touch
  <2> HIDE DEF s, g, v, m, r
  <2>2. [Made(s, g, v, m) EXCEPT !.lru = r] = Made(r, g, v, m)  BY SMT DEF Made
  <2> QED  BY <1>1, <2>1, <2>2
<1> HIDE DEF s, g, v, m, w
<1>4. w \in Seq(Keys) /\ NoRepeat(w) /\ Elems(w) = Elems(s) \ {k}
  <2>1. k \in Elems(s)  BY DEF s
  <2>2. /\ Without(s, k) \in Seq(Keys) /\ NoRepeat(Without(s, k))
        /\ Elems(Without(s, k)) = Elems(s) \ {k}
    BY <1>1, <1>2, <2>1, WithoutKey
  <2> QED  BY <2>2 DEF w
<1>5. Sized(v - g[k].size - Overhead, w, g)
  <2>1. \A j \in Elems(s) : g[j].size \in Nat  BY <1>1, <1>2
  <2> QED  BY <1>1, <1>2, <2>1, SizedRemove DEF w, s
<1>6. Sized((v - g[k].size - Overhead) + g[k].size + Overhead, r, g)
  <2>1. \A j \in Elems(w) : g[j].size \in Nat  BY <1>1, <1>2, <1>4
  <2> QED  BY <1>1, <1>4, <1>5, <2>1, SizedPush
<1>7. (v - g[k].size - Overhead) + g[k].size + Overhead = v
  <2>1. g[k].size \in Nat /\ Overhead \in Nat  BY SMT, <1>1, CacheAssumption
  <2> QED  BY SMT, <1>1, <2>1
<1>8. r \in Seq(Keys) /\ NoRepeat(r) /\ Elems(r) = Elems(w) \union {k}
  <2>1. k \notin Elems(w)  BY <1>4
  <2>2. k \in Keys /\ w \in Seq(Keys) /\ NoRepeat(w)  BY <1>1, <1>4
  <2> QED  BY SMT, <2>1, <2>2, ListCons
<1>9. Elems(r) = Elems(s)  BY <1>4, <1>8 DEF s
<1>10. Sized(v, r, g)  BY <1>6, <1>7
<1>11. \A j \in Keys \ Elems(r) : g[j] = Newborn  BY <1>2, <1>9
<1> HIDE DEF r
<1>12. Becomes(c, Made(r, g, v, c.maxSize), Elems(s), g)
  BY <1>1, <1>8, <1>9, <1>10, <1>11, MadeCache
<1> QED  BY <1>3, <1>12 DEF s, g, m

LEMMA PushIs ==
    ASSUME NEW c, IsCache(c), NEW k \in Keys, k \notin Elems(c.lru)
    PROVE  Becomes(c, Touch([c EXCEPT !.currentSize = @ + Overhead], k),
                   Elems(c.lru) \union {k}, c.entry)
<1> DEFINE s == c.lru
           g == c.entry
           v == c.currentSize
           m == c.maxSize
           r == <<k>> \o s
<1>1. /\ c = Made(s, g, v, m) /\ s \in Seq(Keys) /\ g \in [Keys -> EntryType] /\ v \in Int
      /\ \A j \in Keys : g[j].size \in Nat
  BY CacheParts, SizeType
<1>2. /\ NoRepeat(s) /\ Sized(v, s, g) /\ Elems(s) \subseteq Keys
      /\ \A j \in Keys \ Elems(s) : g[j] = Newborn
  BY CacheParts DEF IsCache
<1>3. Without(s, k) = s  BY <1>1, RangeElems DEF Without
<1>4. Touch([c EXCEPT !.currentSize = @ + Overhead], k) = Made(r, g, v + Overhead, m)
  <2> HIDE DEF s, g, v, m
  <2>1. [Made(s, g, v, m) EXCEPT !.currentSize = @ + Overhead] = Made(s, g, v + Overhead, m)
    BY SMT DEF Made
  <2>2. Touch(Made(s, g, v + Overhead, m), k) = Made(<<k>> \o Without(s, k), g, v + Overhead, m)
    <3> DEFINE x == v + Overhead
               d == Made(s, g, x, m)
               l == <<k>> \o Without(s, k)
    <3> HIDE DEF x
    <3>1. d.lru = s  BY SMT DEF Made
    <3>2. Touch(d, k) = [d EXCEPT !.lru = <<k>> \o Without(d.lru, k)]  BY DEF Touch
    <3>3. Touch(d, k) = [d EXCEPT !.lru = l]  BY <3>1, <3>2
    <3> HIDE DEF l
    <3>4. [d EXCEPT !.lru = l] = Made(l, g, x, m)  BY SMT DEF Made
    <3> QED  BY <3>3, <3>4 DEF l, x
  <2> QED  BY <1>1, <1>3, <2>1, <2>2
<1>5. g[k].size = 0  BY <1>2, NewbornType
<1>6. Sized(v + g[k].size + Overhead, r, g)
  <2>1. \A j \in Elems(s) : g[j].size \in Nat  BY <1>1, <1>2
  <2> HIDE DEF s, g, v
  <2> QED  BY <1>1, <1>2, <2>1, SizedPush
<1>7. v + g[k].size + Overhead = v + Overhead /\ v + Overhead \in Int
  <2> HIDE DEF v, g
  <2> QED  BY SMT, <1>1, <1>5, CacheAssumption
<1>8. r \in Seq(Keys) /\ NoRepeat(r) /\ Elems(r) = Elems(s) \union {k}
  <2> HIDE DEF s
  <2> QED  BY SMT, <1>1, <1>2, ListCons DEF s
<1> HIDE DEF r, g, v
<1>9. Sized(v + Overhead, r, g)  BY <1>6, <1>7
<1>10. \A j \in Keys \ Elems(r) : g[j] = Newborn  BY <1>2, <1>8
<1>11. Becomes(c, Made(r, g, v + Overhead, c.maxSize), Elems(s) \union {k}, g)
  <2> DEFINE K == Elems(s) \union {k}
             x == v + Overhead
  <2>1. K = Elems(r) /\ x \in Int /\ Sized(x, r, g)  BY <1>7, <1>8, <1>9
  <2> HIDE DEF K, x
  <2>2. Becomes(c, Made(r, g, x, c.maxSize), K, g)
    BY <1>1, <1>8, <1>10, <2>1, MadeCache
  <2> QED  BY <2>2 DEF K, x
<1> QED  BY <1>4, <1>11 DEF g

LEMMA DeleteIs ==
    ASSUME NEW c, IsCache(c), NEW k \in Elems(c.lru)
    PROVE  Becomes(c, Ns_CacheDeleteEntry(c, k), Elems(c.lru) \ {k},
                   [c.entry EXCEPT ![k] = Newborn])
<1> DEFINE u == Ns_CacheUnsetValue(c, k)
           g == c.entry
           s == c.lru
           f == [g EXCEPT ![k] = Cleared(g[k])]
           h == [g EXCEPT ![k] = Newborn]
           v == u.currentSize
           w == Without(s, k)
<1>1. /\ IsCache(u) /\ u.lru = s /\ u.entry = f /\ u.maxSize = c.maxSize
  BY UnsetIs DEF Becomes
<1>2. /\ s \in Seq(Keys) /\ g \in [Keys -> EntryType] /\ k \in Keys /\ g[k] \in EntryType
      /\ Elems(s) \subseteq Keys
  BY CacheParts
<1>3. /\ NoRepeat(s) /\ \A j \in Keys \ Elems(s) : g[j] = Newborn
  BY DEF IsCache
<1>4. f[k] = Cleared(g[k]) /\ h[k] = Newborn /\ \A j \in Keys \ {k} : h[j] = f[j] /\ h[j] = g[j]
  BY <1>2
<1>5. h \in [Keys -> EntryType]  BY <1>2, NewbornType
<1>6. [f EXCEPT ![k] = Newborn] = h  BY SMT, <1>2
<1> HIDE DEF u, f, h
<1>7. Ns_CacheDeleteEntry(c, k) = Made(w, h, v - Overhead, c.maxSize)
  <2>1. u = Made(s, f, v, c.maxSize)  BY <1>1, CacheParts
  <2>2. Ns_CacheDeleteEntry(c, k) =
          [u EXCEPT !.currentSize = @ - Overhead, !.lru = Without(@, k), !.entry[k] = Newborn]
    BY DEF Ns_CacheDeleteEntry, u
  <2> DEFINE m == c.maxSize
             y == f
  <2> HIDE DEF s, v, w, y, m
  <2>3. [Made(s, y, v, m) EXCEPT !.currentSize = @ - Overhead] = Made(s, y, v - Overhead, m)
    BY SMT DEF Made
  <2> DEFINE x == v - Overhead
  <2> HIDE DEF x
  <2>4. [Made(s, y, x, m) EXCEPT !.lru = Without(@, k)] = Made(w, y, x, m)
    BY SMT DEF Made, w
  <2>5. [Made(w, y, x, m) EXCEPT !.entry[k] = Newborn] = Made(w, [y EXCEPT ![k] = Newborn], x, m)
    BY SMT DEF Made
  <2>6. Ns_CacheDeleteEntry(c, k) = Made(w, [y EXCEPT ![k] = Newborn], x, m)
    BY <2>1, <2>2, <2>3, <2>4, <2>5 DEF Made, m, x, y, w
  <2> QED  BY <1>6, <2>6 DEF x, m, y
<1>8. v \in Int /\ Sized(v, s, f) /\ \A j \in Elems(s) : f[j].size \in Nat
  <2>1. v \in Int /\ \A j \in Keys : f[j] \in EntryType  BY <1>1, CacheParts
  <2>2. Sized(v, s, f)  BY <1>1 DEF IsCache
  <2> QED  BY <1>2, <2>1, <2>2, SizeType
<1>9. w \in Seq(Keys) /\ NoRepeat(w) /\ Elems(w) = Elems(s) \ {k}
  BY <1>2, <1>3, WithoutKey
<1> HIDE DEF g, s, v, w
<1>10. Sized(v - f[k].size - Overhead, w, f)
  <2>1. k \in Elems(s)  BY DEF s
  <2>2. Sized(v - f[k].size - Overhead, Without(s, k), f)
    BY <1>2, <1>3, <1>8, <2>1, SizedRemove
  <2> QED  BY <2>2 DEF w
<1>11. v - f[k].size - Overhead = v - Overhead /\ v - Overhead \in Int
  <2>1. f[k].size = 0  BY <1>2, <1>4, ClearedParts
  <2> QED  BY SMT, <1>8, <2>1, CacheAssumption
<1>12. Sized(v - Overhead, w, h)
  <2>1. \A j \in Elems(w) : h[j] = f[j]  BY <1>2, <1>4, <1>9
  <2>2. Sized(v - Overhead, w, f)  BY <1>10, <1>11
  <2> QED  BY <2>1, <2>2, SizedSame
<1>13. \A j \in Keys \ Elems(w) : h[j] = Newborn
  <2> SUFFICES ASSUME NEW j \in Keys, j \notin Elems(w) PROVE h[j] = Newborn
    OBVIOUS
  <2>1. CASE j = k  BY <1>4, <2>1
  <2>2. CASE j # k  BY <1>3, <1>4, <1>9, <2>2
  <2> QED  BY <2>1, <2>2
<1>14. Becomes(c, Made(w, h, v - Overhead, c.maxSize), Elems(w), h)
  BY <1>5, <1>9, <1>11, <1>12, <1>13, MadeCache
<1>15. Becomes(c, Ns_CacheDeleteEntry(c, k), Elems(w), h)  BY <1>7, <1>14
<1> QED  BY <1>9, <1>15 DEF s, g, h

LEMMA BecomesAgain ==
    ASSUME NEW c, NEW d, NEW b, NEW K, NEW L, NEW f, NEW g, Becomes(c, d, K, f),
           Becomes(d, b, L, g)
    PROVE  Becomes(c, b, L, g)
BY DEF Becomes

(* The entry that Ns_CacheCreateEntry finds or creates.                    *)
Fresh(e, x) == IF x THEN Cleared(e) ELSE e

LEMMA CreateIs ==
    ASSUME NEW c, IsCache(c), NEW k \in Keys, NEW x \in BOOLEAN, x => k \in Elems(c.lru)
    PROVE  Becomes(c, Ns_CacheCreateEntry(c, k, x), Elems(c.lru) \union {k},
                   [c.entry EXCEPT ![k] = Fresh(@, x)])
<1> DEFINE K == Elems(c.lru) \union {k}
           f == [c.entry EXCEPT ![k] = Fresh(@, x)]
           u == Ns_CacheUnsetValue(c, k)
<1>1. c.entry \in [Keys -> EntryType] /\ (Exists(c, k) <=> k \in Elems(c.lru))
  BY CacheParts
<1>2. ~x => f = c.entry  BY <1>1 DEF Fresh
<1>3. x => f = [c.entry EXCEPT ![k] = Cleared(c.entry[k])]  BY DEF Fresh
<1>4. k \in Elems(c.lru) => K = Elems(c.lru)  OBVIOUS
<1> HIDE DEF K, f, u
<1>5. CASE k \notin Elems(c.lru)
  <2>1. Becomes(c, Touch([c EXCEPT !.currentSize = @ + Overhead], k), K, c.entry)
    BY <1>5, PushIs DEF K
  <2>2. f = c.entry  BY <1>2, <1>5
  <2>3. Becomes(c, Ns_CacheCreateEntry(c, k, x), K, f)
    BY <1>1, <1>5, <2>1, <2>2 DEF Ns_CacheCreateEntry
  <2> QED  BY <2>3 DEF K, f
<1>6. CASE k \in Elems(c.lru) /\ ~x
  <2>1. Becomes(c, Touch(c, k), Elems(c.lru), c.entry)  BY <1>6, TouchIs
  <2>2. Becomes(c, Ns_CacheCreateEntry(c, k, x), K, f)
    BY <1>1, <1>2, <1>4, <1>6, <2>1 DEF Ns_CacheCreateEntry
  <2> QED  BY <2>2 DEF K, f
<1>7. CASE k \in Elems(c.lru) /\ x
  <2>1. Becomes(c, u, K, f) /\ u.lru = c.lru  BY <1>3, <1>4, <1>7, UnsetIs DEF u
  <2>2. IsCache(u) /\ k \in Elems(u.lru) /\ Elems(u.lru) = K /\ u.entry = f
    BY <1>7, <2>1 DEF Becomes
  <2>3. Becomes(u, Touch(u, k), K, f)  BY <2>2, TouchIs
  <2>4. Becomes(c, Touch(u, k), K, f)  BY <2>1, <2>3, BecomesAgain
  <2>5. Becomes(c, Ns_CacheCreateEntry(c, k, x), K, f)
    BY <1>1, <1>7, <2>4 DEF Ns_CacheCreateEntry, u
  <2> QED  BY <2>5 DEF K, f
<1> QED  BY <1>5, <1>6, <1>7

(* The cache d is c without some of the entries P.                         *)
Drops(c, d, P) ==
    /\ IsCache(d) /\ d.maxSize = c.maxSize /\ Elems(d.lru) \subseteq Elems(c.lru)
    /\ \A j \in Keys :
         \/ (j \in Elems(c.lru) => j \in Elems(d.lru)) /\ d.entry[j] = c.entry[j]
         \/ j \in P /\ j \in Elems(c.lru) /\ j \notin Elems(d.lru) /\ d.entry[j] = Newborn

LEMMA DropsNone == ASSUME NEW c, IsCache(c), NEW P PROVE Drops(c, c, P)
BY DEF Drops

LEMMA DropsMore ==
    ASSUME NEW c, NEW d, NEW P, Drops(c, d, P), NEW k \in Elems(d.lru), k \in P
    PROVE  Drops(c, Ns_CacheDeleteEntry(d, k), P)
<1> DEFINE b == Ns_CacheDeleteEntry(d, k)
<1>1. IsCache(d) /\ d.maxSize = c.maxSize /\ Elems(d.lru) \subseteq Elems(c.lru)
  BY DEF Drops
<1>2. d.entry \in [Keys -> EntryType] /\ Elems(d.lru) \subseteq Keys
  BY <1>1, CacheParts
<1>3. Becomes(d, b, Elems(d.lru) \ {k}, [d.entry EXCEPT ![k] = Newborn])
  BY <1>1, DeleteIs
<1> HIDE DEF b
<1>4. /\ IsCache(b) /\ Elems(b.lru) = Elems(d.lru) \ {k} /\ b.maxSize = d.maxSize
      /\ b.entry = [d.entry EXCEPT ![k] = Newborn]
  BY <1>3 DEF Becomes
<1>5. b.entry[k] = Newborn /\ \A j \in Keys : j # k => b.entry[j] = d.entry[j]
  BY <1>2, <1>4
<1>6. ASSUME NEW j \in Keys
      PROVE  \/ (j \in Elems(c.lru) => j \in Elems(b.lru)) /\ b.entry[j] = c.entry[j]
             \/ j \in P /\ j \in Elems(c.lru) /\ j \notin Elems(b.lru) /\ b.entry[j] = Newborn
  <2>1. CASE j = k  BY <1>1, <1>4, <1>5, <2>1
  <2>2. CASE j # k
    <3>1. b.entry[j] = d.entry[j] /\ (j \in Elems(b.lru) <=> j \in Elems(d.lru))
      BY <1>4, <1>5, <2>2
    <3> QED  BY <3>1 DEF Drops
  <2> QED  BY <2>1, <2>2
<1>7. Elems(b.lru) \subseteq Elems(c.lru) /\ b.maxSize = c.maxSize  BY <1>1, <1>4
<1>8. Drops(c, b, P)  BY <1>4, <1>6, <1>7 DEF Drops
<1> QED  BY <1>8 DEF b

(* Prune.                                                                  *)
Valued(c, k) == {j \in Keys : j # k /\ c.entry[j].value # NULL}

LEMMA EvictKeeps ==
    ASSUME NEW c, NEW k \in Elems(c.lru), Elems(c.lru) \subseteq Keys, NEW d,
           Drops(c, d, Valued(c, k))
    PROVE  Drops(c, Evict(d, k), Valued(c, k))
<1> DEFINE j == Last(d.lru)
<1>1. CASE ~(d.currentSize > d.maxSize /\ j # k /\ d.entry[j].value # NULL)
  BY <1>1 DEF Evict
<1>2. CASE d.currentSize > d.maxSize /\ j # k /\ d.entry[j].value # NULL
  <2>1. Evict(d, k) = Ns_CacheDeleteEntry(d, j)  BY <1>2 DEF Evict
  <2>2. k \in Elems(d.lru)  BY DEF Drops, Valued
  <2>3. d.lru \in Seq(Keys) /\ Elems(d.lru) \subseteq Keys  BY CacheParts DEF Drops
  <2>4. j \in Elems(d.lru)
    <3> DEFINE s == d.lru
    <3>1. s \in Seq(Keys) /\ k \in Elems(s)  BY <2>2, <2>3
    <3> HIDE DEF s
    <3>2. s # <<>>  BY <3>1, ListEmpty
    <3>3. Len(s) \in 1 .. Len(s)  BY SMT, <3>1, <3>2
    <3>4. Last(s) \in Elems(s)  BY <3>3 DEF Last, Elems
    <3> QED  BY <3>4 DEF s
  <2> HIDE DEF j
  <2>5. j \in Keys /\ d.entry[j] = c.entry[j]  BY <2>3, <2>4 DEF Drops
  <2>6. j \in Valued(c, k)  BY <1>2, <2>5 DEF Valued
  <2> QED  BY <2>1, <2>4, <2>6, DropsMore
<1> QED  BY <1>1, <1>2

LEMMA PruneIs ==
    ASSUME NEW c, IsCache(c), NEW k \in Elems(c.lru)
    PROVE  Drops(c, Prune(c, k), Valued(c, k))
<1> DEFINE m == Len(c.lru)
           D == 0 .. m
           S == {d \in CacheType : Drops(c, d, Valued(c, k))}
           X == [n \in D |-> S]
           F == [n \in D |-> [d \in S |-> Evict(d, k)]]
           r == CHOOSE r : r = [n \in D |-> IF n = 0 THEN c ELSE Evict(r[n - 1], k)]
<1>1. c \in S  BY DropsNone DEF IsCache
<1>2. \A d \in S : Evict(d, k) \in S
  <2> SUFFICES ASSUME NEW d \in S PROVE Evict(d, k) \in S
    OBVIOUS
  <2>1. Drops(c, Evict(d, k), Valued(c, k))  BY CacheParts, EvictKeeps
  <2> QED  BY <2>1 DEF Drops, IsCache
<1>3. m \in Nat
  <2>1. c.lru \in Seq(Keys)  BY CacheParts
  <2> QED  BY SMT, <2>1
<1>4. Prune(c, k) = r[m]  BY DEF Prune
<1> HIDE DEF S, m
<1>5. Initial(D) /\ m \in D
  <2>1. m \in D  BY SMT, <1>3
  <2> QED  BY <1>3, <2>1, RangeInitial
<1> HIDE DEF D
<1>6. 0 \in D /\ \A n \in D : n # 0 => n - 1 \in D  BY <1>5 DEF Initial
<1>7. c \in X[0] /\ \A n \in D : n # 0 => \A d \in X[n - 1] : F[n][d] \in X[n]
  BY <1>1, <1>2, <1>6
<1>8. PICK g : Computes(g, D, c, F) /\ \A n \in D : g[n] \in X[n]
  <2> HIDE DEF X, F
  <2> QED  BY <1>5, <1>7, LoopIn
<1> DEFINE f == [n \in D |-> g[n]]
<1>9. f = [n \in D |-> IF n = 0 THEN c ELSE Evict(f[n - 1], k)]
  BY <1>6, <1>8 DEF Computes
<1>10. r = [n \in D |-> IF n = 0 THEN c ELSE Evict(r[n - 1], k)]
  <2> HIDE DEF f
  <2> QED  BY <1>9
<1> HIDE DEF r
<1>11. r[0] \in X[0]  BY <1>6, <1>7, <1>10
<1>12. \A n \in D : n # 0 /\ r[n - 1] \in X[n - 1] => r[n] \in X[n]
  BY <1>2, <1>6, <1>10
<1>13. \A n \in D : r[n] \in X[n]
  <2> HIDE DEF X
  <2> QED  BY <1>5, <1>11, <1>12, LoopKeeps
<1>14. Prune(c, k) \in S  BY <1>4, <1>5, <1>13
<1> QED  BY <1>14 DEF S

(* The entry that thread t with the transactions s gives a value.          *)
Stored(e, t, k, n, s) ==
    LET x == [Cleared(e) EXCEPT !.size = n, !.expires = (k \in Expiring), !.owner = NULL] IN
    IF s = <<>> THEN [x EXCEPT !.value = t]
    ELSE [x EXCEPT !.uncommitted = t, !.epoch = Last(s).epoch, !.pending = TRUE]

StackType == Seq([epoch : 1 .. MaxEpoch, wrote : BOOLEAN])

LEMMA LastEpoch ==
    ASSUME NEW s \in StackType, s # <<>>
    PROVE  /\ Len(s) \in 1 .. Len(s) /\ Last(s) = s[Len(s)]
           /\ Last(s).epoch \in 0 .. MaxEpoch /\ Last(s).wrote \in BOOLEAN
<1>1. Len(s) \in 1 .. Len(s)  BY SMT DEF StackType
<1>2. Last(s) = s[Len(s)]  BY DEF Last
<1>3. s[Len(s)] \in [epoch : 1 .. MaxEpoch, wrote : BOOLEAN]
  <2> DEFINE R == [epoch : 1 .. MaxEpoch, wrote : BOOLEAN]
  <2>1. s \in Seq(R)  BY DEF StackType
  <2> HIDE DEF R
  <2>2. s[Len(s)] \in R  BY SMT, <1>1, <2>1
  <2> QED  BY <2>2 DEF R
<1>4. s[Len(s)].epoch \in 1 .. MaxEpoch /\ s[Len(s)].wrote \in BOOLEAN  BY SMT, <1>3
<1>5. MaxEpoch \in Nat  BY SMT, CacheAssumption
<1>6. s[Len(s)].epoch \in 0 .. MaxEpoch  BY SMT, <1>4, <1>5
<1> QED  BY <1>1, <1>2, <1>4, <1>6

StoredAs(y, e, t, k, n, s) ==
    /\ y \in EntryType /\ y.size = n /\ y.owner = NULL /\ (y.expires <=> k \in Expiring)
    /\ s = <<>> => /\ y.value = t /\ y.uncommitted = Cleared(e).uncommitted
                   /\ y.pending = e.pending
    /\ s # <<>> => y.value = NULL /\ y.uncommitted = t /\ y.epoch = Last(s).epoch /\ y.pending

LEMMA StoredParts ==
    ASSUME NEW e \in EntryType, NEW t \in Threads, NEW k \in Keys, NEW n \in Sizes,
           NEW s \in StackType
    PROVE  StoredAs(Stored(e, t, k, n, s), e, t, k, n, s)
<1> DEFINE c == Cleared(e)
           b == (k \in Expiring)
           x == [c EXCEPT !.size = n, !.expires = b, !.owner = NULL]
           p == Last(s).epoch
<1>1. c \in EntryType /\ c.value = NULL /\ c.pending = e.pending  BY ClearedParts
<1>2. c \in EntryRecord  BY <1>1 DEF EntryType
<1>3. b \in BOOLEAN /\ n \in Sizes \union {0} /\ NULL \notin Threads
  BY SMT, CacheAssumption
<1> HIDE DEF c, b, p
<1>4. /\ x \in EntryRecord /\ x.size = n /\ x.expires = b /\ x.owner = NULL /\ x.value = NULL
      /\ x.uncommitted = c.uncommitted /\ x.pending = e.pending
  BY <1>1, <1>2, <1>3 DEF EntryRecord
<1>5. Stored(e, t, k, n, s) = IF s = <<>> THEN [x EXCEPT !.value = t]
                              ELSE [x EXCEPT !.uncommitted = t, !.epoch = p, !.pending = TRUE]
  BY DEF Stored, c, b, p
<1> HIDE DEF x
<1>6. CASE s = <<>>
  <2> DEFINE y == [x EXCEPT !.value = t]
  <2>1. /\ y \in EntryRecord /\ y.value = t /\ y.size = n /\ y.expires = b /\ y.owner = NULL
        /\ y.uncommitted = c.uncommitted /\ y.pending = e.pending
    BY SMT, <1>4 DEF EntryRecord
  <2>2. Stored(e, t, k, n, s) = y  BY <1>5, <1>6
  <2> HIDE DEF y
  <2>3. y \in EntryType  BY <1>3, <2>1 DEF EntryType
  <2> QED  BY <1>6, <2>1, <2>2, <2>3 DEF StoredAs, c, b
<1>7. CASE s # <<>>
  <2> DEFINE y == [x EXCEPT !.uncommitted = t, !.epoch = p, !.pending = TRUE]
  <2>0. p \in 0 .. MaxEpoch  BY <1>7, LastEpoch DEF p
  <2>1. /\ y \in EntryRecord /\ y.value = NULL /\ y.size = n /\ y.expires = b /\ y.owner = NULL
        /\ y.uncommitted = t /\ y.epoch = p /\ y.pending
    BY <1>4, <2>0 DEF EntryRecord
  <2>2. Stored(e, t, k, n, s) = y  BY <1>5, <1>7
  <2> HIDE DEF y
  <2>3. y \in EntryType  BY <1>3, <2>1 DEF EntryType
  <2> QED  BY <1>7, <2>1, <2>2, <2>3 DEF StoredAs, c, b, p
<1> QED  BY <1>6, <1>7

LEMMA SetValueIs ==
    ASSUME NEW c, IsCache(c), NEW k \in Elems(c.lru), NEW t \in Threads, NEW n \in Sizes,
           stack[t] \in StackType
    PROVE  \E b : /\ Becomes(c, b, Elems(c.lru),
                             [c.entry EXCEPT ![k] = Stored(c.entry[k], t, k, n, stack[t])])
                  /\ Drops(b, Ns_CacheSetValueExpires(c, t, k, n), Valued(b, k))
<1> DEFINE d == Ns_CacheUnsetValue(c, k)
           g == c.entry
           f == Stored(g[k], t, k, n, stack[t])
           h == [g EXCEPT ![k] = Cleared(g[k])]
           w == d.currentSize + n
           b == [d EXCEPT !.entry[k] = f, !.currentSize = @ + n]
<1>1. g \in [Keys -> EntryType] /\ k \in Keys /\ g[k] \in EntryType  BY CacheParts
<1>2. Becomes(c, d, Elems(c.lru), h) /\ d.lru = c.lru  BY UnsetIs
<1>3. h[k] = Cleared(g[k]) /\ [h EXCEPT ![k] = f] = [g EXCEPT ![k] = f]  BY SMT, <1>1
<1>4. f \in EntryType /\ f.size = n
  <2>1. StoredAs(f, g[k], t, k, n, stack[t])  BY <1>1, StoredParts
  <2> HIDE DEF f
  <2> QED  BY <2>1 DEF StoredAs
<1>5. Cleared(g[k]).size = 0  BY <1>1, ClearedParts
<1>6. Ns_CacheSetValueExpires(c, t, k, n) = Prune(b, k)
  <2>1. d.entry[k] = Cleared(g[k])  BY <1>2, <1>3 DEF Becomes
  <2> HIDE DEF d, g
  <2> QED  BY <2>1 DEF Ns_CacheSetValueExpires, Stored, d
<1> HIDE DEF d, g, f, h
<1>7. IsCache(d) /\ d.entry = h /\ d.maxSize = c.maxSize  BY <1>2 DEF Becomes
<1>8. d.currentSize \in Int /\ d = Made(c.lru, h, d.currentSize, c.maxSize)
  BY <1>2, <1>7, CacheParts
<1>9. b = Made(c.lru, [h EXCEPT ![k] = f], w, c.maxSize)
  <2> DEFINE v == d.currentSize
             l == c.lru
             m == c.maxSize
  <2>1. d = Made(l, h, v, m)  BY <1>8
  <2>2. b = [d EXCEPT !.entry[k] = f, !.currentSize = @ + n] /\ w = v + n  OBVIOUS
  <2> HIDE DEF v, l, m, b, w
  <2>3. [Made(l, h, v, m) EXCEPT !.entry[k] = f] = Made(l, [h EXCEPT ![k] = f], v, m)
    BY SMT DEF Made
  <2> DEFINE z == [h EXCEPT ![k] = f]
  <2> HIDE DEF z
  <2>4. [Made(l, z, v, m) EXCEPT !.currentSize = @ + n] = Made(l, z, v + n, m)
    BY SMT DEF Made
  <2>5. b = Made(l, z, w, m)  BY <2>1, <2>2, <2>3, <2>4 DEF Made, z
  <2> QED  BY <2>5 DEF l, m, z
<1>10. w = d.currentSize - h[k].size + f.size
  <2>1. h[k].size = 0 /\ f.size = n  BY <1>3, <1>4, <1>5
  <2>2. n \in Nat  BY SMT, CacheAssumption
  <2> QED  BY SMT, <1>8, <2>1, <2>2
<1> HIDE DEF b, w
<1>11. Becomes(d, b, Elems(c.lru), [h EXCEPT ![k] = f])
  BY <1>2, <1>4, <1>7, <1>9, <1>10, PutIs
<1>12. Becomes(c, b, Elems(c.lru), [g EXCEPT ![k] = f])
  BY <1>2, <1>3, <1>11, BecomesAgain
<1>13. IsCache(b) /\ k \in Elems(b.lru)  BY <1>11 DEF Becomes
<1>14. Drops(b, Ns_CacheSetValueExpires(c, t, k, n), Valued(b, k))
  BY <1>6, <1>13, PruneIs
<1> QED  BY <1>12, <1>14 DEF g, f

(* WalkEntries.                                                            *)
Seen(c, t) == {j \in Keys : Ns_CacheGetValueT(c, t, j) # NULL}

LEMMA FlushKeeps ==
    ASSUME NEW c, NEW d, NEW t, NEW P, Drops(c, d, P), NEW k, k \in Seen(c, t) => k \in P
    PROVE  Drops(c, FlushEntry(d, t, k), P)
<1>1. CASE ~(Exists(d, k) /\ Ns_CacheGetValueT(d, t, k) # NULL)
  BY <1>1 DEF FlushEntry
<1>2. CASE Exists(d, k) /\ Ns_CacheGetValueT(d, t, k) # NULL
  <2>1. FlushEntry(d, t, k) = Ns_CacheDeleteEntry(d, k)  BY <1>2 DEF FlushEntry
  <2>2. k \in Elems(d.lru) /\ k \in Keys  BY <1>2, CacheParts DEF Drops
  <2>3. d.entry[k] = c.entry[k]  BY <2>2 DEF Drops
  <2>4. Ns_CacheGetValueT(c, t, k) # NULL  BY <1>2, <2>3 DEF Ns_CacheGetValueT
  <2>5. k \in Seen(c, t)  BY <2>2, <2>4 DEF Seen
  <2> QED  BY <2>1, <2>2, <2>5, DropsMore
<1> QED  BY <1>1, <1>2

LEMMA WalkIs ==
    ASSUME NEW c, IsCache(c), NEW t, NEW ks, NEW P, \A j \in ks : j \in Seen(c, t) => j \in P
    PROVE  Drops(c, WalkEntries(c, t, ks), P)
<1> DEFINE m == Len(c.lru)
           D == 0 .. m
           S == {d \in CacheType : Drops(c, d, P)}
           B(n, d) == IF c.lru[n] \in ks THEN FlushEntry(d, t, c.lru[n]) ELSE d
           X == [n \in D |-> S]
           F == [n \in D |-> [d \in S |-> B(n, d)]]
           r == CHOOSE r : r = [n \in D |-> IF n = 0 THEN c ELSE B(n, r[n - 1])]
<1>1. c \in S  BY DropsNone DEF IsCache
<1>2. \A n : \A d \in S : B(n, d) \in S
  <2> SUFFICES ASSUME NEW n, NEW d \in S PROVE B(n, d) \in S
    OBVIOUS
  <2>1. c.lru[n] \in ks => Drops(c, FlushEntry(d, t, c.lru[n]), P)  BY FlushKeeps
  <2>2. Drops(c, B(n, d), P)  BY <2>1
  <2> QED  BY <2>2 DEF Drops, IsCache
<1>3. m \in Nat
  <2>1. c.lru \in Seq(Keys)  BY CacheParts
  <2> QED  BY SMT, <2>1
<1>4. WalkEntries(c, t, ks) = r[m]  BY DEF WalkEntries
<1> HIDE DEF S, m, B
<1>5. Initial(D) /\ m \in D
  <2>1. m \in D  BY SMT, <1>3
  <2> QED  BY <1>3, <2>1, RangeInitial
<1> HIDE DEF D
<1>6. 0 \in D /\ \A n \in D : n # 0 => n - 1 \in D  BY <1>5 DEF Initial
<1>7. c \in X[0] /\ \A n \in D : n # 0 => \A d \in X[n - 1] : F[n][d] \in X[n]
  BY <1>1, <1>2, <1>6
<1>8. PICK g : Computes(g, D, c, F) /\ \A n \in D : g[n] \in X[n]
  <2> HIDE DEF X, F
  <2> QED  BY <1>5, <1>7, LoopIn
<1> DEFINE f == [n \in D |-> g[n]]
<1>9. f = [n \in D |-> IF n = 0 THEN c ELSE B(n, f[n - 1])]
  BY <1>6, <1>8 DEF Computes
<1>10. r = [n \in D |-> IF n = 0 THEN c ELSE B(n, r[n - 1])]
  <2> HIDE DEF f
  <2> QED  BY <1>9
<1> HIDE DEF r
<1>11. r[0] \in X[0]  BY <1>6, <1>7, <1>10
<1>12. \A n \in D : n # 0 /\ r[n - 1] \in X[n - 1] => r[n] \in X[n]
  BY <1>2, <1>6, <1>10
<1>13. \A n \in D : r[n] \in X[n]
  <2> HIDE DEF X
  <2> QED  BY <1>5, <1>11, <1>12, LoopKeeps
<1>14. WalkEntries(c, t, ks) \in S  BY <1>4, <1>5, <1>13
<1> QED  BY <1>14 DEF S

(* CacheTransaction: the first n entries of c have been visited.           *)
Matches(e, ep) == e.pending /\ e.value = NULL /\ e.epoch = ep

Committed(e) ==
    [e EXCEPT !.value = e.uncommitted, !.uncommitted = NULL, !.epoch = 0, !.pending = FALSE]

Kept(c, d, j) == j \in Elems(d.lru) /\ d.entry[j] = c.entry[j]

Ended(c, d, j, ep, commit) ==
    /\ ~Matches(c.entry[j], ep) => Kept(c, d, j)
    /\ Matches(c.entry[j], ep) /\ commit =>
         j \in Elems(d.lru) /\ d.entry[j] = Committed(c.entry[j])
    /\ Matches(c.entry[j], ep) /\ ~commit => j \notin Elems(d.lru) /\ d.entry[j] = Newborn

Visited(c, d, n, ep, commit) ==
    /\ IsCache(d) /\ d.maxSize = c.maxSize /\ Elems(d.lru) \subseteq Elems(c.lru)
    /\ \A i \in 1 .. Len(c.lru) :
         /\ i <= n => Ended(c, d, c.lru[i], ep, commit)
         /\ ~(i <= n) => Kept(c, d, c.lru[i])

LEMMA CommittedParts ==
    ASSUME NEW e \in EntryType, e.value = NULL
    PROVE  /\ Committed(e) \in EntryType /\ Committed(e).size = e.size
           /\ Committed(e).value = e.uncommitted
           /\ Committed(e).uncommitted = NULL /\ ~Committed(e).pending
           /\ Committed(e).expires = e.expires /\ Committed(e).owner = e.owner
<1> DEFINE y == Committed(e)
<1>1. e \in EntryRecord /\ 0 \in 0 .. MaxEpoch  BY SMT, CacheAssumption DEF EntryType
<1>2. y \in EntryRecord /\ y.size = e.size /\ y.value = e.uncommitted /\ y.uncommitted = NULL
      /\ ~y.pending /\ y.expires = e.expires /\ y.owner = e.owner
  BY <1>1 DEF Committed, EntryRecord
<1> HIDE DEF y
<1> QED  BY <1>2 DEF EntryType, y

LEMMA VisitedMore ==
    ASSUME NEW c, IsCache(c), NEW d, NEW b, NEW n \in 1 .. Len(c.lru), NEW ep, NEW commit,
           Visited(c, d, n - 1, ep, commit), IsCache(b), b.maxSize = d.maxSize,
           Elems(b.lru) \subseteq Elems(d.lru), Ended(c, b, c.lru[n], ep, commit),
           \A j \in Elems(c.lru) : j # c.lru[n] =>
             b.entry[j] = d.entry[j] /\ (j \in Elems(b.lru) <=> j \in Elems(d.lru))
    PROVE  Visited(c, b, n, ep, commit)
<1>1. c.lru \in Seq(Keys) /\ NoRepeat(c.lru)  BY CacheParts DEF IsCache
<1>2. Len(c.lru) \in Nat  BY SMT, <1>1
<1>3. b.maxSize = c.maxSize /\ Elems(b.lru) \subseteq Elems(c.lru)  BY DEF Visited
<1>4. ASSUME NEW i \in 1 .. Len(c.lru)
      PROVE  /\ i <= n => Ended(c, b, c.lru[i], ep, commit)
             /\ ~(i <= n) => Kept(c, b, c.lru[i])
  <2>1. CASE i = n
    <3>1. i <= n  BY SMT, <1>2, <2>1
    <3> QED  BY <2>1, <3>1
  <2>2. CASE i # n
    <3>1. i <= n <=> i <= n - 1  BY SMT, <1>2, <2>2
    <3>2. c.lru[i] # c.lru[n] /\ c.lru[i] \in Elems(c.lru)
      BY <1>1, <2>2 DEF NoRepeat, Elems
    <3>3. /\ b.entry[c.lru[i]] = d.entry[c.lru[i]]
          /\ (c.lru[i] \in Elems(b.lru) <=> c.lru[i] \in Elems(d.lru))
      BY <3>2
    <3>4. /\ i <= n - 1 => Ended(c, d, c.lru[i], ep, commit)
          /\ ~(i <= n - 1) => Kept(c, d, c.lru[i])
      BY DEF Visited
    <3> DEFINE j == c.lru[i]
    <3> HIDE DEF j
    <3>5. Kept(c, d, j) => Kept(c, b, j)  BY <3>3 DEF Kept, j
    <3>6. Ended(c, d, j, ep, commit) => Ended(c, b, j, ep, commit)
      BY <3>3, <3>5 DEF Ended, j
    <3> QED  BY <3>1, <3>4, <3>5, <3>6 DEF j
  <2> QED  BY <2>1, <2>2
<1> QED  BY <1>3, <1>4 DEF Visited

LEMMA FinishKeeps ==
    ASSUME NEW c, IsCache(c), NEW d, NEW n \in 1 .. Len(c.lru), NEW ep, NEW commit \in BOOLEAN,
           Visited(c, d, n - 1, ep, commit)
    PROVE  Visited(c, FinishEntry(d, c.lru[n], ep, commit), n, ep, commit)
<1> DEFINE j == c.lru[n]
           e == d.entry[j]
           b == FinishEntry(d, j, ep, commit)
<1>1. Len(c.lru) \in Nat
  <2>1. c.lru \in Seq(Keys)  BY CacheParts
  <2> QED  BY SMT, <2>1
<1>2. Kept(c, d, j)
  <2>1. ~(n <= n - 1)  BY SMT, <1>1
  <2> QED  BY <2>1 DEF Visited
<1>3. IsCache(d) /\ Elems(c.lru) \subseteq Keys  BY CacheParts DEF Visited
<1>4. j \in Elems(d.lru) /\ e = c.entry[j] /\ j \in Elems(c.lru)
  BY <1>2 DEF Kept, Elems
<1>5. d.entry \in [Keys -> EntryType] /\ j \in Keys /\ e \in EntryType
  BY <1>3, <1>4, CacheParts
<1>6. b = IF ~Matches(e, ep) THEN d
          ELSE IF ~commit THEN Ns_CacheDeleteEntry(d, j)
          ELSE [d EXCEPT !.entry[j] = Committed(e)]
  BY DEF FinishEntry, Matches, Committed
<1> HIDE DEF b, j, e
<1> SUFFICES /\ IsCache(b) /\ b.maxSize = d.maxSize /\ Elems(b.lru) \subseteq Elems(d.lru)
             /\ Ended(c, b, j, ep, commit)
             /\ \A i \in Elems(c.lru) : i # j =>
                  b.entry[i] = d.entry[i] /\ (i \in Elems(b.lru) <=> i \in Elems(d.lru))
  BY VisitedMore DEF b, j
<1>7. CASE ~Matches(e, ep)
  <2>1. b = d  BY <1>6, <1>7
  <2>2. Ended(c, d, j, ep, commit)  BY <1>2, <1>4, <1>7 DEF Ended
  <2> QED  BY <1>3, <2>1, <2>2
<1>8. CASE Matches(e, ep) /\ ~commit
  <2>1. b = Ns_CacheDeleteEntry(d, j)  BY <1>6, <1>8
  <2>2. Becomes(d, b, Elems(d.lru) \ {j}, [d.entry EXCEPT ![j] = Newborn])
    BY <1>3, <1>4, <2>1, DeleteIs
  <2>3. /\ IsCache(b) /\ b.maxSize = d.maxSize /\ Elems(b.lru) = Elems(d.lru) \ {j}
        /\ b.entry = [d.entry EXCEPT ![j] = Newborn]
    BY <2>2 DEF Becomes
  <2>4. b.entry[j] = Newborn /\ \A i \in Keys : i # j => b.entry[i] = d.entry[i]
    BY <1>5, <2>3
  <2>5. Ended(c, b, j, ep, commit)  BY <1>4, <1>8, <2>3, <2>4 DEF Ended
  <2>6. \A i \in Elems(c.lru) : i # j =>
          b.entry[i] = d.entry[i] /\ (i \in Elems(b.lru) <=> i \in Elems(d.lru))
    BY <1>3, <2>3, <2>4
  <2>7. Elems(b.lru) \subseteq Elems(d.lru)  BY <2>3
  <2> QED  BY <2>3, <2>5, <2>6, <2>7
<1>9. CASE Matches(e, ep) /\ commit
  <2> DEFINE y == Committed(e)
             v == d.currentSize
             l == d.lru
             m == d.maxSize
             g == d.entry
  <2>1. y \in EntryType /\ y.size = e.size
    BY <1>5, <1>9, CommittedParts DEF Matches
  <2>2. v = v - g[j].size + y.size
    <3>1. v \in Int /\ e.size \in Nat  BY <1>3, <1>5, CacheParts, SizeType
    <3> HIDE DEF y, v
    <3> QED  BY SMT, <2>1, <3>1 DEF e
  <2>3. b = [d EXCEPT !.entry[j] = y]  BY <1>6, <1>9
  <2>4. b = Made(l, [g EXCEPT ![j] = y], v, m)
    <3>1. d = Made(l, g, v, m)  BY <1>3, CacheParts
    <3> HIDE DEF l, g, v, m, y
    <3>2. [Made(l, g, v, m) EXCEPT !.entry[j] = y] = Made(l, [g EXCEPT ![j] = y], v, m)
      BY SMT DEF Made
    <3> QED  BY <2>3, <3>1, <3>2
  <2> HIDE DEF y
  <2>5. Becomes(d, b, Elems(d.lru), [d.entry EXCEPT ![j] = y])
    BY <1>3, <1>4, <2>1, <2>2, <2>4, PutIs
  <2>6. /\ IsCache(b) /\ b.maxSize = d.maxSize /\ Elems(b.lru) = Elems(d.lru)
        /\ b.entry = [d.entry EXCEPT ![j] = y]
    BY <2>5 DEF Becomes
  <2>7. b.entry[j] = y /\ \A i \in Keys : i # j => b.entry[i] = d.entry[i]
    BY <1>5, <2>6
  <2>8. Ended(c, b, j, ep, commit)  BY <1>4, <1>9, <2>6, <2>7 DEF Ended, y
  <2>9. \A i \in Elems(c.lru) : i # j =>
          b.entry[i] = d.entry[i] /\ (i \in Elems(b.lru) <=> i \in Elems(d.lru))
    BY <1>3, <2>6, <2>7
  <2>10. Elems(b.lru) \subseteq Elems(d.lru)  BY <2>6
  <2> QED  BY <2>6, <2>8, <2>9, <2>10
<1> QED  BY <1>7, <1>8, <1>9

LEMMA TransactionIs ==
    ASSUME NEW c, IsCache(c), NEW ep, NEW commit \in BOOLEAN
    PROVE  Visited(c, CacheTransaction(c, ep, commit), Len(c.lru), ep, commit)
<1> DEFINE m == Len(c.lru)
           D == 0 .. m
           B(n, d) == FinishEntry(d, c.lru[n], ep, commit)
           S(n) == {d \in CacheType : Visited(c, d, n, ep, commit)}
           X == [n \in D |-> S(n)]
           F == [n \in D |-> [d \in S(n - 1) |-> B(n, d)]]
           r == CHOOSE r : r = [n \in D |-> IF n = 0 THEN c ELSE B(n, r[n - 1])]
<1>1. c.lru \in Seq(Keys) /\ Elems(c.lru) \subseteq Keys  BY CacheParts
<1>2. m \in Nat  BY SMT, <1>1
<1>3. c \in S(0)
  <2>1. \A i \in 1 .. m : ~(i <= 0) /\ Kept(c, c, c.lru[i])
    <3>1. \A i \in 1 .. m : ~(i <= 0)  BY SMT, <1>2
    <3>2. \A i \in 1 .. m : Kept(c, c, c.lru[i])  BY DEF Kept, Elems
    <3> QED  BY <3>1, <3>2
  <2>2. Visited(c, c, 0, ep, commit)  BY <2>1 DEF Visited
  <2> QED  BY <2>2 DEF IsCache
<1>4. \A n \in 1 .. m : \A d \in S(n - 1) : B(n, d) \in S(n)
  <2> SUFFICES ASSUME NEW n \in 1 .. m, NEW d \in S(n - 1) PROVE B(n, d) \in S(n)
    OBVIOUS
  <2>1. Visited(c, B(n, d), n, ep, commit)  BY FinishKeeps
  <2> QED  BY <2>1 DEF Visited, IsCache
<1>5. CacheTransaction(c, ep, commit) = r[m]  BY DEF CacheTransaction
<1> HIDE DEF S, m, B
<1>6. Initial(D) /\ m \in D /\ \A n \in D : n # 0 => n \in 1 .. m
  <2>1. m \in D /\ \A n \in D : n # 0 => n \in 1 .. m  BY SMT, <1>2
  <2> QED  BY <1>2, <2>1, RangeInitial
<1> HIDE DEF D
<1>7. 0 \in D /\ \A n \in D : n # 0 => n - 1 \in D  BY <1>6 DEF Initial
<1>8. c \in X[0] /\ \A n \in D : n # 0 => \A d \in X[n - 1] : F[n][d] \in X[n]
  BY <1>3, <1>4, <1>6, <1>7
<1>9. PICK g : Computes(g, D, c, F) /\ \A n \in D : g[n] \in X[n]
  <2> HIDE DEF X, F
  <2> QED  BY <1>6, <1>8, LoopIn
<1> DEFINE f == [n \in D |-> g[n]]
<1>10. f = [n \in D |-> IF n = 0 THEN c ELSE B(n, f[n - 1])]
  BY <1>7, <1>9 DEF Computes
<1>11. r = [n \in D |-> IF n = 0 THEN c ELSE B(n, r[n - 1])]
  <2> HIDE DEF f
  <2> QED  BY <1>10
<1> HIDE DEF r
<1>12. r[0] \in X[0]  BY <1>7, <1>8, <1>11
<1>13. \A n \in D : n # 0 /\ r[n - 1] \in X[n - 1] => r[n] \in X[n]
  BY <1>4, <1>6, <1>7, <1>11
<1>14. \A n \in D : r[n] \in X[n]
  <2> HIDE DEF X
  <2> QED  BY <1>6, <1>12, <1>13, LoopKeeps
<1>15. CacheTransaction(c, ep, commit) \in S(m)  BY <1>5, <1>6, <1>14
<1> QED  BY <1>15 DEF S, m

-----------------------------------------------------------------------------
(* The inductive invariant.                                                *)
Pcs == {"idle", "wait", "woken", "late", "eval", "begin"}

CallType == [cmd : {"none", "eval", "force", "update"}, key : Keys \union {NULL}]

EpochsIn(s) == {s[i].epoch : i \in 1 .. Len(s)}

Wrote(s, x) == \E i \in 1 .. Len(s) : s[i].epoch = x /\ s[i].wrote

Evaluates(p, q, t, k) == p[t] = "eval" /\ q[t].key = k

(* An entry has a value, ...                                               *)
HasValue(e) == e.value # NULL /\ e.uncommitted = NULL /\ ~e.pending

(* ... or one that only the thread sees whose transaction has written it,  *)
Private(e, s) ==
    /\ e.value = NULL /\ e.uncommitted \in Threads /\ e.pending
    /\ Wrote(s[e.uncommitted], e.epoch)

NoValue(e) == e.value = NULL /\ e.uncommitted = NULL /\ ~e.expires

(* ... or a thread computes one, which may be in a transaction that wrote  *)
(* the entry before,                                                       *)
Computed(k, e, p, q, s) ==
    /\ NoValue(e) /\ e.owner \in Threads /\ Evaluates(p, q, e.owner, k)
    /\ e.pending => e.epoch \in EpochsIn(s[e.owner])

(* ... or a wait that timed out has left it.                               *)
Orphan(e) == NoValue(e) /\ e.owner = Nobody /\ ~e.pending

KeyOk(k, in, e, p, q, s) ==
    /\ in => HasValue(e) \/ Private(e, s) \/ Computed(k, e, p, q, s) \/ Orphan(e)
    /\ \A t \in Threads : Evaluates(p, q, t, k) => in /\ NoValue(e) /\ e.owner = t
    /\ e.pending => k \in TxKeys
    /\ e.expires => k \in Expiring

EntriesInv == \A k \in Keys : KeyOk(k, k \in Elems(cache.lru), cache.entry[k], pc, call, stack)

CallInv ==
    \A t \in Threads : pc[t] \in {"wait", "woken", "late", "eval"} =>
      call[t].key \in Keys /\ (stack[t] # <<>> => call[t].key \in TxKeys)

(* Epochs are given to one transaction only.                               *)
StackInv ==
    /\ \A t \in Threads : \A x \in EpochsIn(stack[t]) : x <= transactionEpoch
    /\ \A t \in Threads : \A i, j \in 1 .. Len(stack[t]) :
         stack[t][i].epoch = stack[t][j].epoch => i = j
    /\ \A t, u \in Threads : t # u =>
         \A x \in EpochsIn(stack[t]) : x \notin EpochsIn(stack[u])

BeginInv ==
    /\ \A t \in Threads : pc[t] = "begin" => tmp[t] = transactionEpoch /\ tmp[t] < MaxEpoch
    /\ \A t, u \in Threads : pc[t] = "begin" /\ pc[u] = "begin" => t = u

TypeInv ==
    /\ IsCache(cache) /\ transactionEpoch \in 0 .. MaxEpoch /\ pc \in [Threads -> Pcs]
    /\ call \in [Threads -> CallType] /\ stack \in [Threads -> StackType]
    /\ tmp \in [Threads -> Nat]

CacheInv == TypeInv /\ EntriesInv /\ CallInv /\ StackInv /\ BeginInv

(* Who waits does so for an entry without a value, and not for its own.    *)
WaitInv ==
    \A t \in Threads : pc[t] = "wait" =>
      /\ call[t].key \in Elems(cache.lru) /\ cache.entry[call[t].key].value = NULL
      /\ cache.entry[call[t].key].uncommitted # t

AllOk(c, p, q, s) == \A k \in Keys : KeyOk(k, k \in Elems(c.lru), c.entry[k], p, q, s)

SameEvals(p, q, r, w, k) == \A u \in Threads : Evaluates(r, w, u, k) <=> Evaluates(p, q, u, k)

OthersSame(p, q, r, w, k) == \A j \in Keys : j # k => SameEvals(p, q, r, w, j)

MoreTx(s, z) ==
    \A u \in Threads : /\ EpochsIn(s[u]) \subseteq EpochsIn(z[u])
                       /\ \A x : Wrote(s[u], x) => Wrote(z[u], x)

LEMMA KeyFrame ==
    ASSUME NEW k \in Keys, NEW in, NEW e, NEW p, NEW q, NEW s, NEW r, NEW w, NEW z,
           KeyOk(k, in, e, p, q, s), SameEvals(p, q, r, w, k), MoreTx(s, z)
    PROVE  KeyOk(k, in, e, r, w, z)
<1>1. Private(e, s) => Private(e, z)  BY DEF Private, MoreTx
<1>2. Computed(k, e, p, q, s) => Computed(k, e, r, w, z)
  BY DEF Computed, SameEvals, MoreTx
<1> QED  BY <1>1, <1>2 DEF KeyOk, SameEvals

(* An entry that is not there.                                             *)
LEMMA KeyGone ==
    ASSUME NEW k \in Keys, NEW p, NEW q, NEW s, \A u \in Threads : ~Evaluates(p, q, u, k)
    PROVE  KeyOk(k, FALSE, Newborn, p, q, s)
BY NewbornType DEF KeyOk

Filled(e) == e.value # NULL \/ e.uncommitted # NULL

LEMMA DropsOk ==
    ASSUME NEW b, NEW d, NEW P, NEW p, NEW q, NEW s, AllOk(b, p, q, s), Drops(b, d, P),
           \A j \in Keys : j \in P => Filled(b.entry[j])
    PROVE  AllOk(d, p, q, s)
<1> SUFFICES ASSUME NEW k \in Keys PROVE KeyOk(k, k \in Elems(d.lru), d.entry[k], p, q, s)
  BY DEF AllOk
<1>1. KeyOk(k, k \in Elems(b.lru), b.entry[k], p, q, s)  BY DEF AllOk
<1>2. CASE (k \in Elems(b.lru) => k \in Elems(d.lru)) /\ d.entry[k] = b.entry[k]
  <2>1. k \in Elems(d.lru) => k \in Elems(b.lru)  BY DEF Drops
  <2>2. CASE k \in Elems(d.lru)
    <3>1. k \in Elems(b.lru)  BY <2>1, <2>2
    <3> QED  BY <1>1, <1>2, <2>2, <3>1 DEF KeyOk
  <2>3. CASE k \notin Elems(d.lru)
    <3>1. k \notin Elems(b.lru)  BY <1>2, <2>3
    <3> QED  BY <1>1, <1>2, <2>3, <3>1 DEF KeyOk
  <2> QED  BY <2>2, <2>3
<1>3. CASE k \in P /\ k \in Elems(b.lru) /\ k \notin Elems(d.lru) /\ d.entry[k] = Newborn
  <2>1. Filled(b.entry[k])  BY <1>3
  <2>2. \A u \in Threads : ~Evaluates(p, q, u, k)
    BY <1>1, <2>1 DEF KeyOk, NoValue, Filled
  <2>3. KeyOk(k, FALSE, Newborn, p, q, s)  BY <2>2, KeyGone
  <2> QED  BY <1>3, <2>3 DEF KeyOk
<1> QED  BY <1>2, <1>3 DEF Drops

(* The cache d is c but for the entry k, which is there if in and is y.    *)
Changed(c, d, k, in, y) ==
    /\ IsCache(d) /\ d.entry[k] = y /\ (k \in Elems(d.lru) <=> in)
    /\ \A j \in Keys : j # k =>
         d.entry[j] = c.entry[j] /\ (j \in Elems(d.lru) <=> j \in Elems(c.lru))

LEMMA ChangedOk ==
    ASSUME NEW c, NEW d, NEW k \in Keys, NEW in, NEW y, Changed(c, d, k, in, y),
           NEW p, NEW q, NEW s, NEW r, NEW w, NEW z, AllOk(c, p, q, s),
           KeyOk(k, in, y, r, w, z), MoreTx(s, z),
           OthersSame(p, q, r, w, k)
    PROVE  AllOk(d, r, w, z)
<1> SUFFICES ASSUME NEW j \in Keys PROVE KeyOk(j, j \in Elems(d.lru), d.entry[j], r, w, z)
  BY DEF AllOk
<1>1. CASE j = k
  <2>1. d.entry[k] = y /\ (k \in Elems(d.lru) <=> in)  BY DEF Changed
  <2>2. KeyOk(k, k \in Elems(d.lru), y, r, w, z)  BY <2>1 DEF KeyOk
  <2> QED  BY <1>1, <2>1, <2>2
<1>2. CASE j # k
  <2>1. d.entry[j] = c.entry[j] /\ (j \in Elems(d.lru) <=> j \in Elems(c.lru))
    BY <1>2 DEF Changed
  <2>2. KeyOk(j, j \in Elems(c.lru), c.entry[j], p, q, s)  BY DEF AllOk
  <2>3. KeyOk(j, j \in Elems(d.lru), d.entry[j], p, q, s)  BY <2>1, <2>2 DEF KeyOk
  <2>4. SameEvals(p, q, r, w, j)  BY <1>2 DEF OthersSame
  <2> QED  BY <2>3, <2>4, KeyFrame
<1> QED  BY <1>1, <1>2

LEMMA BecomesChanged ==
    ASSUME NEW c, IsCache(c), NEW d, NEW k \in Keys, NEW y, NEW K,
           Becomes(c, d, K, [c.entry EXCEPT ![k] = y]), K \ {k} = Elems(c.lru) \ {k}
    PROVE  Changed(c, d, k, k \in K, y)
<1>1. c.entry \in [Keys -> EntryType]  BY CacheParts
<1>2. IsCache(d) /\ Elems(d.lru) = K /\ d.entry = [c.entry EXCEPT ![k] = y]
  BY DEF Becomes
<1>3. d.entry[k] = y /\ \A j \in Keys : j # k => d.entry[j] = c.entry[j]
  BY <1>1, <1>2
<1>4. \A j : j # k => (j \in K <=> j \in Elems(c.lru))  OBVIOUS
<1> QED  BY <1>2, <1>3, <1>4 DEF Changed

LEMMA ChangedAgain ==
    ASSUME NEW c, NEW d, NEW b, NEW k, NEW i, NEW in, NEW x, NEW y, Changed(c, d, k, i, x),
           Changed(d, b, k, in, y)
    PROVE  Changed(c, b, k, in, y)
BY DEF Changed

-----------------------------------------------------------------------------
(* The stacks of transactions.                                             *)
SameStacks(s, z) ==
    \A u \in Threads :
      /\ z[u] \in StackType /\ Len(z[u]) = Len(s[u])
      /\ \A i \in 1 .. Len(s[u]) : /\ z[u][i].epoch = s[u][i].epoch
                                   /\ s[u][i].wrote => z[u][i].wrote

LEMMA StackSame ==
    ASSUME \A u \in Threads : stack[u] \in StackType
    PROVE  SameStacks(stack, stack)
BY DEF SameStacks

LEMMA SameMore ==
    ASSUME NEW s, NEW z, SameStacks(s, z)
    PROVE  MoreTx(s, z) /\ \A u \in Threads : EpochsIn(z[u]) = EpochsIn(s[u])
<1> SUFFICES ASSUME NEW u \in Threads
             PROVE  /\ EpochsIn(z[u]) = EpochsIn(s[u])
                    /\ \A x : Wrote(s[u], x) => Wrote(z[u], x)
  BY DEF MoreTx
<1>1. /\ Len(z[u]) = Len(s[u])
      /\ \A i \in 1 .. Len(s[u]) : /\ z[u][i].epoch = s[u][i].epoch
                                   /\ s[u][i].wrote => z[u][i].wrote
  BY DEF SameStacks
<1>2. EpochsIn(z[u]) = EpochsIn(s[u])  BY <1>1 DEF EpochsIn
<1>3. \A x : Wrote(s[u], x) => Wrote(z[u], x)  BY <1>1 DEF Wrote
<1> QED  BY <1>2, <1>3

LEMMA SameEmpty ==
    ASSUME NEW s, NEW z, SameStacks(s, z), NEW u \in Threads, s[u] \in StackType
    PROVE  z[u] = <<>> <=> s[u] = <<>>
<1> DEFINE R == [epoch : 1 .. MaxEpoch, wrote : BOOLEAN]
           a == z[u]
           b == s[u]
<1>1. a \in Seq(R) /\ b \in Seq(R) /\ Len(a) = Len(b)  BY DEF SameStacks, StackType
<1> HIDE DEF R, a, b
<1>2. a = <<>> <=> b = <<>>  BY SMT, <1>1
<1> QED  BY <1>2 DEF a, b

LEMMA SameStackInv ==
    ASSUME StackInv, SameStacks(stack, stack'), UNCHANGED transactionEpoch
    PROVE  StackInv'
<1>1. \A u \in Threads : EpochsIn(stack'[u]) = EpochsIn(stack[u])  BY SameMore
<1>2. \A u \in Threads : Len(stack'[u]) = Len(stack[u])
        /\ \A i \in 1 .. Len(stack[u]) : stack'[u][i].epoch = stack[u][i].epoch
  BY DEF SameStacks
<1>3. ASSUME NEW t \in Threads, NEW x \in EpochsIn(stack'[t]) PROVE x <= transactionEpoch'
  BY <1>1, <1>3 DEF StackInv
<1>4. ASSUME NEW t \in Threads, NEW i \in 1 .. Len(stack'[t]), NEW j \in 1 .. Len(stack'[t]),
             stack'[t][i].epoch = stack'[t][j].epoch
      PROVE  i = j
  BY <1>2, <1>4 DEF StackInv
<1>5. ASSUME NEW t \in Threads, NEW u \in Threads, t # u, NEW x \in EpochsIn(stack'[t])
      PROVE  x \notin EpochsIn(stack'[u])
  BY <1>1, <1>5 DEF StackInv
<1> QED  BY <1>3, <1>4, <1>5 DEF StackInv

LEMMA WroteStack ==
    ASSUME stack \in [Threads -> StackType], NEW t \in Threads, stack[t] # <<>>,
           stack' = [stack EXCEPT ![t][Len(stack[t])].wrote = TRUE]
    PROVE  /\ SameStacks(stack, stack') /\ stack' \in [Threads -> StackType]
           /\ Wrote(stack'[t], Last(stack[t]).epoch)
<1> DEFINE R == [epoch : 1 .. MaxEpoch, wrote : BOOLEAN]
           s == stack[t]
           n == Len(s)
           y == [s[n] EXCEPT !.wrote = TRUE]
           z == [s EXCEPT ![n] = y]
<1>1. s \in StackType /\ n \in 1 .. n /\ Last(s) = s[n]  BY LastEpoch
<1>2. stack' = [stack EXCEPT ![t] = z]  OBVIOUS
<1>3. s \in Seq(R)  BY <1>1 DEF StackType
<1>4. s[n] \in R
  <2> HIDE DEF R
  <2> QED  BY SMT, <1>1, <1>3
<1>5. y \in R /\ y.epoch = s[n].epoch /\ y.wrote  BY <1>4
<1> HIDE DEF y, s, R
<1>6. z \in Seq(R) /\ Len(z) = n /\ z[n] = y /\ \A i \in 1 .. n : i # n => z[i] = s[i]
  BY SMT, <1>1, <1>3, <1>5
<1> HIDE DEF z
<1>7. z \in StackType  BY <1>6 DEF R, StackType
<1>8. stack' \in [Threads -> StackType]  BY <1>2, <1>7
<1>9. stack'[t] = z /\ \A u \in Threads : u # t => stack'[u] = stack[u]  BY <1>2
<1>10. SameStacks(stack, stack')
  <2> SUFFICES ASSUME NEW u \in Threads
               PROVE  /\ stack'[u] \in StackType /\ Len(stack'[u]) = Len(stack[u])
                      /\ \A i \in 1 .. Len(stack[u]) :
                           /\ stack'[u][i].epoch = stack[u][i].epoch
                           /\ stack[u][i].wrote => stack'[u][i].wrote
    BY DEF SameStacks
  <2>1. CASE u # t  BY <1>9, <2>1
  <2>2. CASE u = t
    <3>1. \A i \in 1 .. n : z[i].epoch = s[i].epoch /\ (s[i].wrote => z[i].wrote)
      BY <1>5, <1>6
    <3> QED  BY <1>6, <1>7, <1>9, <2>2, <3>1 DEF s
  <2> QED  BY <2>1, <2>2
<1>11. Wrote(z, s[n].epoch)  BY <1>1, <1>5, <1>6 DEF Wrote
<1> QED  BY <1>1, <1>8, <1>9, <1>10, <1>11 DEF s

LEMMA EpochsAre ==
    ASSUME NEW t \in Threads, stack \in [Threads -> StackType]
    PROVE  Epochs(t) = EpochsIn(stack[t])
<1> DEFINE R == [epoch : 1 .. MaxEpoch, wrote : BOOLEAN]
           s == stack[t]
<1>1. s \in Seq(R)  BY DEF StackType
<1> HIDE DEF R, s
<1>2. DOMAIN s = 1 .. Len(s)  BY SMT, <1>1
<1> QED  BY <1>2 DEF Epochs, EpochsIn, s

LEMMA NoEpochs ==
    ASSUME NEW s \in StackType
    PROVE  s = <<>> => EpochsIn(s) = {} /\ \A x : ~Wrote(s, x)
<1>1. s = <<>> => 1 .. Len(s) = {}  BY SMT
<1> QED  BY <1>1 DEF EpochsIn, Wrote

LEMMA WroteIn ==
    ASSUME NEW s, NEW x, Wrote(s, x) PROVE x \in EpochsIn(s)
BY DEF Wrote, EpochsIn

(* An entry that thread t may give a value.                                *)
Ready(y, k, t) ==
    /\ y \in EntryType /\ (y.value = NULL \/ y.uncommitted = NULL)
    /\ y.pending => k \in TxKeys /\ y.epoch \in EpochsIn(stack[t])
    /\ Filled(y) \/ ~y.expires
    /\ y.expires => k \in Expiring

LEMMA Usable ==
    ASSUME CacheInv, Expiring \intersect TxKeys = {}, NEW t \in Threads, NEW k \in Keys,
           NEW x \in BOOLEAN, MayExpire(k, x),
           IsNew(cache, k, x) \/ Ns_CacheGetValueT(cache, t, k) # NULL
    PROVE  /\ Ready(Fresh(cache.entry[k], x), k, t)
           /\ \A u \in Threads : ~Evaluates(pc, call, u, k)
           /\ IsNew(cache, k, x) =>
                ~Filled(Fresh(cache.entry[k], x)) /\ ~Fresh(cache.entry[k], x).pending
<1> DEFINE e == cache.entry[k]
           y == Fresh(e, x)
           in == (k \in Elems(cache.lru))
<1>1. IsCache(cache) /\ stack \in [Threads -> StackType]  BY DEF CacheInv, TypeInv
<1>2. e \in EntryType /\ (Exists(cache, k) <=> in)  BY <1>1, CacheParts
<1>3. KeyOk(k, in, e, pc, call, stack)  BY DEF CacheInv, EntriesInv
<1>4. ~in => e = Newborn  BY <1>1 DEF IsCache
<1>5. x => in /\ e.expires  BY <1>2 DEF MayExpire
<1>6. IsNew(cache, k, x) <=> (~in \/ x)  BY <1>2 DEF IsNew
<1>7. Epochs(t) = EpochsIn(stack[t])  BY <1>1, EpochsAre
<1>8. Ns_CacheGetValueT(cache, t, k) # NULL =>
        e.value # NULL \/ (e.uncommitted # NULL /\ e.epoch \in EpochsIn(stack[t]))
  BY <1>7 DEF Ns_CacheGetValueT
<1>9. ~x => y = e  BY DEF Fresh
<1>10. x => y = Cleared(e)  BY DEF Fresh
<1> HIDE DEF e, y, in
<1>11. (e.pending => k \in TxKeys) /\ (e.expires => k \in Expiring)
  BY <1>3 DEF KeyOk
<1>12. CASE x
  <2>1. in /\ e.expires /\ k \in Expiring /\ ~e.pending
    BY <1>5, <1>11, <1>12
  <2>2. HasValue(e)
    BY <1>3, <2>1 DEF KeyOk, Private, Computed, Orphan, NoValue
  <2>3. e.value # NULL /\ e.uncommitted = NULL  BY <2>2 DEF HasValue
  <2>4. /\ y \in EntryType /\ y.value = NULL /\ y.uncommitted = NULL /\ ~y.expires /\ ~y.pending
    <3>1. /\ Cleared(e) \in EntryType /\ Cleared(e).value = NULL /\ Cleared(e).uncommitted = NULL
          /\ ~Cleared(e).expires /\ Cleared(e).pending = e.pending
      BY <1>2, <2>3, ClearedParts
    <3> QED  BY <1>10, <1>12, <2>1, <3>1
  <2>5. Ready(y, k, t) /\ ~Filled(y) /\ ~y.pending  BY <2>4 DEF Ready, Filled
  <2>6. \A u \in Threads : ~Evaluates(pc, call, u, k)
    BY <1>3, <2>1 DEF KeyOk, NoValue
  <2> QED  BY <2>5, <2>6 DEF y, e
<1>13. CASE ~x /\ ~in
  <2>1. y = Newborn  BY <1>4, <1>9, <1>13
  <2>2. Ready(y, k, t) /\ ~Filled(y) /\ ~y.pending
    BY <2>1, NewbornType DEF Ready, Filled
  <2>3. \A u \in Threads : ~Evaluates(pc, call, u, k)  BY <1>3, <1>13 DEF KeyOk
  <2> QED  BY <2>2, <2>3 DEF y, e
<1>14. CASE ~x /\ in
  <2>1. y = e /\ ~IsNew(cache, k, x)  BY <1>6, <1>9, <1>14
  <2>2. e.value # NULL \/ (e.uncommitted # NULL /\ e.epoch \in EpochsIn(stack[t]))
    BY <1>8, <2>1
  <2>3. Filled(e)  BY <2>2 DEF Filled
  <2>4. HasValue(e) \/ Private(e, stack)
    BY <1>3, <1>14, <2>3 DEF KeyOk, Computed, Orphan, NoValue, Filled
  <2>5. Ready(e, k, t)
    <3>1. CASE HasValue(e)  BY <1>2, <1>11, <2>3, <3>1 DEF Ready, HasValue
    <3>2. CASE Private(e, stack)
      <4>1. e.value = NULL  BY <3>2 DEF Private
      <4> QED  BY <1>2, <1>11, <2>2, <2>3, <4>1 DEF Ready
    <3> QED  BY <2>4, <3>1, <3>2
  <2>6. \A u \in Threads : ~Evaluates(pc, call, u, k)
    BY <1>3, <2>3 DEF KeyOk, NoValue, Filled
  <2> QED  BY <2>1, <2>5, <2>6 DEF y, e
<1> QED  BY <1>12, <1>13, <1>14

OwnedBy(e, w) == [e EXCEPT !.owner = w]

LEMMA OwnedParts ==
    ASSUME NEW e \in EntryType, NEW w \in Threads \union {NULL, Nobody}
    PROVE  /\ OwnedBy(e, w) \in EntryType /\ OwnedBy(e, w).owner = w
           /\ OwnedBy(e, w).size = e.size /\ OwnedBy(e, w).value = e.value
           /\ OwnedBy(e, w).uncommitted = e.uncommitted /\ OwnedBy(e, w).pending = e.pending
           /\ OwnedBy(e, w).epoch = e.epoch /\ OwnedBy(e, w).expires = e.expires
<1> DEFINE y == OwnedBy(e, w)
<1>1. e \in EntryRecord /\ (e.value = NULL /\ e.uncommitted = NULL => e.size = 0)
  BY DEF EntryType
<1>2. /\ y \in EntryRecord /\ y.owner = w /\ y.size = e.size /\ y.value = e.value
      /\ y.uncommitted = e.uncommitted /\ y.pending = e.pending /\ y.epoch = e.epoch
      /\ y.expires = e.expires
  BY SMT, <1>1 DEF OwnedBy, EntryRecord
<1> HIDE DEF y
<1>3. y \in EntryType  BY <1>1, <1>2 DEF EntryType
<1> QED  BY <1>2, <1>3 DEF y

LEMMA OwnIs ==
    ASSUME NEW c, IsCache(c), NEW k \in Elems(c.lru), NEW w \in Threads \union {NULL, Nobody}
    PROVE  Becomes(c, [c EXCEPT !.entry[k].owner = w], Elems(c.lru),
                   [c.entry EXCEPT ![k] = OwnedBy(c.entry[k], w)])
<1> DEFINE g == c.entry
           l == c.lru
           v == c.currentSize
           m == c.maxSize
           y == OwnedBy(g[k], w)
           b == [c EXCEPT !.entry[k].owner = w]
<1>1. c = Made(l, g, v, m) /\ g[k] \in EntryType /\ v \in Int  BY CacheParts
<1>2. y \in EntryType /\ y.size = g[k].size
  <2> HIDE DEF g
  <2> QED  BY <1>1, OwnedParts
<1>3. v = v - g[k].size + y.size
  <2>1. g[k].size \in Nat  BY <1>1, SizeType
  <2> HIDE DEF g, y, v
  <2> QED  BY SMT, <1>1, <1>2, <2>1
<1>4. b = [c EXCEPT !.entry[k] = y]  BY DEF OwnedBy
<1>5. b = Made(l, [g EXCEPT ![k] = y], v, m)
  <2> HIDE DEF l, g, v, m, y, b
  <2>1. [Made(l, g, v, m) EXCEPT !.entry[k] = y] = Made(l, [g EXCEPT ![k] = y], v, m)
    BY SMT DEF Made
  <2> QED  BY <1>1, <1>4, <2>1
<1>6. Becomes(c, Made(l, [g EXCEPT ![k] = y], v, m), Elems(l), [g EXCEPT ![k] = y])
  <2> HIDE DEF y
  <2> QED  BY <1>2, <1>3, PutIs
<1> QED  BY <1>5, <1>6

(* Thread t computes a value for the entry.                                *)
LEMMA EvalOk ==
    ASSUME NEW k \in Keys, NEW t \in Threads, NEW y, Ready(y, k, t), NEW r, NEW w,
           \A u \in Threads : Evaluates(r, w, u, k) <=> u = t
    PROVE  KeyOk(k, TRUE, OwnedBy(Cleared(y), t), r, w, stack)
<1> DEFINE c == Cleared(y)
           z == OwnedBy(c, t)
<1>1. y \in EntryType  BY DEF Ready
<1>2. c \in EntryType /\ c.value = NULL /\ c.pending = y.pending /\ c.epoch = y.epoch
  BY <1>1, ClearedParts
<1>3. c.uncommitted = NULL  BY <1>1, ClearedParts DEF Ready
<1>4. ~c.expires
  <2>1. CASE Filled(y)
    <3>1. ~(y.value = NULL /\ y.uncommitted = NULL)  BY <2>1 DEF Filled
    <3> QED  BY <1>1, <3>1, ClearedParts
  <2>2. CASE ~Filled(y)
    <3>1. y.value = NULL /\ y.uncommitted = NULL /\ ~y.expires
      BY <2>2 DEF Filled, Ready
    <3>2. c = y  BY <1>1, <3>1, ClearedParts
    <3> QED  BY <3>1, <3>2
  <2> QED  BY <2>1, <2>2
<1> HIDE DEF c
<1>5. /\ z.owner = t /\ z.value = NULL /\ z.uncommitted = NULL /\ z.pending = y.pending
      /\ z.epoch = y.epoch /\ ~z.expires
  BY <1>2, <1>3, <1>4, OwnedParts
<1> HIDE DEF z
<1>6. NoValue(z)  BY <1>5 DEF NoValue
<1>7. z.pending => k \in TxKeys /\ z.epoch \in EpochsIn(stack[t])
  BY <1>5 DEF Ready
<1>8. Computed(k, z, r, w, stack)  BY <1>5, <1>6, <1>7 DEF Computed
<1>9. KeyOk(k, TRUE, z, r, w, stack)  BY <1>5, <1>6, <1>7, <1>8 DEF KeyOk
<1> QED  BY <1>9 DEF z, c

(* Thread t has given it one.                                              *)
LEMMA StoreOk ==
    ASSUME NEW k \in Keys, NEW t \in Threads, NEW n \in Sizes, NEW y, Ready(y, k, t),
           stack[t] \in StackType, NEW r, NEW w, NEW s,
           \A u \in Threads : ~Evaluates(r, w, u, k),
           stack[t] # <<>> => k \in TxKeys /\ Wrote(s[t], Last(stack[t]).epoch)
    PROVE  KeyOk(k, TRUE, Stored(y, t, k, n, stack[t]), r, w, s)
<1> DEFINE z == Stored(y, t, k, n, stack[t])
<1>1. y \in EntryType  BY DEF Ready
<1>2. StoredAs(z, y, t, k, n, stack[t])  BY <1>1, StoredParts
<1> HIDE DEF z
<1>3. z.expires => k \in Expiring  BY <1>2 DEF StoredAs
<1>4. CASE stack[t] = <<>>
  <2>1. z.value = t /\ z.uncommitted = Cleared(y).uncommitted /\ z.pending = y.pending
    BY <1>2, <1>4 DEF StoredAs
  <2>2. Cleared(y).uncommitted = NULL  BY <1>1, ClearedParts DEF Ready
  <2>3. ~y.pending  BY <1>4, NoEpochs DEF Ready
  <2>4. t # NULL  BY SMT, CacheAssumption
  <2>5. HasValue(z)  BY <2>1, <2>2, <2>3, <2>4 DEF HasValue
  <2> QED  BY <1>3, <2>1, <2>3, <2>5 DEF KeyOk, z
<1>5. CASE stack[t] # <<>>
  <2>1. z.value = NULL /\ z.uncommitted = t /\ z.epoch = Last(stack[t]).epoch /\ z.pending
    BY <1>2, <1>5 DEF StoredAs
  <2>2. Private(z, s)  BY <1>5, <2>1 DEF Private
  <2> QED  BY <1>3, <1>5, <2>2 DEF KeyOk, z
<1> QED  BY <1>4, <1>5

-----------------------------------------------------------------------------
(* What an operation on the entry k makes of the cache: the entry is there *)
(* if in and is y, and others with a value may be evicted.                 *)
MovesTo(d, k, in, y) ==
    \E b : Changed(cache, b, k, in, y) /\ Drops(b, d, Valued(b, k))

LEMMA MovesNone ==
    ASSUME NEW d, NEW k, NEW in, NEW y, Changed(cache, d, k, in, y)
    PROVE  MovesTo(d, k, in, y)
<1>1. Drops(d, d, Valued(d, k))  BY DropsNone DEF Changed
<1> QED  BY <1>1 DEF MovesTo

LEMMA MovesOk ==
    ASSUME NEW d, NEW k \in Keys, NEW in, NEW y, MovesTo(d, k, in, y), CacheInv,
           NEW r, NEW w, NEW z, KeyOk(k, in, y, r, w, z), MoreTx(stack, z),
           OthersSame(pc, call, r, w, k)
    PROVE  IsCache(d) /\ AllOk(d, r, w, z)
<1>1. PICK b : Changed(cache, b, k, in, y) /\ Drops(b, d, Valued(b, k))
  BY DEF MovesTo
<1>2. AllOk(cache, pc, call, stack)  BY DEF CacheInv, EntriesInv, AllOk
<1>3. AllOk(b, r, w, z)  BY <1>1, <1>2, ChangedOk
<1>4. \A j \in Keys : j \in Valued(b, k) => Filled(b.entry[j])
  BY DEF Valued, Filled
<1>5. AllOk(d, r, w, z)  BY <1>1, <1>3, <1>4, DropsOk
<1> QED  BY <1>1, <1>5 DEF Drops

(* What a wait depends on.                                                 *)
KeepsBlank(d, k, in, y) ==
    /\ \A j \in Keys : j # k /\ j \in Elems(cache.lru) /\ cache.entry[j].value = NULL =>
         j \in Elems(d.lru) /\ d.entry[j] = cache.entry[j]
    /\ in => k \in Elems(d.lru) /\ d.entry[k] = y

LEMMA MovesBlank ==
    ASSUME NEW d, NEW k \in Keys, NEW in, NEW y, MovesTo(d, k, in, y), IsCache(cache)
    PROVE  KeepsBlank(d, k, in, y)
<1>1. PICK b : Changed(cache, b, k, in, y) /\ Drops(b, d, Valued(b, k))
  BY DEF MovesTo
<1>2. ASSUME NEW j \in Keys, j # k, j \in Elems(cache.lru), cache.entry[j].value = NULL
      PROVE  j \in Elems(d.lru) /\ d.entry[j] = cache.entry[j]
  <2>1. j \in Elems(b.lru) /\ b.entry[j] = cache.entry[j]
    BY <1>1, <1>2 DEF Changed
  <2>2. j \notin Valued(b, k)  BY <1>2, <2>1 DEF Valued
  <2> QED  BY <1>1, <2>1, <2>2 DEF Drops
<1>3. ASSUME in PROVE k \in Elems(d.lru) /\ d.entry[k] = y
  <2>1. k \in Elems(b.lru) /\ b.entry[k] = y  BY <1>1, <1>3 DEF Changed
  <2>2. k \notin Valued(b, k)  BY DEF Valued
  <2> QED  BY <1>1, <2>1, <2>2 DEF Drops
<1> QED  BY <1>2, <1>3 DEF KeepsBlank

LEMMA CreateMoves ==
    ASSUME IsCache(cache), NEW k \in Keys, NEW x \in BOOLEAN, MayExpire(k, x)
    PROVE  LET c == Ns_CacheCreateEntry(cache, k, x) IN
           /\ Changed(cache, c, k, TRUE, Fresh(cache.entry[k], x))
           /\ IsCache(c) /\ k \in Elems(c.lru) /\ c.entry[k] = Fresh(cache.entry[k], x)
<1> DEFINE c == Ns_CacheCreateEntry(cache, k, x)
           K == Elems(cache.lru) \union {k}
           y == Fresh(cache.entry[k], x)
<1>1. x => k \in Elems(cache.lru)  BY CacheParts DEF MayExpire
<1>2. Becomes(cache, c, K, [cache.entry EXCEPT ![k] = y])  BY <1>1, CreateIs
<1>3. K \ {k} = Elems(cache.lru) \ {k} /\ k \in K  OBVIOUS
<1> HIDE DEF c, K, y
<1>4. Changed(cache, c, k, k \in K, y)  BY <1>2, <1>3, BecomesChanged
<1>5. Changed(cache, c, k, TRUE, y)  BY <1>3, <1>4 DEF Changed
<1>6. IsCache(c) /\ k \in Elems(c.lru) /\ c.entry[k] = y  BY <1>5 DEF Changed
<1> QED  BY <1>5, <1>6 DEF c, y

(* Steps after Ns_CacheCreateEntry.                                        *)
LEMMA UnsetMoves ==
    ASSUME NEW c, NEW k \in Keys, NEW y, Changed(cache, c, k, TRUE, y)
    PROVE  Changed(cache, Ns_CacheUnsetValue(c, k), k, TRUE, Cleared(y))
<1> DEFINE d == Ns_CacheUnsetValue(c, k)
<1>1. IsCache(c) /\ k \in Elems(c.lru) /\ c.entry[k] = y  BY DEF Changed
<1>2. Becomes(c, d, Elems(c.lru), [c.entry EXCEPT ![k] = Cleared(y)])
  BY <1>1, UnsetIs
<1> HIDE DEF d
<1>3. Changed(c, d, k, k \in Elems(c.lru), Cleared(y))
  BY <1>1, <1>2, BecomesChanged
<1>4. Changed(c, d, k, TRUE, Cleared(y))  BY <1>1, <1>3 DEF Changed
<1>5. Changed(cache, d, k, TRUE, Cleared(y))  BY <1>4, ChangedAgain
<1> QED  BY <1>5 DEF d

LEMMA OwnMoves ==
    ASSUME NEW c, NEW k \in Keys, NEW y, Changed(cache, c, k, TRUE, y),
           NEW w \in Threads \union {NULL, Nobody}
    PROVE  Changed(cache, [c EXCEPT !.entry[k].owner = w], k, TRUE, OwnedBy(y, w))
<1> DEFINE d == [c EXCEPT !.entry[k].owner = w]
<1>1. IsCache(c) /\ k \in Elems(c.lru) /\ c.entry[k] = y  BY DEF Changed
<1>2. Becomes(c, d, Elems(c.lru), [c.entry EXCEPT ![k] = OwnedBy(c.entry[k], w)])
  BY <1>1, OwnIs
<1> HIDE DEF d
<1>3. Becomes(c, d, Elems(c.lru), [c.entry EXCEPT ![k] = OwnedBy(y, w)])
  BY <1>1, <1>2
<1>4. Changed(c, d, k, k \in Elems(c.lru), OwnedBy(y, w))
  BY <1>1, <1>3, BecomesChanged
<1>5. Changed(c, d, k, TRUE, OwnedBy(y, w))  BY <1>1, <1>4 DEF Changed
<1>6. Changed(cache, d, k, TRUE, OwnedBy(y, w))  BY <1>5, ChangedAgain
<1> QED  BY <1>6 DEF d

LEMMA DeleteMoves ==
    ASSUME NEW c, NEW k \in Keys, NEW y, Changed(cache, c, k, TRUE, y)
    PROVE  Changed(cache, Ns_CacheDeleteEntry(c, k), k, FALSE, Newborn)
<1> DEFINE d == Ns_CacheDeleteEntry(c, k)
           K == Elems(c.lru) \ {k}
<1>1. IsCache(c) /\ k \in Elems(c.lru)  BY DEF Changed
<1>2. Becomes(c, d, K, [c.entry EXCEPT ![k] = Newborn])  BY <1>1, DeleteIs
<1>3. K \ {k} = Elems(c.lru) \ {k} /\ k \notin K  OBVIOUS
<1> HIDE DEF d, K
<1>4. Changed(c, d, k, k \in K, Newborn)  BY <1>1, <1>2, <1>3, BecomesChanged
<1>5. Changed(c, d, k, FALSE, Newborn)  BY <1>3, <1>4 DEF Changed
<1>6. Changed(cache, d, k, FALSE, Newborn)  BY <1>5, ChangedAgain
<1> QED  BY <1>6 DEF d

LEMMA StoreMoves ==
    ASSUME NEW c, NEW k \in Keys, NEW y, Changed(cache, c, k, TRUE, y), NEW t \in Threads,
           NEW n \in Sizes, stack[t] \in StackType
    PROVE  MovesTo(Ns_CacheSetValueExpires(c, t, k, n), k, TRUE, Stored(y, t, k, n, stack[t]))
<1> DEFINE d == Ns_CacheSetValueExpires(c, t, k, n)
           z == Stored(y, t, k, n, stack[t])
<1>1. IsCache(c) /\ k \in Elems(c.lru) /\ c.entry[k] = y  BY DEF Changed
<1>2. PICK b : /\ Becomes(c, b, Elems(c.lru),
                          [c.entry EXCEPT ![k] = Stored(c.entry[k], t, k, n, stack[t])])
               /\ Drops(b, d, Valued(b, k))
  BY <1>1, SetValueIs
<1>3. Becomes(c, b, Elems(c.lru), [c.entry EXCEPT ![k] = z])  BY <1>1, <1>2
<1> HIDE DEF d, z
<1>4. Changed(c, b, k, k \in Elems(c.lru), z)  BY <1>1, <1>3, BecomesChanged
<1>5. Changed(c, b, k, TRUE, z)  BY <1>1, <1>4 DEF Changed
<1>6. Changed(cache, b, k, TRUE, z)  BY <1>5, ChangedAgain
<1>7. MovesTo(d, k, TRUE, z)  BY <1>2, <1>6 DEF MovesTo
<1> QED  BY <1>7 DEF d, z

-----------------------------------------------------------------------------
(* What a thread does.                                                     *)
CallPcs == {"wait", "woken", "late", "eval"}

LEMMA ThreadsKeep ==
    ASSUME CacheInv, IsCache(cache'), SameStacks(stack, stack'),
           stack' \in [Threads -> StackType], UNCHANGED <<transactionEpoch, tmp>>,
           pc' \in [Threads -> Pcs], call' \in [Threads -> CallType],
           \A u \in Threads : pc'[u] = "begin" => pc[u] = "begin",
           \A u \in Threads : pc'[u] \in CallPcs =>
             \/ pc[u] \in CallPcs /\ call'[u] = call[u]
             \/ call'[u].key \in Keys /\ (stack[u] # <<>> => call'[u].key \in TxKeys),
           AllOk(cache', pc', call', stack')
    PROVE  CacheInv'
<1>1. TypeInv /\ CallInv /\ StackInv /\ BeginInv  BY DEF CacheInv
<1>2. TypeInv'  BY <1>1 DEF TypeInv
<1>3. StackInv'  BY <1>1, SameStackInv
<1>4. BeginInv'
  <2>1. transactionEpoch' = transactionEpoch /\ tmp' = tmp  OBVIOUS
  <2> QED  BY <1>1, <2>1 DEF BeginInv
<1>5. CallInv'
  <2> SUFFICES ASSUME NEW u \in Threads, pc'[u] \in CallPcs
               PROVE  call'[u].key \in Keys /\ (stack'[u] # <<>> => call'[u].key \in TxKeys)
    BY DEF CallInv, CallPcs
  <2>1. stack'[u] = <<>> <=> stack[u] = <<>>  BY <1>1, SameEmpty DEF TypeInv
  <2>2. pc[u] \in CallPcs => call[u].key \in Keys /\ (stack[u] # <<>> => call[u].key \in TxKeys)
    BY <1>1 DEF CallInv, CallPcs
  <2> QED  BY <2>1, <2>2
<1>6. EntriesInv'  BY DEF EntriesInv, AllOk
<1> QED  BY <1>2, <1>3, <1>4, <1>5, <1>6 DEF CacheInv

LEMMA OneThread ==
    ASSUME TypeInv, NEW t \in Threads, NEW v \in Pcs, NEW m \in CallType,
           pc' = [pc EXCEPT ![t] = v], call' = [call EXCEPT ![t] = m], pc[t] # "eval"
    PROVE  /\ pc' \in [Threads -> Pcs] /\ call' \in [Threads -> CallType]
           /\ pc'[t] = v /\ call'[t] = m
           /\ \A u \in Threads : u # t => pc'[u] = pc[u] /\ call'[u] = call[u]
           /\ v # "eval" => \A j : SameEvals(pc, call, pc', call', j)
           /\ v = "eval" =>
                /\ OthersSame(pc, call, pc', call', m.key)
                /\ (\A u \in Threads : ~Evaluates(pc, call, u, m.key)) =>
                     \A u \in Threads : Evaluates(pc', call', u, m.key) <=> u = t
<1>1. pc \in [Threads -> Pcs] /\ call \in [Threads -> CallType]  BY DEF TypeInv
<1>2. /\ pc' \in [Threads -> Pcs] /\ call' \in [Threads -> CallType]
      /\ pc'[t] = v /\ call'[t] = m
      /\ \A u \in Threads : u # t => pc'[u] = pc[u] /\ call'[u] = call[u]
  BY <1>1
<1>3. v # "eval" => \A j : SameEvals(pc, call, pc', call', j)
  BY <1>2 DEF SameEvals, Evaluates
<1>4. v = "eval" => OthersSame(pc, call, pc', call', m.key)
  BY <1>2 DEF OthersSame, SameEvals, Evaluates
<1>5. v = "eval" /\ (\A u \in Threads : ~Evaluates(pc, call, u, m.key)) =>
        \A u \in Threads : Evaluates(pc', call', u, m.key) <=> u = t
  BY <1>2 DEF Evaluates
<1> QED  BY <1>2, <1>3, <1>4, <1>5

LEMMA MoreSame ==
    ASSUME TypeInv, stack' = stack
    PROVE  /\ SameStacks(stack, stack') /\ stack' \in [Threads -> StackType]
           /\ MoreTx(stack, stack')
<1>1. stack \in [Threads -> StackType]  BY DEF TypeInv
<1>2. SameStacks(stack, stack)  BY <1>1, StackSame
<1> QED  BY <1>1, <1>2, SameMore

LEMMA SetEntryOk ==
    ASSUME CacheInv, NEW t \in Threads, NEW k \in Keys, NEW n \in Sizes, NEW c, NEW y,
           Changed(cache, c, k, TRUE, y), Ready(y, k, t), stack[t] # <<>> => k \in TxKeys,
           SetEntry(c, t, k, n), \A u \in Threads : ~Evaluates(pc', call', u, k),
           OthersSame(pc, call, pc', call', k)
    PROVE  /\ IsCache(cache') /\ AllOk(cache', pc', call', stack')
           /\ SameStacks(stack, stack') /\ stack' \in [Threads -> StackType]
           /\ n > MaxEntry => MovesTo(cache', k, FALSE, Newborn)
           /\ ~(n > MaxEntry) => MovesTo(cache', k, TRUE, Stored(y, t, k, n, stack[t]))
<1>1. TypeInv /\ stack \in [Threads -> StackType] /\ stack[t] \in StackType
  BY DEF CacheInv, TypeInv
<1>2. CASE n > MaxEntry
  <2>1. cache' = Ns_CacheDeleteEntry(c, k) /\ stack' = stack  BY <1>2 DEF SetEntry
  <2>2. MovesTo(cache', k, FALSE, Newborn)  BY <2>1, DeleteMoves, MovesNone
  <2>3. KeyOk(k, FALSE, Newborn, pc', call', stack')  BY KeyGone
  <2>4. /\ SameStacks(stack, stack') /\ stack' \in [Threads -> StackType]
        /\ MoreTx(stack, stack')
    BY <1>1, <2>1, MoreSame
  <2>5. IsCache(cache') /\ AllOk(cache', pc', call', stack')
    BY <2>2, <2>3, <2>4, MovesOk
  <2> QED  BY <1>2, <2>2, <2>4, <2>5
<1>3. CASE ~(n > MaxEntry)
  <2> DEFINE z == Stored(y, t, k, n, stack[t])
  <2>1. cache' = Ns_CacheSetValueExpires(c, t, k, n)  BY <1>3 DEF SetEntry
  <2>2. MovesTo(cache', k, TRUE, z)  BY <1>1, <2>1, StoreMoves
  <2>3. /\ SameStacks(stack, stack') /\ stack' \in [Threads -> StackType]
        /\ stack[t] # <<>> => Wrote(stack'[t], Last(stack[t]).epoch)
    <3>1. CASE stack[t] = <<>>
      <4>1. stack' = stack  BY <1>3, <3>1 DEF SetEntry
      <4> QED  BY <1>1, <3>1, <4>1, MoreSame
    <3>2. CASE stack[t] # <<>>
      <4>1. stack' = [stack EXCEPT ![t][Len(stack[t])].wrote = TRUE]
        BY <1>3, <3>2 DEF SetEntry
      <4> QED  BY <1>1, <3>2, <4>1, WroteStack
    <3> QED  BY <3>1, <3>2
  <2>4. KeyOk(k, TRUE, z, pc', call', stack')  BY <1>1, <2>3, StoreOk
  <2> HIDE DEF z
  <2>5. MoreTx(stack, stack')  BY <2>3, SameMore
  <2>6. IsCache(cache') /\ AllOk(cache', pc', call', stack')
    BY <2>2, <2>4, <2>5, MovesOk
  <2> QED  BY <1>3, <2>2, <2>3, <2>6 DEF z
<1> QED  BY <1>2, <1>3

(* Thread t may run command m.                                             *)
MayRun(t, m, x) ==
    /\ m \in CallType /\ m.key \in Keys /\ (stack[t] # <<>> => m.key \in TxKeys)
    /\ pc[t] \in {"idle", "woken"} /\ x \in BOOLEAN /\ MayExpire(m.key, x)

NoCall == [cmd |-> "none", key |-> NULL]

LEMMA PcFacts ==
    /\ {"idle", "wait", "woken", "late", "eval", "begin"} \subseteq Pcs
    /\ "idle" \notin CallPcs /\ "begin" \notin CallPcs /\ "idle" # "eval" /\ "wait" # "eval"
    /\ "woken" # "eval" /\ "late" # "eval" /\ "begin" # "eval" /\ "idle" # "begin"
    /\ "wait" # "begin" /\ "eval" # "begin" /\ "idle" # "wait" /\ "eval" # "wait"
    /\ "begin" # "wait" /\ "late" # "wait" /\ "woken" # "wait" /\ "woken" # "begin"
    /\ "late" # "begin"
    /\ NoCall \in CallType
BY SMT DEF Pcs, CallPcs, CallType, NoCall

(* A step of t that changes its place, its command and the cache.          *)
LEMMA OneKeeps ==
    ASSUME CacheInv, NEW t \in Threads, NEW v \in Pcs, NEW m \in CallType, v # "begin",
           pc[t] # "eval", pc' = [pc EXCEPT ![t] = v], call' = [call EXCEPT ![t] = m],
           v \in CallPcs => m.key \in Keys /\ (stack[t] # <<>> => m.key \in TxKeys),
           SameStacks(stack, stack'), stack' \in [Threads -> StackType],
           UNCHANGED <<transactionEpoch, tmp>>, IsCache(cache'),
           AllOk(cache', pc', call', stack')
    PROVE  CacheInv'
<1>1. TypeInv  BY DEF CacheInv
<1>2. /\ pc' \in [Threads -> Pcs] /\ call' \in [Threads -> CallType]
      /\ pc'[t] = v /\ call'[t] = m
      /\ \A u \in Threads : u # t => pc'[u] = pc[u] /\ call'[u] = call[u]
  BY <1>1, OneThread
<1>3. \A u \in Threads : pc'[u] = "begin" => pc[u] = "begin"  BY <1>2
<1>4. \A u \in Threads : pc'[u] \in CallPcs =>
        \/ pc[u] \in CallPcs /\ call'[u] = call[u]
        \/ call'[u].key \in Keys /\ (stack[u] # <<>> => call'[u].key \in TxKeys)
  BY <1>2
<1> QED  BY <1>2, <1>3, <1>4, ThreadsKeep

(* An entry that is found and only touched.                                *)
LEMMA TouchOk ==
    ASSUME CacheInv, NEW k \in Keys, NEW x \in BOOLEAN, MayExpire(k, x), ~IsNew(cache, k, x),
           cache' = Ns_CacheCreateEntry(cache, k, x), stack' = stack,
           \A j : SameEvals(pc, call, pc', call', j)
    PROVE  /\ IsCache(cache') /\ AllOk(cache', pc', call', stack')
           /\ SameStacks(stack, stack') /\ stack' \in [Threads -> StackType]
           /\ MovesTo(cache', k, TRUE, cache.entry[k])
<1>1. ~x /\ Exists(cache, k)  BY DEF IsNew
<1>2. TypeInv /\ IsCache(cache)  BY DEF CacheInv, TypeInv
<1>3. Changed(cache, cache', k, TRUE, Fresh(cache.entry[k], x))
  BY <1>2, CreateMoves
<1>4. Fresh(cache.entry[k], x) = cache.entry[k]  BY <1>1 DEF Fresh
<1>5. MovesTo(cache', k, TRUE, cache.entry[k])  BY <1>3, <1>4, MovesNone
<1>6. /\ SameStacks(stack, stack') /\ stack' \in [Threads -> StackType]
      /\ MoreTx(stack, stack')
  BY <1>2, MoreSame
<1>7. KeyOk(k, TRUE, cache.entry[k], pc', call', stack')
  <2>1. k \in Elems(cache.lru)  BY <1>1, <1>2, CacheParts
  <2>2. KeyOk(k, k \in Elems(cache.lru), cache.entry[k], pc, call, stack)
    BY DEF CacheInv, EntriesInv
  <2>3. KeyOk(k, TRUE, cache.entry[k], pc, call, stack)  BY <2>1, <2>2 DEF KeyOk
  <2>4. SameEvals(pc, call, pc', call', k)  OBVIOUS
  <2> QED  BY <1>6, <2>3, <2>4, KeyFrame
<1>8. OthersSame(pc, call, pc', call', k)  BY DEF OthersSame
<1>9. IsCache(cache') /\ AllOk(cache', pc', call', stack')
  BY <1>5, <1>6, <1>7, <1>8, MovesOk
<1> QED  BY <1>5, <1>6, <1>9

(* What others wait for keeps to have no value for them.                   *)
Blank(c, k, u) == k \in Elems(c.lru) /\ c.entry[k].value = NULL /\ c.entry[k].uncommitted # u

BlankKept(t) ==
    \A u \in Threads, j \in Keys : u # t /\ Blank(cache, j, u) => Blank(cache', j, u)

LEMMA MovesKept ==
    ASSUME IsCache(cache), NEW t, NEW k \in Keys, NEW in, NEW y, MovesTo(cache', k, in, y),
           \A u \in Threads : u # t /\ Blank(cache, k, u) =>
             in /\ y.value = NULL /\ y.uncommitted # u
    PROVE  BlankKept(t)
<1>0. KeepsBlank(cache', k, in, y)  BY MovesBlank
<1>1. /\ \A j \in Keys : j # k /\ j \in Elems(cache.lru) /\ cache.entry[j].value = NULL =>
           j \in Elems(cache'.lru) /\ cache'.entry[j] = cache.entry[j]
      /\ in => k \in Elems(cache'.lru) /\ cache'.entry[k] = y
  BY <1>0 DEF KeepsBlank
<1> SUFFICES ASSUME NEW u \in Threads, NEW j \in Keys, u # t, Blank(cache, j, u)
             PROVE  Blank(cache', j, u)
  BY DEF BlankKept
<1>2. CASE j = k  BY <1>1, <1>2 DEF Blank
<1>3. CASE j # k  BY <1>1, <1>3 DEF Blank
<1> QED  BY <1>2, <1>3

(* Who waits for an entry that t may write waits for a transaction of t.   *)
LEMMA BlankReady ==
    ASSUME CacheInv, NEW t \in Threads, NEW k \in Keys, NEW x \in BOOLEAN, MayExpire(k, x),
           Expiring \intersect TxKeys = {},
           IsNew(cache, k, x) \/ Ns_CacheGetValueT(cache, t, k) # NULL,
           NEW u \in Threads, Blank(cache, k, u)
    PROVE  ~IsNew(cache, k, x) /\ stack[t] # <<>>
<1> DEFINE e == cache.entry[k]
<1>2. TypeInv /\ IsCache(cache) /\ stack \in [Threads -> StackType] /\ stack[t] \in StackType
  BY DEF CacheInv, TypeInv
<1>3. k \in Elems(cache.lru) /\ e.value = NULL  BY DEF Blank
<1>4. KeyOk(k, k \in Elems(cache.lru), e, pc, call, stack)
  BY DEF CacheInv, EntriesInv
<1> HIDE DEF e
<1>5. (e.pending => k \in TxKeys) /\ (e.expires => k \in Expiring)
  BY <1>4 DEF KeyOk
<1>6. ~e.expires
  <2> SUFFICES ASSUME e.expires PROVE FALSE
    BY SMT
  <2>1. ~HasValue(e) /\ ~NoValue(e)  BY <1>3 DEF HasValue, NoValue
  <2>2. Private(e, stack)  BY <1>3, <1>4, <2>1 DEF KeyOk, Computed, Orphan
  <2>3. e.pending  BY <2>2 DEF Private
  <2> QED  BY <1>5, <2>3
<1>7. ~IsNew(cache, k, x)
  BY <1>2, <1>3, <1>6, CacheParts DEF IsNew, MayExpire, e
<1>8. e.epoch \in EpochsIn(stack[t])
  <2>1. Epochs(t) = EpochsIn(stack[t])  BY <1>2, EpochsAre
  <2> QED  BY <1>3, <1>7, <2>1 DEF Ns_CacheGetValueT, e
<1>9. stack[t] # <<>>  BY <1>2, <1>8, NoEpochs
<1> QED  BY <1>7, <1>9

LEMMA KeepsCollide ==
    ASSUME CacheInv, NEW t \in Threads, NEW m, NEW x, MayRun(t, m, x), Collide(t, m, x),
           UNCHANGED <<transactionEpoch, tmp>>
    PROVE  CacheInv' /\ BlankKept(t)
<1> DEFINE k == m.key
<1>1. /\ m \in CallType /\ k \in Keys /\ (stack[t] # <<>> => k \in TxKeys)
      /\ pc[t] \in {"idle", "woken"} /\ x \in BOOLEAN /\ MayExpire(k, x)
  BY DEF MayRun
<1>2. /\ ~IsNew(cache, k, x) /\ cache' = Ns_CacheCreateEntry(cache, k, x) /\ stack' = stack
      /\ pc' = [pc EXCEPT ![t] = "wait"] /\ call' = [call EXCEPT ![t] = m]
  BY DEF Collide
<1>3. TypeInv /\ IsCache(cache)  BY DEF CacheInv, TypeInv
<1>4. pc[t] # "eval" /\ "wait" \in Pcs  BY <1>1, PcFacts
<1>5. \A j : SameEvals(pc, call, pc', call', j)
  BY <1>1, <1>2, <1>3, <1>4, OneThread, PcFacts
<1>6. /\ IsCache(cache') /\ AllOk(cache', pc', call', stack')
      /\ SameStacks(stack, stack') /\ stack' \in [Threads -> StackType]
      /\ MovesTo(cache', k, TRUE, cache.entry[k])
  BY <1>1, <1>2, <1>5, TouchOk
<1>7. CacheInv'  BY <1>1, <1>2, <1>4, <1>6, OneKeeps, PcFacts
<1>8. BlankKept(t)  BY <1>1, <1>3, <1>6, MovesKept DEF Blank
<1> QED  BY <1>7, <1>8

LEMMA KeepsEval ==
    ASSUME CacheInv, NEW t \in Threads, NEW m, NEW x, MayRun(t, m, x), Eval(t, m, x),
           UNCHANGED <<transactionEpoch, tmp>>, Expiring \intersect TxKeys = {}
    PROVE  CacheInv' /\ BlankKept(t)
<1> DEFINE k == m.key
           e == cache.entry[k]
           c == Ns_CacheCreateEntry(cache, k, x)
           y == Fresh(e, x)
<1>1. /\ m \in CallType /\ k \in Keys /\ (stack[t] # <<>> => k \in TxKeys)
      /\ pc[t] \in {"idle", "woken"} /\ x \in BOOLEAN /\ MayExpire(k, x)
  BY DEF MayRun
<1>2. /\ IsNew(cache, k, x) \/ Ns_CacheGetValueT(cache, t, k) # NULL
      /\ \/ IsNew(cache, k, x) /\ StartEval(t, c, k, m)
         \/ ~IsNew(cache, k, x) /\ StartEval(t, Ns_CacheUnsetValue(c, k), k, m)
         \/ ~IsNew(cache, k, x) /\ cache' = c /\ Return(t) /\ stack' = stack
  BY DEF Eval
<1>3. TypeInv /\ IsCache(cache)  BY DEF CacheInv, TypeInv
<1>4. Changed(cache, c, k, TRUE, y)  BY <1>1, <1>3, CreateMoves
<1>5. /\ Ready(y, k, t) /\ \A u \in Threads : ~Evaluates(pc, call, u, k)
      /\ IsNew(cache, k, x) => ~Filled(y)
  BY <1>1, <1>2, Usable
<1>6. pc[t] # "eval"  BY <1>1, PcFacts
<1> HIDE DEF c, y, k
<1>7. ASSUME NEW d, Changed(cache, d, k, TRUE, Cleared(y)), StartEval(t, d, k, m)
      PROVE  CacheInv' /\ BlankKept(t)
  <2> DEFINE z == OwnedBy(Cleared(y), t)
  <2>1. /\ cache' = [d EXCEPT !.entry[k].owner = t] /\ pc' = [pc EXCEPT ![t] = "eval"]
        /\ call' = [call EXCEPT ![t] = m] /\ stack' = stack
    BY <1>7 DEF StartEval
  <2>2. Changed(cache, cache', k, TRUE, z)  BY <1>1, <1>7, <2>1, OwnMoves
  <2>3. MovesTo(cache', k, TRUE, z)  BY <2>2, MovesNone
  <2>4. /\ OthersSame(pc, call, pc', call', k)
        /\ \A u \in Threads : Evaluates(pc', call', u, k) <=> u = t
    BY <1>1, <1>3, <1>5, <1>6, <2>1, OneThread, PcFacts DEF k
  <2>5. KeyOk(k, TRUE, z, pc', call', stack')  BY <1>1, <1>5, <2>1, <2>4, EvalOk
  <2>6. /\ SameStacks(stack, stack') /\ stack' \in [Threads -> StackType]
        /\ MoreTx(stack, stack')
    BY <1>3, <2>1, MoreSame
  <2>7. z.value = NULL /\ z.uncommitted = NULL
    <3>1. y \in EntryType /\ (y.value = NULL \/ y.uncommitted = NULL)
      BY <1>5 DEF Ready
    <3>2. Cleared(y) \in EntryType /\ Cleared(y).value = NULL /\ Cleared(y).uncommitted = NULL
      BY <3>1, ClearedParts
    <3> QED  BY <3>2, OwnedParts
  <2> HIDE DEF z
  <2>8. IsCache(cache') /\ AllOk(cache', pc', call', stack')
    BY <1>1, <2>3, <2>4, <2>5, <2>6, MovesOk
  <2>9. CacheInv'
    BY <1>1, <1>6, <2>1, <2>6, <2>8, OneKeeps, PcFacts DEF k
  <2>10. \A u \in Threads : NULL # u  BY SMT, CacheAssumption
  <2>11. BlankKept(t)  BY <1>1, <1>3, <2>3, <2>7, <2>10, MovesKept
  <2> QED  BY <2>9, <2>11
<1>8. CASE IsNew(cache, k, x) /\ StartEval(t, c, k, m)
  <2>1. y \in EntryType /\ y.value = NULL /\ y.uncommitted = NULL
    BY <1>5, <1>8 DEF Ready, Filled
  <2>2. Cleared(y) = y  BY <2>1, ClearedParts
  <2> QED  BY <1>4, <1>7, <1>8, <2>2
<1>9. CASE StartEval(t, Ns_CacheUnsetValue(c, k), k, m)
  <2>1. Changed(cache, Ns_CacheUnsetValue(c, k), k, TRUE, Cleared(y))
    BY <1>1, <1>4, UnsetMoves
  <2> QED  BY <1>7, <1>9, <2>1
<1>10. CASE ~IsNew(cache, k, x) /\ cache' = c /\ Return(t) /\ stack' = stack
  <2>1. pc' = [pc EXCEPT ![t] = "idle"] /\ call' = [call EXCEPT ![t] = NoCall]
    BY <1>10 DEF Return, NoCall
  <2>2. \A j : SameEvals(pc, call, pc', call', j)
    BY <1>3, <1>6, <2>1, OneThread, PcFacts
  <2>3. /\ IsCache(cache') /\ AllOk(cache', pc', call', stack')
        /\ SameStacks(stack, stack') /\ stack' \in [Threads -> StackType]
        /\ MovesTo(cache', k, TRUE, cache.entry[k])
    BY <1>1, <1>10, <2>2, TouchOk DEF c
  <2>4. CacheInv'  BY <1>6, <1>10, <2>1, <2>3, OneKeeps, PcFacts
  <2>5. BlankKept(t)  BY <1>1, <1>3, <2>3, MovesKept DEF Blank
  <2> QED  BY <2>4, <2>5
<1> QED  BY <1>2, <1>8, <1>9, <1>10 DEF c, k

LEMMA KeepsUpdate ==
    ASSUME CacheInv, NEW t \in Threads, NEW m, NEW x, MayRun(t, m, x), Update(t, m, x),
           UNCHANGED <<transactionEpoch, tmp>>, Expiring \intersect TxKeys = {}
    PROVE  CacheInv' /\ (~TxDrops => BlankKept(t))
<1> DEFINE k == m.key
           c == Ns_CacheCreateEntry(cache, k, x)
           y == Fresh(cache.entry[k], x)
<1>1. /\ m \in CallType /\ k \in Keys /\ (stack[t] # <<>> => k \in TxKeys)
      /\ pc[t] \in {"idle", "woken"} /\ x \in BOOLEAN /\ MayExpire(k, x)
  BY DEF MayRun
<1>2. /\ IsNew(cache, k, x) \/ Ns_CacheGetValueT(cache, t, k) # NULL
      /\ \/ \E n \in Sizes : /\ n > MaxEntry /\ stack[t] # <<>> => TxDrops
                             /\ SetEntry(c, t, k, n)
         \/ ~IsNew(cache, k, x) /\ cache' = c /\ stack' = stack
      /\ Return(t)
  BY DEF Update
<1>3. TypeInv /\ IsCache(cache) /\ stack[t] \in StackType  BY DEF CacheInv, TypeInv
<1>4. Changed(cache, c, k, TRUE, y)  BY <1>1, <1>3, CreateMoves
<1>5. Ready(y, k, t) /\ \A u \in Threads : ~Evaluates(pc, call, u, k)
  BY <1>1, <1>2, Usable
<1>6. pc[t] # "eval"  BY <1>1, PcFacts
<1>7. pc' = [pc EXCEPT ![t] = "idle"] /\ call' = [call EXCEPT ![t] = NoCall]
  BY <1>2 DEF Return, NoCall
<1>8. \A j : SameEvals(pc, call, pc', call', j)
  BY <1>3, <1>6, <1>7, OneThread, PcFacts
<1>9. CASE \E n \in Sizes : /\ n > MaxEntry /\ stack[t] # <<>> => TxDrops
                            /\ SetEntry(c, t, k, n)
  <2>1. PICK n \in Sizes : /\ n > MaxEntry /\ stack[t] # <<>> => TxDrops
                           /\ SetEntry(c, t, k, n)
    BY <1>9
  <2>2. /\ \A u \in Threads : ~Evaluates(pc', call', u, k)
        /\ OthersSame(pc, call, pc', call', k)
    BY <1>5, <1>8 DEF SameEvals, OthersSame
  <2> HIDE DEF c, y, k
  <2>3. /\ IsCache(cache') /\ AllOk(cache', pc', call', stack')
        /\ SameStacks(stack, stack') /\ stack' \in [Threads -> StackType]
        /\ n > MaxEntry => MovesTo(cache', k, FALSE, Newborn)
        /\ ~(n > MaxEntry) => MovesTo(cache', k, TRUE, Stored(y, t, k, n, stack[t]))
    BY <1>1, <1>4, <1>5, <2>1, <2>2, SetEntryOk
  <2>4. CacheInv'  BY <1>6, <1>7, <2>3, OneKeeps, PcFacts
  <2>5. ASSUME ~TxDrops PROVE BlankKept(t)
    <3>1. \A u \in Threads : Blank(cache, k, u) => stack[t] # <<>>
      BY <1>1, <1>2, BlankReady
    <3>2. CASE n > MaxEntry
      <4>1. \A u \in Threads : ~Blank(cache, k, u)  BY <2>1, <2>5, <3>1, <3>2
      <4> QED  BY <1>1, <1>3, <2>3, <3>2, <4>1, MovesKept
    <3>3. CASE ~(n > MaxEntry)
      <4> DEFINE z == Stored(y, t, k, n, stack[t])
      <4>1. StoredAs(z, y, t, k, n, stack[t])
        BY <1>1, <1>3, <1>5, StoredParts DEF Ready
      <4> HIDE DEF z
      <4>2. MovesTo(cache', k, TRUE, z)  BY <2>3, <3>3 DEF z
      <4>3. stack[t] # <<>> => z.value = NULL /\ z.uncommitted = t
        BY <4>1 DEF StoredAs
      <4>4. \A u \in Threads : u # t /\ Blank(cache, k, u) =>
              z.value = NULL /\ z.uncommitted # u
        BY <3>1, <4>3
      <4> QED  BY <1>1, <1>3, <4>2, <4>4, MovesKept
    <3> QED  BY <3>2, <3>3
  <2> QED  BY <2>4, <2>5
<1>10. CASE ~IsNew(cache, k, x) /\ cache' = c /\ stack' = stack
  <2>1. /\ IsCache(cache') /\ AllOk(cache', pc', call', stack')
        /\ SameStacks(stack, stack') /\ stack' \in [Threads -> StackType]
        /\ MovesTo(cache', k, TRUE, cache.entry[k])
    BY <1>1, <1>8, <1>10, TouchOk
  <2>2. CacheInv'  BY <1>6, <1>7, <1>10, <2>1, OneKeeps, PcFacts
  <2>3. BlankKept(t)  BY <1>1, <1>3, <2>1, MovesKept DEF Blank
  <2> QED  BY <2>2, <2>3
<1> QED  BY <1>2, <1>9, <1>10

(* Who waits keeps to wait for an entry without a value, unless it is the  *)
(* thread t that moves.                                                    *)
LEMMA WaitsKept ==
    ASSUME CacheInv, WaitInv, NEW t, BlankKept(t),
           \A u \in Threads : pc'[u] = "wait" =>
             \/ u # t /\ pc[u] = "wait" /\ call'[u] = call[u]
             \/ Blank(cache', call'[u].key, u)
    PROVE  WaitInv'
<1> SUFFICES ASSUME NEW u \in Threads, pc'[u] = "wait" PROVE Blank(cache', call'[u].key, u)
  BY DEF WaitInv, Blank
<1>1. CASE u # t /\ pc[u] = "wait" /\ call'[u] = call[u]
  <2>1. Blank(cache, call[u].key, u)  BY <1>1 DEF WaitInv, Blank
  <2>2. call[u].key \in Keys
    <3>1. pc[u] \in {"wait", "woken", "late", "eval"}  BY <1>1
    <3> QED  BY <3>1 DEF CacheInv, CallInv
  <2> QED  BY <1>1, <2>1, <2>2 DEF BlankKept
<1> QED  BY <1>1

Hyps == ~Racy /\ Expiring \intersect TxKeys = {}

Asks(t, m) ==
    /\ pc[t] \in {"idle", "woken"} /\ m \in CallType /\ m.key \in Keys
    /\ stack[t] # <<>> => m.key \in TxKeys

LEMMA KeepsCreate ==
    ASSUME CacheInv, Hyps, NEW t \in Threads, NEW m, Asks(t, m), CreateEntry(t, m)
    PROVE  CacheInv' /\ (~TxDrops /\ WaitInv => WaitInv')
<1>1. PICK x \in BOOLEAN :
        MayExpire(m.key, x) /\ (Collide(t, m, x) \/ Eval(t, m, x) \/ Update(t, m, x))
  BY DEF CreateEntry
<1>2. UNCHANGED <<transactionEpoch, tmp>> /\ MayRun(t, m, x)
  BY <1>1 DEF CreateEntry, MayRun, Asks
<1>3. /\ TypeInv /\ Expiring \intersect TxKeys = {} /\ pc[t] # "eval"
      /\ m \in CallType /\ m.key \in Keys
  BY PcFacts DEF CacheInv, Hyps, Asks
<1>4. CacheInv' /\ (~TxDrops => BlankKept(t))
  BY <1>1, <1>2, <1>3, KeepsCollide, KeepsEval, KeepsUpdate
<1>5. ASSUME ~TxDrops, WaitInv PROVE WaitInv'
  <2>1. BlankKept(t)  BY <1>4, <1>5
  <2>2. CASE Collide(t, m, x)
    <3> DEFINE k == m.key
               e == cache.entry[k]
    <3>1. /\ ~IsNew(cache, k, x) /\ cache' = Ns_CacheCreateEntry(cache, k, x) /\ stack' = stack
          /\ pc' = [pc EXCEPT ![t] = "wait"] /\ call' = [call EXCEPT ![t] = m]
          /\ Ns_CacheGetValueT(cache, t, k) = NULL
      BY <2>2 DEF Collide
    <3>2. /\ pc'[t] = "wait" /\ call'[t] = m
          /\ \A u \in Threads : u # t => pc'[u] = pc[u] /\ call'[u] = call[u]
      BY <1>3, <3>1, OneThread, PcFacts
    <3>3. ~x /\ Exists(cache, k)  BY <3>1 DEF IsNew
    <3>4. IsCache(cache) /\ stack \in [Threads -> StackType]  BY <1>3 DEF TypeInv
    <3>5. Changed(cache, cache', k, TRUE, Fresh(e, x))
      BY <1>1, <1>3, <3>1, <3>4, CreateMoves
    <3>6. k \in Elems(cache'.lru) /\ cache'.entry[k] = e
      BY <3>3, <3>5 DEF Changed, Fresh
    <3>7. e.value = NULL /\ e.uncommitted # t
      <4>1. e.value = NULL /\ (e.epoch \in Epochs(t) => e.uncommitted = NULL)
        BY <3>1 DEF Ns_CacheGetValueT
      <4>2. Epochs(t) = EpochsIn(stack[t])  BY <3>4, EpochsAre
      <4>3. KeyOk(k, k \in Elems(cache.lru), e, pc, call, stack)
        BY <1>3 DEF CacheInv, EntriesInv
      <4>4. k \in Elems(cache.lru)  BY <3>3, <3>4, CacheParts
      <4>5. NULL # t  BY SMT, CacheAssumption
      <4> HIDE DEF e
      <4>6. HasValue(e) \/ Private(e, stack) \/ NoValue(e)
        BY <4>3, <4>4 DEF KeyOk, Computed, Orphan
      <4>7. CASE Private(e, stack) /\ e.uncommitted = t
        <5>1. Wrote(stack[t], e.epoch)  BY <4>7 DEF Private
        <5>2. e.epoch \in EpochsIn(stack[t])  BY <5>1, WroteIn
        <5> QED  BY <4>1, <4>2, <4>5, <4>7, <5>2
      <4> QED  BY <4>1, <4>5, <4>6, <4>7 DEF HasValue, NoValue
    <3>8. Blank(cache', call'[t].key, t)  BY <3>2, <3>6, <3>7 DEF Blank
    <3>9. \A u \in Threads : pc'[u] = "wait" =>
            \/ u # t /\ pc[u] = "wait" /\ call'[u] = call[u]
            \/ Blank(cache', call'[u].key, u)
      BY <3>2, <3>8
    <3> QED  BY <1>5, <2>1, <3>9, WaitsKept
  <2>3. CASE Eval(t, m, x) \/ Update(t, m, x)
    <3>1. \E v \in {"idle", "eval"}, q \in CallType :
            pc' = [pc EXCEPT ![t] = v] /\ call' = [call EXCEPT ![t] = q]
      <4>1. \/ pc' = [pc EXCEPT ![t] = "idle"] /\ call' = [call EXCEPT ![t] = NoCall]
            \/ pc' = [pc EXCEPT ![t] = "eval"] /\ call' = [call EXCEPT ![t] = m]
        BY <2>3 DEF Eval, Update, StartEval, Return, NoCall
      <4> QED  BY <1>3, <4>1, PcFacts
    <3>2. PICK v \in {"idle", "eval"}, q \in CallType :
            pc' = [pc EXCEPT ![t] = v] /\ call' = [call EXCEPT ![t] = q]
      BY <3>1
    <3>3. v \in Pcs /\ v # "wait"  BY PcFacts
    <3>4. /\ pc'[t] = v
          /\ \A u \in Threads : u # t => pc'[u] = pc[u] /\ call'[u] = call[u]
      BY <1>3, <3>2, <3>3, OneThread
    <3>5. \A u \in Threads : pc'[u] = "wait" =>
            \/ u # t /\ pc[u] = "wait" /\ call'[u] = call[u]
            \/ Blank(cache', call'[u].key, u)
      BY <3>3, <3>4
    <3> QED  BY <1>5, <2>1, <3>5, WaitsKept
  <2> QED  BY <1>1, <2>2, <2>3
<1> QED  BY <1>4, <1>5
=============================================================================
