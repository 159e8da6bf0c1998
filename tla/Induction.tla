------------------------------ MODULE Induction ------------------------------
(***************************************************************************)
(* Induction over numbers for sets instead of predicates: the induction    *)
(* theorems of the library take an operator, which first-order provers     *)
(* cannot instantiate; a set they can.  With it what a recursive function  *)
(* yields can be proved for every argument.                                *)
(***************************************************************************)
EXTENDS Integers, Sequences, FiniteSetTheorems, TLAPS

(* A set that has 0 and with each number the next one has all numbers.     *)
(* The numbers up to n that it has not would be as many as those up to     *)
(* n - 1 that it has not: the predecessor of a missing number is missing.  *)
LEMMA NatSetInduction ==
  ASSUME NEW P, 0 \in P, \A n \in Nat : n \in P => n + 1 \in P
  PROVE  Nat \subseteq P
<1> SUFFICES ASSUME NEW n \in Nat, n \notin P PROVE FALSE
  OBVIOUS
<1> DEFINE N == (0 .. n) \ P
           s == [x \in N |-> x - 1]
<1>1. IsFiniteSet(N) /\ n \in N
  <2>1. IsFiniteSet(0 .. n)
    BY FS_Interval
  <2> QED
    BY <2>1, FS_Subset
<1>2. s \in Injection(N, N \ {n})
  BY DEF Injection, IsInjective
<1> HIDE DEF N, s
<1>3. IsFiniteSet(N \ {n}) /\ Cardinality(N \ {n}) = Cardinality(N) - 1
  BY <1>1, FS_RemoveElement
<1>4. Cardinality(N) \in Nat
  BY <1>1, FS_CardinalityType
<1>5. Cardinality(N) <= Cardinality(N \ {n})
  BY <1>1, <1>2, <1>3, FS_Injection
<1> QED
  BY <1>3, <1>4, <1>5

(* The same for the numbers up to k. *)
LEMMA UpToInduction ==
  ASSUME NEW k \in Nat, NEW P,
         0 \in P, \A i \in 0 .. k - 1 : i \in P => i + 1 \in P
  PROVE  0 .. k \subseteq P
<1> DEFINE Q == P \cup {i \in Nat : i > k}
<1>1. 0 \in Q /\ \A n \in Nat : n \in Q => n + 1 \in Q
  OBVIOUS
<1> HIDE DEF Q
<1>2. Nat \subseteq Q
  BY <1>1, NatSetInduction
<1> QED
  BY <1>2 DEF Q

(* Downward: a property of k that goes from each number to the one before. *)
LEMMA DownInduction ==
  ASSUME NEW k \in Nat, NEW P,
         k \in P, \A i \in 1 .. k : i \in P => i - 1 \in P
  PROVE  0 .. k \subseteq P
<1> DEFINE Q == {j \in 0 .. k : k - j \in P}
<1>1. 0 \in Q /\ \A j \in 0 .. k - 1 : j \in Q => j + 1 \in Q
  <2>1. 0 \in Q
    OBVIOUS
  <2>2. ASSUME NEW j \in 0 .. k - 1, j \in Q PROVE j + 1 \in Q
    <3>1. k - j \in 1 .. k /\ k - j \in P
      BY <2>2
    <3>2. (k - j) - 1 \in P
      BY <3>1
    <3>3. (k - j) - 1 = k - (j + 1) /\ j + 1 \in 0 .. k
      OBVIOUS
    <3> QED
      BY <3>2, <3>3
  <2> QED
    BY <2>1, <2>2
<1> HIDE DEF Q
<1>2. 0 .. k \subseteq Q
  BY <1>1, UpToInduction
<1>3. ASSUME NEW i \in 0 .. k PROVE i \in P
  <2>1. k - i \in Q
    BY <1>2
  <2>2. k - (k - i) \in P
    BY <2>1 DEF Q
  <2> QED
    BY <2>2
<1> QED
  BY <1>3

(* Every set of numbers that has one has a least one. *)
LEMMA NatLeast ==
  ASSUME NEW T \in SUBSET Nat, T # {}
  PROVE  \E x \in T : \A y \in T : x <= y
<1> SUFFICES ASSUME \A x \in T : \E y \in T : y < x PROVE FALSE
  OBVIOUS
<1> DEFINE P == {n \in Nat : \A y \in T : n <= y}
<1>1. 0 \in P
  OBVIOUS
<1>2. ASSUME NEW n \in Nat, n \in P PROVE n + 1 \in P
  <2>1. n \notin T
    BY <1>2
  <2> QED
    BY <1>2, <2>1
<1> HIDE DEF P
<1>3. Nat \subseteq P
  BY <1>1, <1>2, NatSetInduction
<1>4. PICK x \in T : TRUE
  OBVIOUS
<1>5. x + 1 \in P
  BY <1>3, <1>4
<1> QED
  BY <1>4, <1>5 DEF P

(* And a bounded one has a greatest one. *)
LEMMA NatGreatest ==
  ASSUME NEW T \in SUBSET Nat, T # {}, NEW b \in Nat, \A x \in T : x <= b
  PROVE  \E x \in T : \A y \in T : y <= x
<1> DEFINE U == {b - x : x \in T}
<1>1. U \in SUBSET Nat /\ U # {}
  <2>1. \A x \in T : b - x \in Nat
    OBVIOUS
  <2> QED
    BY <2>1
<1>2. \E u \in U : \A v \in U : u <= v
  <2> HIDE DEF U
  <2> QED
    BY <1>1, NatLeast
<1>3. PICK x \in T : \A y \in T : b - x <= b - y
  BY <1>2
<1> QED
  BY <1>3

(* w begins at x and goes on as ptr says, k times. *)
Iteration(ptr, x, k, w) == w = [i \in 0 .. k |-> IF i = 0 THEN x ELSE ptr[w[i - 1]]]

(* There is such a function: what TLA+ chooses for a definition of this    *)
(* form is as it is written.                                               *)
LEMMA IterationExists ==
  ASSUME NEW ptr, NEW x, NEW k \in Nat
  PROVE  \E w : Iteration(ptr, x, k, w)
<1> USE DEF Iteration
<1> DEFINE P == {n \in Nat : \E w : w = [i \in 0 .. n |-> IF i = 0 THEN x ELSE ptr[w[i - 1]]]}
<1>1. 0 \in P
  <2> DEFINE w == [i \in 0 .. 0 |-> x]
  <2>1. w = [i \in 0 .. 0 |-> IF i = 0 THEN x ELSE ptr[w[i - 1]]]
    OBVIOUS
  <2> QED
    BY <2>1
<1>2. ASSUME NEW n \in Nat, n \in P PROVE n + 1 \in P
  <2>1. PICK w : w = [i \in 0 .. n |-> IF i = 0 THEN x ELSE ptr[w[i - 1]]]
    BY <1>2
  <2> DEFINE v == [i \in 0 .. n + 1 |-> IF i <= n THEN w[i] ELSE ptr[w[n]]]
  <2>2. ASSUME NEW i \in 0 .. n + 1
        PROVE  v[i] = IF i = 0 THEN x ELSE ptr[v[i - 1]]
    <3>1. CASE i <= n
      <4>1. v[i] = w[i] /\ w[i] = IF i = 0 THEN x ELSE ptr[w[i - 1]]
        BY <2>1, <3>1
      <4>2. i # 0 => v[i - 1] = w[i - 1]
        BY <3>1
      <4> QED
        BY <4>1, <4>2
    <3>2. CASE i = n + 1
      <4>1. v[i] = ptr[w[n]] /\ v[i - 1] = w[n] /\ i # 0
        BY <3>2
      <4> QED
        BY <4>1
    <3> QED
      BY <3>1, <3>2
  <2>3. v = [i \in 0 .. n + 1 |-> IF i = 0 THEN x ELSE ptr[v[i - 1]]]
    BY <2>2
  <2> HIDE DEF v
  <2> QED
    BY <2>3
<1> HIDE DEF P
<1>3. k \in P
  BY <1>1, <1>2, NatSetInduction
<1> QED
  BY <1>3 DEF P

(* Two sequences that begin alike and go on alike are alike. *)
LEMMA IterationUnique ==
  ASSUME NEW ptr, NEW k \in Nat, NEW v, NEW w, v[0] = w[0],
         \A i \in 1 .. k : v[i] = ptr[v[i - 1]] /\ w[i] = ptr[w[i - 1]]
  PROVE  \A i \in 0 .. k : v[i] = w[i]
<1> DEFINE P == {i \in 0 .. k : v[i] = w[i]}
<1>1. 0 \in P
  OBVIOUS
<1>2. ASSUME NEW i \in 0 .. k - 1, i \in P PROVE i + 1 \in P
  <2>1. i + 1 \in 1 .. k /\ (i + 1) - 1 = i /\ v[i] = w[i]
    BY <1>2
  <2>2. v[i + 1] = ptr[v[(i + 1) - 1]] /\ w[i + 1] = ptr[w[(i + 1) - 1]]
    BY <2>1
  <2> QED
    BY <2>1, <2>2
<1> HIDE DEF P
<1>3. 0 .. k \subseteq P
  BY <1>1, <1>2, UpToInduction
<1> QED
  BY <1>3 DEF P

(* A function on 1 .. n is a sequence of n members. *)
LEMMA SeqOfFunction ==
  ASSUME NEW S, NEW n \in Nat, NEW f \in [1 .. n -> S]
  PROVE  f \in Seq(S) /\ Len(f) = n
OBVIOUS

(* The same when the step depends on the number too, within a set V: there *)
(* is a function that begins at x and goes on as step says, k times.       *)
Recursion(step, x, k, w) ==
  w = [i \in 0 .. k |-> IF i = 0 THEN x ELSE step[i][w[i - 1]]]

LEMMA RecursionExists ==
  ASSUME NEW k \in Nat, NEW V, NEW x \in V, NEW step \in [1 .. k -> [V -> V]]
  PROVE  \E w \in [0 .. k -> V] : Recursion(step, x, k, w)
<1> DEFINE P == {n \in 0 .. k : \E w \in [0 .. n -> V] : Recursion(step, x, n, w)}
<1>1. 0 \in P
  <2> DEFINE w == [i \in 0 .. 0 |-> x]
  <2>1. w \in [0 .. 0 -> V] /\ w = [i \in 0 .. 0 |-> IF i = 0 THEN x ELSE step[i][w[i - 1]]]
    OBVIOUS
  <2> HIDE DEF w
  <2>2. Recursion(step, x, 0, w)
    BY <2>1 DEF Recursion
  <2> QED
    BY <2>1, <2>2
<1>2. ASSUME NEW n \in 0 .. k - 1, n \in P PROVE n + 1 \in P
  <2>0. PICK w \in [0 .. n -> V] : Recursion(step, x, n, w)
    BY <1>2
  <2>1. w = [i \in 0 .. n |-> IF i = 0 THEN x ELSE step[i][w[i - 1]]]
    BY <2>0 DEF Recursion
  <2> DEFINE v == [i \in 0 .. n + 1 |-> IF i <= n THEN w[i] ELSE step[n + 1][w[n]]]
  <2>2. step[n + 1][w[n]] \in V
    <3>1. n + 1 \in 1 .. k /\ n \in 0 .. n
      OBVIOUS
    <3> QED
      BY <3>1
  <2>3. v \in [0 .. n + 1 -> V]
    BY <2>2
  <2>4. ASSUME NEW i \in 0 .. n + 1
        PROVE  v[i] = IF i = 0 THEN x ELSE step[i][v[i - 1]]
    <3>1. CASE i <= n
      <4>1. v[i] = w[i] /\ w[i] = IF i = 0 THEN x ELSE step[i][w[i - 1]]
        BY <2>1, <3>1
      <4>2. i # 0 => v[i - 1] = w[i - 1]
        BY <3>1
      <4> QED
        BY <4>1, <4>2
    <3>2. CASE i = n + 1
      <4>1. v[i] = step[i][w[n]] /\ v[i - 1] = w[n] /\ i # 0
        BY <3>2
      <4> QED
        BY <4>1
    <3> QED
      BY <3>1, <3>2
  <2>5. v = [i \in 0 .. n + 1 |-> IF i = 0 THEN x ELSE step[i][v[i - 1]]]
    BY <2>4
  <2> HIDE DEF v
  <2>6. Recursion(step, x, n + 1, v)
    BY <2>5 DEF Recursion
  <2>7. n + 1 \in 0 .. k
    OBVIOUS
  <2> QED
    BY <2>3, <2>6, <2>7
<1> HIDE DEF P
<1>3. 0 .. k \subseteq P
  BY <1>1, <1>2, UpToInduction
<1> QED
  BY <1>3 DEF P
=============================================================================
