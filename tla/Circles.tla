------------------------------ MODULE Circles ------------------------------
(***************************************************************************)
(* Circular lists: what a function next that leads from an element to the  *)
(* one behind it does on a set, and the step that inserts.                 *)
(*                                                                         *)
(* A set is one circle if next stays in it and stays in no part of it.     *)
(* This says nothing of the order, needs no recursion, and so is easy to   *)
(* keep; that a walk of so many steps meets every element follows from it  *)
(* once, in CircleWalk.                                                    *)
(***************************************************************************)
EXTENDS Integers, FiniteSetTheorems, WellFoundedInduction, TLAPS

Closed(next, S) == \A x \in S : next[x] \in S

Circle(next, S) ==
  /\ Closed(next, S)
  /\ \A T \in SUBSET S : T # {} /\ Closed(next, T) => T = S

-----------------------------------------------------------------------------
\* Induction over the numbers up to a bound, for a set of them.
LEMMA UpTo ==
  ASSUME NEW N \in Nat, NEW T, 0 \in T,
         \A n \in 0..(N - 1) : n \in T => n + 1 \in T
  PROVE  0..N \subseteq T
<1> DEFINE Out == (0..N) \ T
<1>1. SUFFICES ASSUME Out # {} PROVE FALSE
  OBVIOUS
<1>2. Out \subseteq Nat
  OBVIOUS
<1>3. PICK m \in Out : \A k \in Out : ~(<<k, m>> \in OpToRel(<, Nat))
  BY <1>1, <1>2, NatLessThanWellFounded, WFMin
<1>4. m \in Nat /\ m <= N /\ m # 0
  OBVIOUS
<1>5. m - 1 \in 0..(N - 1) /\ m - 1 \in Nat /\ m - 1 < m /\ m - 1 + 1 = m
  BY <1>4
<1>6. m - 1 \notin T
  BY <1>5
<1>7. m - 1 \in Out
  BY <1>5, <1>6
<1>8. <<m - 1, m>> \in OpToRel(<, Nat)
  BY <1>4, <1>5 DEF OpToRel
<1> QED
  BY <1>3, <1>7, <1>8

-----------------------------------------------------------------------------
(* Lists of one and of no element; lists that a step leaves alone *)

\* A list of no element.
LEMMA CircleOfNone == ASSUME NEW next PROVE Circle(next, {})
BY DEF Circle, Closed

\* A list of one.
LEMMA CircleOfOne ==
  ASSUME NEW next, NEW x, next[x] = x
  PROVE  Circle(next, {x})
BY DEF Circle, Closed

\* A step that leaves the elements' links alone.
LEMMA CircleKept ==
  ASSUME NEW next, NEW next2, NEW S, Circle(next, S),
         \A x \in S : next2[x] = next[x]
  PROVE  Circle(next2, S)
<1>1. Closed(next2, S)
  BY DEF Circle, Closed
<1>2. ASSUME NEW T \in SUBSET S, T # {}, Closed(next2, T)
      PROVE  T = S
  <2>1. Closed(next, T)
    BY <1>2 DEF Closed
  <2> QED
    BY <1>2, <2>1 DEF Circle
<1> QED
  BY <1>1, <1>2 DEF Circle

-----------------------------------------------------------------------------
(* Inserting *)

\* x is put behind list.
LEMMA CircleInsert ==
  ASSUME NEW next, NEW next2, NEW S, Circle(next, S), NEW list \in S, NEW x, x \notin S,
         next2[x] = next[list], next2[list] = x,
         \A y \in S \ {list} : next2[y] = next[y]
  PROVE  Circle(next2, S \union {x})
<1>1. \A y \in S : next[y] \in S
  BY DEF Circle, Closed
<1>2. Closed(next2, S \union {x})
  BY <1>1 DEF Closed
<1>3. ASSUME NEW T \in SUBSET (S \union {x}), T # {}, Closed(next2, T)
      PROVE  T = S \union {x}
  <2>1. \A y \in T : next2[y] \in T
    BY <1>3 DEF Closed
  <2>2. T \ {x} # {}
    BY <1>1, <1>3, <2>1
  <2>3. ASSUME NEW y \in T \ {x} PROVE next[y] \in T \ {x}
    <3>1. next[y] \in S /\ next[y] # x
      BY <1>1
    <3>2. CASE y = list
      BY <2>1, <3>1, <3>2
    <3>3. CASE y # list
      BY <2>1, <3>1, <3>3
    <3> QED
      BY <3>2, <3>3
  <2>4. T \ {x} = S
    <3>1. T \ {x} \in SUBSET S /\ Closed(next, T \ {x})
      BY <2>3 DEF Closed
    <3> QED
      BY <2>2, <3>1 DEF Circle
  <2>5. list \in T /\ x \in T
    BY <2>1, <2>4
  <2> QED
    BY <2>4, <2>5
<1> QED
  BY <1>2, <1>3 DEF Circle

-----------------------------------------------------------------------------
(* Walks *)

\* A walk that starts in the list stays in it.
LEMMA WalkStays ==
  ASSUME NEW next, NEW S, Closed(next, S), NEW N \in Nat, NEW at, at[0] \in S,
         \A n \in 0..(N - 1) : at[n] \in S => at[n + 1] = next[at[n]]
  PROVE  \A n \in 0..N : at[n] \in S
<1> DEFINE T == {n \in 0..N : at[n] \in S}
<1>1. 0 \in T
  OBVIOUS
<1>2. ASSUME NEW n \in 0..(N - 1), n \in T PROVE n + 1 \in T
  <2>1. n + 1 \in 0..N
    OBVIOUS
  <2>2. at[n] \in S
    BY <1>2
  <2>3. at[n + 1] \in S
    BY <2>2 DEF Closed
  <2> QED
    BY <2>1, <2>3
<1>3. 0..N \subseteq T
  <2> HIDE DEF T
  <2> QED
    BY <1>1, <1>2, UpTo
<1> QED
  BY <1>3

\* A walk that is long enough meets every element, and its first one again.
LEMMA CircleWalk ==
  ASSUME NEW next, NEW S, IsFiniteSet(S), Circle(next, S),
         NEW N \in Nat, Cardinality(S) <= N, NEW at, at[0] \in S,
         \A n \in 0..(N - 1) : at[n] \in S => at[n + 1] = next[at[n]]
  PROVE  /\ \A n \in 0..N : at[n] \in S
         /\ \A x \in S : \E n \in 1..N : at[n] = x
<1>1. Closed(next, S)
  BY DEF Circle
<1>2. \A n \in 0..N : at[n] \in S
  BY <1>1, WalkStays
<1>3. PICK i, j \in 0..N : i < j /\ at[i] = at[j]
  <2> DEFINE f == [n \in 0..N |-> at[n]]
  <2>1. f \in [0..N -> S]
    BY <1>2
  <2>2. IsFiniteSet(0..N) /\ Cardinality(0..N) = N + 1
    BY FS_Interval
  <2>3. Cardinality(S) < Cardinality(0..N)
    BY <2>2, FS_CardinalityType
  <2>4. \E x, y \in 0..N : x # y /\ f[x] = f[y]
    <3> HIDE DEF f
    <3> QED
      BY <2>1, <2>2, <2>3, FS_PigeonHole
  <2> QED
    BY <2>4
<1> DEFINE T == {at[n] : n \in 1..j}
<1>4. T # {} /\ T \in SUBSET S
  BY <1>2, <1>3
<1>5. ASSUME NEW n \in 1..j PROVE next[at[n]] \in T
  <2>1. CASE n = j
    <3>1. i \in 0..(N - 1) /\ i + 1 \in 1..j
      BY <1>3
    <3>2. next[at[j]] = at[i + 1]
      BY <1>2, <1>3, <3>1
    <3> QED
      BY <2>1, <3>1, <3>2
  <2>2. CASE n # j
    <3>1. n \in 0..(N - 1) /\ n \in 0..N /\ n + 1 \in 1..j
      BY <1>3, <2>2
    <3>2. next[at[n]] = at[n + 1]
      BY <1>2, <3>1
    <3> QED
      BY <3>1, <3>2
  <2> QED
    BY <2>1, <2>2
<1>6. T = S
  <2>1. Closed(next, T)
    BY <1>5 DEF Closed
  <2> QED
    BY <1>4, <2>1 DEF Circle
<1>7. \A n \in 1..j : n \in 1..N
  BY <1>3
<1> QED
  BY <1>2, <1>6, <1>7

-----------------------------------------------------------------------------
(* Walks as sequences *)

\* s lists the k elements that are met from b.
Follows(next, b, k, s) ==
  /\ s = [n \in 1..k |-> s[n]]
  /\ k > 0 => s[1] = b
  /\ \A n \in 1..(k - 1) : s[n + 1] = next[s[n]]

\* There is one such list only.
LEMMA FollowsSame ==
  ASSUME NEW next, NEW b, NEW k \in Nat, NEW s, NEW t,
         Follows(next, b, k, s), Follows(next, b, k, t)
  PROVE  s = t
<1>1. CASE k = 0
  BY <1>1 DEF Follows
<1>2. CASE k # 0
  <2> DEFINE N == k - 1
             T == {n \in 0..N : s[n + 1] = t[n + 1]}
  <2>1. N \in Nat
    BY <1>2
  <2>2. 0 \in T
    BY <1>2 DEF Follows
  <2>3. ASSUME NEW n \in 0..(N - 1), n \in T PROVE n + 1 \in T
    <3>1. n + 1 \in 1..(k - 1) /\ n + 1 \in 0..N
      BY <1>2
    <3>2. s[n + 1] = t[n + 1]
      BY <2>3
    <3>3. s[n + 1 + 1] = next[s[n + 1]] /\ t[n + 1 + 1] = next[t[n + 1]]
      BY <3>1 DEF Follows
    <3> QED
      BY <3>1, <3>2, <3>3
  <2>4. 0..N \subseteq T
    <3> HIDE DEF T, N
    <3> QED
      BY <2>1, <2>2, <2>3, UpTo
  <2>5. ASSUME NEW n \in 1..k PROVE s[n] = t[n]
    <3>1. n - 1 \in 0..N /\ n - 1 + 1 = n
      OBVIOUS
    <3>2. n - 1 \in T
      BY <2>4, <3>1
    <3> QED
      BY <3>1, <3>2
  <2>6. /\ s = [n \in 1..k |-> s[n]]
        /\ t = [n \in 1..k |-> t[n]]
    BY DEF Follows
  <2> QED
    BY <2>5, <2>6
<1> QED
  BY <1>1, <1>2

\* The elements met in as many steps as a circle has elements are all of them,
\* each once, and the next one is the first again.
LEMMA CircleRound ==
  ASSUME NEW next, NEW S, IsFiniteSet(S), Circle(next, S), NEW b \in S,
         NEW k \in Nat, k = Cardinality(S), NEW s, Follows(next, b, k, s)
  PROVE  /\ k > 0 /\ next[s[k]] = b
         /\ \A n \in 1..k : s[n] \in S
         /\ \A x \in S : \E n \in 1..k : s[n] = x
         /\ \A m, n \in 1..k : s[m] = s[n] => m = n
<1>1. k > 0
  BY FS_EmptySet, FS_CardinalityType
<1> DEFINE at == [n \in 0..k |-> IF n = k THEN next[s[k]] ELSE s[n + 1]]
<1>2. at[0] = b
  BY <1>1 DEF Follows
<1>3. ASSUME NEW n \in 0..(k - 1) PROVE at[n + 1] = next[at[n]]
  <2>1. at[n] = s[n + 1] /\ n + 1 \in 0..k
    BY <1>1
  <2>2. CASE n = k - 1
    BY <2>1, <2>2
  <2>3. CASE n # k - 1
    <3>1. n + 1 \in 1..(k - 1) /\ n + 1 # k
      BY <2>3
    <3>2. at[n + 1] = s[n + 1 + 1]
      BY <2>1, <3>1
    <3>3. s[n + 1 + 1] = next[s[n + 1]]
      BY <3>1 DEF Follows
    <3> QED
      BY <2>1, <3>2, <3>3
  <2> QED
    BY <2>2, <2>3
<1>4. \A n \in 1..k : at[n - 1] = s[n] /\ n - 1 \in 0..(k - 1)
  OBVIOUS
<1>5. at[k] = next[s[k]]
  OBVIOUS
<1> HIDE DEF at
<1>6. (\A n \in 0..k : at[n] \in S) /\ \A x \in S : \E n \in 1..k : at[n] = x
  BY <1>2, <1>3, CircleWalk
<1>7. PICK m \in 1..k : at[m] = b
  BY <1>6
<1> DEFINE f == [n \in 0..(m - 1) |-> at[n]]
           T == {at[n] : n \in 0..(m - 1)}
<1>8. T = S
  <2>1. T \in SUBSET S /\ T # {}
    BY <1>6
  <2>2. ASSUME NEW n \in 0..(m - 1) PROVE next[at[n]] \in T
    <3>1. next[at[n]] = at[n + 1]
      BY <1>3
    <3>2. CASE n = m - 1
      BY <1>2, <1>7, <3>1, <3>2
    <3>3. CASE n # m - 1
      BY <3>1, <3>3
    <3> QED
      BY <3>2, <3>3
  <2>3. Closed(next, T)
    BY <2>2 DEF Closed
  <2> QED
    BY <2>1, <2>3 DEF Circle
<1>9. f \in Surjection(0..(m - 1), S)
  BY <1>8 DEF Surjection
<1>10. IsFiniteSet(0..(m - 1)) /\ Cardinality(0..(m - 1)) = m
  <2>1. m - 1 \in Int /\ 0 \in Int /\ 0 <= m - 1 /\ m - 1 - 0 + 1 = m
    OBVIOUS
  <2>2. /\ IsFiniteSet(0..(m - 1))
        /\ Cardinality(0..(m - 1)) = IF 0 > m - 1 THEN 0 ELSE m - 1 - 0 + 1
    BY ONLY <2>1, FS_Interval
  <2> QED
    BY <2>1, <2>2
<1>11. k <= m /\ (k = m <=> f \in Injection(0..(m - 1), S))
  <2> HIDE DEF f
  <2> QED
    BY <1>9, <1>10, FS_Surjection
<1>12. k = m /\ \A i, j \in 0..(m - 1) : at[i] = at[j] => i = j
  <2>1. k = m
    BY <1>11
  <2>2. \A i, j \in 0..(m - 1) : f[i] = f[j] => i = j
    <3> HIDE DEF f
    <3> QED
      BY <1>9, <1>11, <2>1 DEF Injection, IsInjective, Surjection
  <2> QED
    BY <2>1, <2>2
<1>13. next[s[k]] = b
  BY <1>5, <1>7, <1>12
<1>14. \A n \in 1..k : s[n] \in S
  BY <1>4, <1>6
<1>15. ASSUME NEW x \in S PROVE \E n \in 1..k : s[n] = x
  <2>1. PICK n \in 0..(m - 1) : at[n] = x
    BY <1>8
  <2>2. n + 1 \in 1..k /\ n + 1 - 1 = n
    BY <1>12
  <2> QED
    BY <1>4, <2>1, <2>2
<1>16. ASSUME NEW i \in 1..k, NEW j \in 1..k, s[i] = s[j] PROVE i = j
  <2>1. at[i - 1] = at[j - 1] /\ i - 1 \in 0..(m - 1) /\ j - 1 \in 0..(m - 1)
    BY <1>4, <1>12, <1>16
  <2> QED
    BY <1>12, <2>1
<1> QED
  BY <1>1, <1>13, <1>14, <1>15, <1>16
=============================================================================
