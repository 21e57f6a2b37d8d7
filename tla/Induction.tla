------------------------------ MODULE Induction ------------------------------
(***************************************************************************)
(* Induction and recursion over intervals of the integers, stated for sets *)
(* and functions instead of predicates and operators, so that every prover *)
(* can instantiate them.                                                   *)
(***************************************************************************)
EXTENDS Integers, FiniteSetTheorems, WellFoundedInduction, TLAPS

\* A set with 0 that is closed under + 1 has every natural number: the least one that
\* it lacked would be the successor of one that it has.
LEMMA SetInduction ==
  ASSUME NEW S, 0 \in S, \A n \in Nat : n \in S => n + 1 \in S
  PROVE  Nat \subseteq S
<1>1. SUFFICES ASSUME Nat \ S # {} PROVE FALSE
  OBVIOUS
<1>2. PICK n \in Nat \ S : \A m \in Nat \ S : ~ (<<m, n>> \in OpToRel(<, Nat))
  BY <1>1, NatLessThanWellFounded, WFMin
<1>3. \A m \in Nat : m < n => m \in S
  BY <1>2 DEF OpToRel
<1>4. CASE n = 0
  BY <1>4
<1>5. CASE n # 0
  <2>1. n - 1 \in Nat /\ n - 1 < n /\ (n - 1) + 1 = n
    BY <1>5
  <2> QED BY <1>3, <2>1
<1> QED BY <1>4, <1>5

\* Over M..N, for a function whose values are to be in sets.
LEMMA TypeInduction ==
  ASSUME NEW M \in Int, NEW N \in Int, NEW T, NEW f, f[M] \in T[M],
         \A n \in M..N : n > M /\ f[n - 1] \in T[n - 1] => f[n] \in T[n]
  PROVE  \A n \in M..N : f[n] \in T[n]
<1> DEFINE S == {k \in Nat : M + k <= N => f[M + k] \in T[M + k]}
<1>1. 0 \in S
  <2>1. M + 0 = M
    OBVIOUS
  <2> QED BY <2>1
<1>2. ASSUME NEW k \in Nat, k \in S PROVE k + 1 \in S
  <2> SUFFICES ASSUME M + (k + 1) <= N PROVE f[M + (k + 1)] \in T[M + (k + 1)]
    OBVIOUS
  <2>1. /\ M + (k + 1) \in M..N /\ M + (k + 1) > M /\ (M + (k + 1)) - 1 = M + k
        /\ f[M + k] \in T[M + k]
    BY <1>2
  <2> QED BY <2>1
<1> HIDE DEF S
<1>3. Nat \subseteq S
  BY <1>1, <1>2, SetInduction
<1>4. ASSUME NEW n \in M..N PROVE f[n] \in T[n]
  <2>1. n - M \in S /\ M + (n - M) = n /\ n <= N
    BY <1>3
  <2> QED BY <2>1 DEF S
<1> QED BY <1>4

\* step[n] leads from the set T[n - 1] to the set T[n].
Steps(step, T, M, N) == \A n \in M..N : n > M => step[n] \in [T[n - 1] -> T[n]]

\* f starts from base and takes the steps, and its values are in the sets.
Follows(f, base, step, T, M, N) ==
  /\ f[M] = base
  /\ \A n \in M..N : n > M => f[n] = step[n][f[n - 1]]
  /\ \A n \in M..N : f[n] \in T[n]

\* A function defined by recursion over M..N exists, each value in the set that its step
\* leads to.
LEMMA Recursion ==
  ASSUME NEW M \in Int, NEW N \in Int, NEW T, NEW base \in T[M], NEW step,
         Steps(step, T, M, N)
  PROVE  \E f : Follows(f, base, step, T, M, N)
<1> DEFINE Is(f, k) == \A n \in M..(M + k) : f[n] = IF n = M THEN base ELSE step[n][f[n - 1]]
           Typed(f, k) == \A n \in M..(M + k) : f[n] \in T[n]
           S == {k \in Nat : M + k <= N => \E f : Is(f, k) /\ Typed(f, k)}
<1>1. 0 \in S
  <2> DEFINE g == [i \in {M} |-> base]
  <2>1. \A n \in M..(M + 0) : n = M
    OBVIOUS
  <2>2. Is(g, 0) /\ Typed(g, 0)
    BY <2>1
  <2> QED BY <2>2
<1>2. ASSUME NEW k \in Nat, k \in S PROVE k + 1 \in S
  <2> SUFFICES ASSUME M + (k + 1) <= N
               PROVE  \E f : Is(f, k + 1) /\ Typed(f, k + 1)
    OBVIOUS
  <2> DEFINE new == M + (k + 1)
  <2>1. PICK f : Is(f, k) /\ Typed(f, k)
    BY <1>2
  <2>2. /\ new \in M..N /\ new > M /\ new - 1 \in M..(M + k)
        /\ M..(M + (k + 1)) = (M..(M + k)) \cup {new} /\ new \notin M..(M + k)
    OBVIOUS
  <2> HIDE DEF new
  <2> DEFINE g == [i \in M..(M + (k + 1)) |-> IF i = new THEN step[new][f[new - 1]] ELSE f[i]]
  <2>3. step[new] \in [T[new - 1] -> T[new]] /\ f[new - 1] \in T[new - 1]
    BY <2>1, <2>2 DEF Steps
  <2>4. step[new][f[new - 1]] \in T[new]
    BY <2>3
  <2>5. \A n \in M..(M + k) : g[n] = f[n]
    BY <2>2
  <2>6. g[new] = step[new][f[new - 1]]
    BY <2>2
  <2> HIDE DEF g
  <2>7. Is(g, k + 1)
    <3> SUFFICES ASSUME NEW n \in M..(M + (k + 1))
                 PROVE  g[n] = IF n = M THEN base ELSE step[n][g[n - 1]]
      OBVIOUS
    <3>1. CASE n = new
      <4>1. n # M
        BY <2>2, <3>1
      <4> QED BY <2>2, <2>5, <2>6, <3>1, <4>1
    <3>2. CASE n # new
      <4>1. n \in M..(M + k) /\ (n # M => n - 1 \in M..(M + k))
        BY <2>2, <3>2
      <4> QED BY <2>1, <2>5, <4>1
    <3> QED BY <3>1, <3>2
  <2>8. Typed(g, k + 1)
    BY <2>1, <2>2, <2>4, <2>5, <2>6
  <2> QED BY <2>7, <2>8
<1> HIDE DEF S
<1>3. Nat \subseteq S
  BY <1>1, <1>2, SetInduction
<1>4. PICK k \in Nat : M + k = N \/ (N < M /\ k = 0)
  <2>1. CASE N < M
    BY <2>1
  <2>2. CASE ~ (N < M)
    <3>1. N - M \in Nat /\ M + (N - M) = N
      BY <2>2
    <3> QED BY <3>1
  <2> QED BY <2>1, <2>2
<1>5. CASE M + k = N
  <2>1. k \in S
    BY <1>3
  <2>2. \E f : Is(f, k) /\ Typed(f, k)
    BY <1>5, <2>1 DEF S
  <2>3. PICK f : Is(f, k) /\ Typed(f, k)
    BY <2>2
  <2>4. f[M] = base
    BY <2>3
  <2>5. \A n \in M..N : n > M => f[n] = step[n][f[n - 1]]
    BY <1>5, <2>3
  <2>6. \A n \in M..N : f[n] \in T[n]
    BY <1>5, <2>3
  <2> QED BY <2>4, <2>5, <2>6 DEF Follows
<1>6. CASE N < M
  <2> DEFINE g == [i \in {M} |-> base]
  <2>1. M..N = {} /\ g[M] = base
    BY <1>6
  <2> HIDE DEF g
  <2>2. Follows(g, base, step, T, M, N)
    BY <2>1 DEF Follows
  <2> QED BY <2>2
<1> QED BY <1>4, <1>5, <1>6

-----------------------------------------------------------------------------
(* Folds over finite sets and over sequences are functions defined on the *)
(* subsets of a set: they exist, and a fold over 1..n is a walk over its  *)
(* prefixes.                                                              *)

\* pick chooses an element of every subset of D but the empty one.
Picks(pick, D) == \A s \in SUBSET D : s # {} => pick[s] \in s

\* iter folds the steps of the elements of the subsets of D, in the order that pick
\* gives them, onto base.
Folds(iter, D, pick, base, step) ==
  \A s \in SUBSET D :
    iter[s] = IF s = {} THEN base ELSE step[pick[s]][iter[s \ {pick[s]}]]

\* For a property of subsets that the set S of its instances states.
LEMMA SubsetInduction ==
  ASSUME NEW D, IsFiniteSet(D), NEW pick, Picks(pick, D),
         NEW S, {} \in S,
         \A s \in SUBSET D : s # {} /\ s \ {pick[s]} \in S => s \in S
  PROVE  \A s \in SUBSET D : s \in S
<1> DEFINE Sizes == {k \in Nat : \A s \in SUBSET D : Cardinality(s) = k => s \in S}
<1>1. \A s \in SUBSET D : IsFiniteSet(s) /\ Cardinality(s) \in Nat
  BY FS_Subset, FS_CardinalityType
<1>2. 0 \in Sizes
  <2>1. ASSUME NEW s \in SUBSET D, Cardinality(s) = 0 PROVE s \in S
    <3>1. s = {}
      BY <1>1, <2>1, FS_EmptySet
    <3> QED BY <3>1
  <2> QED BY <2>1
<1>3. ASSUME NEW k \in Nat, k \in Sizes PROVE k + 1 \in Sizes
  <2>1. ASSUME NEW s \in SUBSET D, Cardinality(s) = k + 1 PROVE s \in S
    <3>1. IsFiniteSet(s)
      BY <1>1
    <3>2. s # {}
      BY <2>1, FS_EmptySet
    <3>3. pick[s] \in s
      BY <3>2 DEF Picks
    <3>4. s \ {pick[s]} \in SUBSET D /\ Cardinality(s \ {pick[s]}) = k
      <4> DEFINE x == pick[s]
      <4> HIDE DEF x
      <4>1. Cardinality(s \ {x}) = Cardinality(s) - 1
        BY <3>1, <3>3, FS_RemoveElement DEF x
      <4> QED BY <2>1, <4>1 DEF x
    <3>5. s \ {pick[s]} \in S
      BY <1>3, <3>4
    <3> QED BY <3>2, <3>5
  <2> QED BY <2>1
<1> HIDE DEF Sizes
<1>4. Nat \subseteq Sizes
  BY <1>2, <1>3, SetInduction
<1> QED BY <1>1, <1>4 DEF Sizes

\* The step of each element leads from A to A.
Turns(step, D, A) == \A x \in D : step[x] \in [A -> A]

\* What a fold over the subsets of D is, with all its values in A.
LEMMA SetRecursion ==
  ASSUME NEW D, IsFiniteSet(D), NEW pick, Picks(pick, D),
         NEW A, NEW base \in A, NEW step, Turns(step, D, A)
  PROVE  \E iter : Folds(iter, D, pick, base, step) /\ \A s \in SUBSET D : iter[s] \in A
<1> DEFINE N == Cardinality(D)
           Sized(k) == {s \in SUBSET D : Cardinality(s) = k}
           T == [k \in 0..N |-> [Sized(k) -> A]]
           first == [s \in Sized(0) |-> base]
           turn == [k \in 1..N |-> [f \in [Sized(k - 1) -> A] |->
                      [s \in Sized(k) |-> step[pick[s]][f[s \ {pick[s]}]]]]]
<1>1. N \in Nat /\ 0 \in Int /\ N \in Int
  BY FS_CardinalityType
<1>2. \A s \in SUBSET D : IsFiniteSet(s) /\ Cardinality(s) \in 0..N
  BY <1>1, FS_Subset, FS_CardinalityType
<1>3. \A s \in SUBSET D : Cardinality(s) = 0 <=> s = {}
  BY <1>2, FS_EmptySet
<1>4. ASSUME NEW k \in 1..N, NEW s \in Sized(k)
      PROVE  s # {} /\ pick[s] \in s /\ pick[s] \in D /\ s \ {pick[s]} \in Sized(k - 1)
  <2>1. s # {} /\ s \in SUBSET D /\ IsFiniteSet(s)
    BY <1>2, <1>3
  <2>2. pick[s] \in s
    BY <2>1 DEF Picks
  <2>3. Cardinality(s \ {pick[s]}) = k - 1
    <3> DEFINE x == pick[s]
    <3> HIDE DEF x
    <3>1. Cardinality(s \ {x}) = Cardinality(s) - 1
      BY <2>1, <2>2, FS_RemoveElement DEF x
    <3> QED BY <3>1 DEF x
  <2> QED BY <2>1, <2>2, <2>3
<1> HIDE DEF N
<1>5. first \in T[0]
  BY <1>1
<1>6. \A k \in 0..N : k > 0 => k \in 1..N /\ k - 1 \in 0..N /\ T[k - 1] = [Sized(k - 1) -> A]
                               /\ T[k] = [Sized(k) -> A]
  BY <1>1
<1>7. Steps(turn, T, 0, N)
  <2> SUFFICES ASSUME NEW k \in 0..N, k > 0 PROVE turn[k] \in [T[k - 1] -> T[k]]
    BY DEF Steps
  <2>1. k \in 1..N
    BY <1>6
  <2>2. ASSUME NEW f \in [Sized(k - 1) -> A]
        PROVE  [s \in Sized(k) |-> step[pick[s]][f[s \ {pick[s]}]]] \in [Sized(k) -> A]
    <3> SUFFICES ASSUME NEW s \in Sized(k) PROVE step[pick[s]][f[s \ {pick[s]}]] \in A
      OBVIOUS
    <3> HIDE DEF Sized
    <3>1. pick[s] \in D /\ f[s \ {pick[s]}] \in A
      BY <1>4, <2>1
    <3> QED BY <3>1 DEF Turns
  <2> HIDE DEF Sized
  <2>3. turn[k] \in [[Sized(k - 1) -> A] -> [Sized(k) -> A]]
    BY <2>1, <2>2
  <2> QED BY <1>6, <2>3
<1> HIDE DEF T, first
<1>8. PICK level : Follows(level, first, turn, T, 0, N)
  BY <1>1, <1>5, <1>7, Recursion
<1>9. \A k \in 0..N : level[k] \in [Sized(k) -> A]
  BY <1>8 DEF Follows, T
<1>10. level[0] = [s \in Sized(0) |-> base]
  BY <1>8 DEF Follows, first
<1>11. ASSUME NEW k \in 1..N
       PROVE  level[k] = [s \in Sized(k) |-> step[pick[s]][level[k - 1][s \ {pick[s]}]]]
  <2> HIDE DEF Sized
  <2>0. k \in 0..N /\ k > 0 /\ k - 1 \in 0..N
    BY <1>1
  <2>1. level[k] = turn[k][level[k - 1]]
    <3> HIDE DEF turn
    <3> QED BY <1>8, <2>0 DEF Follows
  <2>2. level[k - 1] \in [Sized(k - 1) -> A]
    BY <1>9, <2>0
  <2> QED BY <2>1, <2>2
<1> HIDE DEF turn
<1> DEFINE iter == [s \in SUBSET D |-> level[Cardinality(s)][s]]
<1>12. \A s \in SUBSET D : iter[s] \in A
  BY <1>2, <1>9
<1>13. ASSUME NEW s \in SUBSET D, s = {} PROVE iter[s] = base
  <2>1. Cardinality(s) = 0 /\ s \in Sized(0)
    BY <1>3, <1>13
  <2> QED BY <1>10, <2>1
<1>14. ASSUME NEW s \in SUBSET D, s # {} PROVE iter[s] = step[pick[s]][iter[s \ {pick[s]}]]
  <2> DEFINE k == Cardinality(s)
             t == s \ {pick[s]}
  <2>1. k \in 1..N /\ s \in Sized(k)
    BY <1>1, <1>2, <1>3, <1>14
  <2>2. t \in Sized(k - 1)
    BY <1>4, <2>1
  <2>3. t \in SUBSET D /\ Cardinality(t) = k - 1
    BY <2>2
  <2>4. level[k] = [u \in Sized(k) |-> step[pick[u]][level[k - 1][u \ {pick[u]}]]]
    BY <1>11, <2>1
  <2> HIDE DEF k, Sized
  <2>5. level[k][s] = step[pick[s]][level[k - 1][t]]
    BY <2>1, <2>4
  <2> HIDE DEF t
  <2>6. iter[s] = level[k][s] /\ iter[t] = level[k - 1][t]
    BY <2>3 DEF k
  <2> QED BY <2>5, <2>6 DEF t
<1> HIDE DEF iter
<1>15. Folds(iter, D, pick, base, step)
  BY <1>13, <1>14 DEF Folds
<1> QED BY <1>12, <1>15

\* The greatest element, as FiniteSetsExt defines Max.
Greatest(s) == CHOOSE x \in s : \A y \in s : x >= y

\* A non-empty subset of 1..n has a greatest element, that of 1..k is k.
LEMMA GreatestExists ==
  ASSUME NEW n \in Nat, NEW s \in SUBSET (1..n), s # {}
  PROVE  Greatest(s) \in s /\ \A y \in s : Greatest(s) >= y
<1> DEFINE S == {k \in Nat : \A t \in SUBSET (1..k) :
                    t # {} => \E x \in t : \A y \in t : x >= y}
<1>1. 0 \in S
  <2>1. 1..0 = {}
    OBVIOUS
  <2> QED BY <2>1
<1>2. ASSUME NEW k \in Nat, k \in S PROVE k + 1 \in S
  <2> SUFFICES ASSUME NEW t \in SUBSET (1..(k + 1)), t # {}
               PROVE  \E x \in t : \A y \in t : x >= y
    OBVIOUS
  <2>1. CASE k + 1 \in t
    BY <2>1
  <2>2. CASE k + 1 \notin t
    <3>1. t \in SUBSET (1..k)
      BY <2>2
    <3> QED BY <1>2, <3>1
  <2> QED BY <2>1, <2>2
<1> HIDE DEF S
<1>3. n \in S
  BY <1>1, <1>2, SetInduction
<1>4. \E x \in s : \A y \in s : x >= y
  BY <1>3 DEF S
<1> QED BY <1>4 DEF Greatest

LEMMA GreatestOfPrefix ==
  ASSUME NEW n \in Nat, NEW k \in 1..n
  PROVE  /\ 1..k \in SUBSET (1..n) /\ 1..k # {}
         /\ Greatest(1..k) = k /\ (1..k) \ {k} = 1..(k - 1)
<1>1. Greatest(1..k) \in 1..k /\ \A y \in 1..k : Greatest(1..k) >= y
  <2>1. 1..k \in SUBSET (1..k) /\ 1..k # {} /\ k \in Nat
    OBVIOUS
  <2> QED BY <2>1, GreatestExists, Zenon
<1>2. k \in 1..k
  OBVIOUS
<1>3. Greatest(1..k) >= k /\ Greatest(1..k) <= k /\ Greatest(1..k) \in Int
  BY <1>1, <1>2
<1>4. Greatest(1..k) = k
  BY <1>3
<1> QED BY <1>2, <1>4

\* iter folds the steps of a sequence of length n from left to right.
LeftFolds(iter, n, base, step) ==
  \A s \in SUBSET (1..n) :
    iter[s] = IF s = {} THEN base ELSE step[Greatest(s)][iter[s \ {Greatest(s)}]]

\* The fold over the subsets of 1..n that takes the greatest element first exists, as
\* FoldLeft of the community modules defines it.
LEMMA LeftRecursion ==
  ASSUME NEW n \in Nat, NEW A, NEW base \in A, NEW step, Turns(step, 1..n, A)
  PROVE  \E iter \in [SUBSET (1..n) -> A] : LeftFolds(iter, n, base, step)
<1> DEFINE D == 1..n
           pick == [s \in SUBSET D |-> Greatest(s)]
<1>1. IsFiniteSet(D)
  BY FS_Interval
<1>2. Picks(pick, D)
  BY GreatestExists DEF Picks
<1>3. \A s \in SUBSET D : pick[s] = Greatest(s)
  OBVIOUS
<1> HIDE DEF D, pick
<1>4. Turns(step, D, A)
  BY DEF D
<1>5. PICK f : Folds(f, D, pick, base, step) /\ \A s \in SUBSET D : f[s] \in A
  BY <1>1, <1>2, <1>4, SetRecursion
<1> DEFINE g == [s \in SUBSET D |-> f[s]]
<1>6. g \in [SUBSET D -> A]
  BY <1>5
<1>7. ASSUME NEW s \in SUBSET D
      PROVE  g[s] = IF s = {} THEN base ELSE step[Greatest(s)][g[s \ {Greatest(s)}]]
  BY <1>3, <1>5 DEF Folds
<1> HIDE DEF g
<1>8. LeftFolds(g, n, base, step)
  BY <1>7 DEF LeftFolds, D
<1> QED BY <1>6, <1>8 DEF D

\* acc is the values of a fold from the left, prefix by prefix, all of them in A.
Accumulates(acc, n, base, step, A) ==
  /\ acc[0] = base
  /\ \A k \in 1..n : acc[k] = step[k][acc[k - 1]]
  /\ \A k \in 0..n : acc[k] \in A

\* iter takes the last step on every subset without whose greatest element it is in A.
Unfolds(iter, n, step, A) ==
  \A s \in SUBSET (1..n) : s # {} /\ iter[s \ {Greatest(s)}] \in A =>
                            iter[s] = step[Greatest(s)][iter[s \ {Greatest(s)}]]

\* Whatever satisfies its equations is a walk over the prefixes 1..k.
LEMMA LeftPrefixes ==
  ASSUME NEW n \in Nat, NEW A, NEW base \in A, NEW step, Turns(step, 1..n, A),
         NEW iter, iter[{}] = base, Unfolds(iter, n, step, A)
  PROVE  \E acc : Accumulates(acc, n, base, step, A) /\ acc[n] = iter[1..n]
<1> DEFINE acc == [k \in 0..n |-> iter[1..k]]
           T == [k \in 0..n |-> A]
<1>1. ASSUME NEW k \in 1..n
      PROVE  /\ k \in 0..n /\ k - 1 \in 0..n
             /\ acc[k - 1] \in A => acc[k] = step[k][acc[k - 1]] /\ acc[k] \in A
  <2>1. /\ 1..k \in SUBSET (1..n) /\ 1..k # {}
        /\ Greatest(1..k) = k /\ (1..k) \ {k} = 1..(k - 1)
    BY GreatestOfPrefix
  <2>2. k \in 0..n /\ k - 1 \in 0..n
    OBVIOUS
  <2>3. acc[k] = iter[1..k] /\ acc[k - 1] = iter[1..(k - 1)]
    BY <2>2
  <2> HIDE DEF acc
  <2>4. acc[k - 1] \in A => acc[k] = step[k][acc[k - 1]]
    BY <2>1, <2>3, ZenonT(40) DEF Unfolds
  <2> QED BY <2>2, <2>4 DEF Turns
<1>2. acc[0] = base
  <2>1. 1..0 = {} /\ 0 \in 0..n
    OBVIOUS
  <2> QED BY <2>1
<1>3. acc[n] = iter[1..n]
  OBVIOUS
<1> HIDE DEF acc
<1>4. \A k \in 0..n : acc[k] \in A
  <2>1. acc[0] \in T[0] /\ 0 \in Int /\ n \in Int
    BY <1>2
  <2>2. ASSUME NEW k \in 0..n, k > 0, acc[k - 1] \in T[k - 1] PROVE acc[k] \in T[k]
    <3>1. k \in 1..n
      BY <2>2
    <3> QED BY <1>1, <2>2, <3>1
  <2>3. \A k \in 0..n : T[k] = A
    OBVIOUS
  <2> HIDE DEF T
  <2>4. \A k \in 0..n : acc[k] \in T[k]
    BY <2>1, <2>2, TypeInduction, Zenon
  <2> QED BY <2>3, <2>4
<1>5. Accumulates(acc, n, base, step, A)
  BY <1>1, <1>2, <1>4 DEF Accumulates
<1> QED BY <1>3, <1>5

=============================================================================
