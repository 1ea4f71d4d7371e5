--------------------------- MODULE InductionFacts ---------------------------
(***************************************************************************)
(* Induction and recursion stated about sets and functions instead of      *)
(* predicates and operators, so that a proof uses them by naming a set.    *)
(***************************************************************************)
EXTENDS Integers, WellFoundedInduction, TLAPS

\* A set of numbers that is not empty has a least element.
LEMMA LeastElement ==
  ASSUME NEW T, T \subseteq Nat, T # {}
  PROVE  \E n \in T : \A m \in T : n <= m
  <1> DEFINE R == OpToRel(<, Nat)
  <1>1. IsWellFoundedOn(R, Nat)
    BY NatLessThanWellFounded
  <1>2. PICK n \in T : \A m \in T : ~ (<<m, n>> \in R)
    <2> HIDE DEF R
    <2> QED BY <1>1, WFMin
  <1>3. \A m \in T : ~(m < n)
    BY <1>2 DEF OpToRel
  <1> QED BY <1>3

\* Induction over the natural numbers.
LEMMA SetInduction ==
  ASSUME NEW T, 0 \in T, \A n \in Nat : n \in T => n + 1 \in T
  PROVE  \A n \in Nat : n \in T
  <1> SUFFICES ASSUME {n \in Nat : n \notin T} # {} PROVE FALSE
    OBVIOUS
  <1>1. PICK n \in {m \in Nat : m \notin T} : \A k \in {m \in Nat : m \notin T} : n <= k
    BY LeastElement
  <1>2. n # 0 /\ n - 1 \in Nat /\ ~(n <= n - 1)
    BY <1>1
  <1>3. n - 1 \in T
    BY <1>1, <1>2
  <1> QED BY <1>1, <1>2, <1>3

\* f follows the recursive definition that starts at a and goes on by step.
Recursive(f, n, S, a, step) ==
  /\ f \in [0 .. n -> S]
  /\ f[0] = a
  /\ \A i \in 1 .. n : f[i] = step[<<i, f[i - 1]>>]

\* A function defined by recursion over 0 .. n exists.
LEMMA RecursionExists ==
  ASSUME NEW n \in Nat, NEW S, NEW a \in S, NEW step \in [(1 .. n) \X S -> S]
  PROVE  \E f : Recursive(f, n, S, a, step)
  <1> DEFINE Steps(f, m) == /\ f \in [0 .. m -> S]
                            /\ f[0] = a
                            /\ \A i \in 1 .. m : f[i] = step[<<i, f[i - 1]>>]
             T == {m \in Nat : m <= n => \E f : Steps(f, m)}
  <1>1. 0 \in T
    <2>1. Steps([i \in 0 .. 0 |-> a], 0)
      OBVIOUS
    <2> QED BY <2>1
  <1>2. ASSUME NEW m \in Nat, m \in T
        PROVE  m + 1 \in T
    <2> SUFFICES ASSUME m + 1 <= n PROVE \E f : Steps(f, m + 1)
      OBVIOUS
    <2>1. PICK f : Steps(f, m)
      BY <1>2
    <2> DEFINE g == [i \in 0 .. m + 1 |-> IF i = m + 1 THEN step[<<m + 1, f[m]>>] ELSE f[i]]
    <2>2. f[m] \in S /\ <<m + 1, f[m]>> \in (1 .. n) \X S
      BY <2>1
    <2>3. step[<<m + 1, f[m]>>] \in S
      BY <2>2
    <2>4. g \in [0 .. m + 1 -> S] /\ g[0] = a
      BY <2>1, <2>3
    <2>5. ASSUME NEW i \in 1 .. m + 1
          PROVE  g[i] = step[<<i, g[i - 1]>>]
      <3>1. CASE i = m + 1
        <4>1. i - 1 = m /\ m # m + 1 /\ m \in 0 .. m + 1
          BY <3>1
        <4>2. g[i - 1] = f[m] /\ g[i] = step[<<m + 1, f[m]>>]
          BY <4>1, <3>1
        <4> QED BY <4>1, <4>2, <3>1
      <3>2. CASE i # m + 1
        <4>1. i \in 1 .. m /\ i - 1 # m + 1 /\ i - 1 \in 0 .. m + 1
          BY <3>2
        <4>2. g[i] = f[i] /\ g[i - 1] = f[i - 1]
          BY <4>1, <3>2
        <4>3. f[i] = step[<<i, f[i - 1]>>]
          BY <4>1, <2>1
        <4> QED BY <4>2, <4>3
      <3> QED BY <3>1, <3>2
    <2> QED BY <2>4, <2>5
  <1> HIDE DEF T
  <1>3. \A m \in Nat : m \in T
    BY <1>1, <1>2, SetInduction
  <1>4. n \in T
    BY <1>3
  <1> QED BY <1>4 DEF T, Recursive

\* Induction from the end of an interval towards its beginning.
LEMMA DownwardInduction ==
  ASSUME NEW n \in Nat, NEW T,
         \A c \in 0 .. n : (\A i \in c + 1 .. n : i \in T) => c \in T
  PROVE  \A c \in 0 .. n : c \in T
  <1> DEFINE U == {d \in Nat : \A c \in 0 .. n : n - c <= d => c \in T}
  <1>1. 0 \in U
    <2>1. ASSUME NEW c \in 0 .. n, n - c <= 0 PROVE c \in T
      BY <2>1
    <2> QED BY <2>1
  <1>2. ASSUME NEW d \in Nat, d \in U PROVE d + 1 \in U
    <2>1. ASSUME NEW c \in 0 .. n, n - c <= d + 1 PROVE c \in T
      <3>1. ASSUME NEW i \in c + 1 .. n PROVE i \in T
        <4>1. i \in 0 .. n /\ n - i <= d
          BY <2>1
        <4> QED BY <4>1, <1>2
      <3> QED BY <3>1
    <2> QED BY <2>1
  <1>3. \A d \in Nat : d \in U
    <2> HIDE DEF U
    <2> QED BY <1>1, <1>2, SetInduction
  <1>4. n \in U
    BY <1>3
  <1> QED BY <1>4

\* f follows, from the end of 0 .. n on, a definition that refers forward: at c
\* it is verdict[c], or what step makes of its value at next[c], further on.
Forward(f, n, S, next, step, verdict) ==
  /\ f \in [0 .. n -> S]
  /\ \A c \in 0 .. n :
       f[c] = IF next[c] \in c + 1 .. n THEN step[<<c, f[next[c]]>>] ELSE verdict[c]

\* A function defined by forward recursion over 0 .. n exists.
LEMMA ForwardExists ==
  ASSUME NEW n \in Nat, NEW S, NEW next \in [0 .. n -> Int],
         NEW step \in [(0 .. n) \X S -> S], NEW verdict \in [0 .. n -> S]
  PROVE  \E f : Forward(f, n, S, next, step, verdict)
  <1> DEFINE From(f, m) ==
               /\ f \in [0 .. n -> S]
               /\ \A c \in m .. n :
                    f[c] = IF next[c] \in c + 1 .. n THEN step[<<c, f[next[c]]>>] ELSE verdict[c]
             T == {d \in Nat : d <= n => \E f : From(f, n - d)}
  <1>1. 0 \in T
    <2>1. From(verdict, n)
      OBVIOUS
    <2>2. n - 0 = n
      OBVIOUS
    <2> HIDE DEF From
    <2> QED BY <2>1, <2>2
  <1>2. ASSUME NEW d \in Nat, d \in T PROVE d + 1 \in T
    <2> SUFFICES ASSUME d + 1 <= n PROVE \E f : From(f, n - (d + 1))
      OBVIOUS
    <2> DEFINE m == n - (d + 1)
    <2>1. m \in 0 .. n /\ n - d = m + 1 /\ m + 1 \in 0 .. n
      OBVIOUS
    <2>2. PICK f : From(f, m + 1)
      <3> HIDE DEF From
      <3> QED BY <1>2, <2>1
    <2> HIDE DEF m
    <2> DEFINE v == IF next[m] \in m + 1 .. n THEN step[<<m, f[next[m]]>>] ELSE verdict[m]
               g == [f EXCEPT ![m] = v]
    <2>3. v \in S
      <3>1. CASE next[m] \in m + 1 .. n
        <4>1. f[next[m]] \in S
          BY <2>1, <2>2, <3>1
        <4>2. <<m, f[next[m]]>> \in (0 .. n) \X S
          BY <4>1, <2>1
        <4> QED BY <4>2, <3>1
      <3>2. CASE next[m] \notin m + 1 .. n
        BY <3>2, <2>1
      <3> QED BY <3>1, <3>2
    <2> HIDE DEF v
    <2>4. g \in [0 .. n -> S]
      BY <2>2, <2>3
    <2>5. g[m] = v /\ \A i \in m + 1 .. n : g[i] = f[i]
      BY <2>1, <2>2
    <2> HIDE DEF g
    <2>6. ASSUME NEW c \in m .. n
          PROVE  g[c] = IF next[c] \in c + 1 .. n THEN step[<<c, g[next[c]]>>] ELSE verdict[c]
      <3>1. next[c] \in c + 1 .. n => g[next[c]] = f[next[c]]
        BY <2>1, <2>5
      <3>2. CASE c = m
        BY <3>1, <3>2, <2>5 DEF v
      <3>3. CASE c # m
        <4>1. c \in m + 1 .. n
          BY <3>3, <2>1
        <4>2. f[c] = IF next[c] \in c + 1 .. n THEN step[<<c, f[next[c]]>>] ELSE verdict[c]
          BY <4>1, <2>2
        <4> QED BY <4>1, <4>2, <3>1, <2>5
      <3> QED BY <3>2, <3>3
    <2> QED BY <2>4, <2>6 DEF m
  <1>3. \A d \in Nat : d \in T
    <2> HIDE DEF T
    <2> QED BY <1>1, <1>2, SetInduction
  <1>4. \E f : From(f, 0)
    <2>1. n \in T
      <3> HIDE DEF T
      <3> QED BY <1>3
    <2>2. n - n = 0
      OBVIOUS
    <2> HIDE DEF From
    <2> QED BY <2>1, <2>2
  <1>5. PICK f : From(f, 0)
    <2> HIDE DEF From
    <2> QED BY <1>4
  <1>6. Forward(f, n, S, next, step, verdict)
    BY <1>5 DEF Forward
  <1> QED BY <1>6
=============================================================================
