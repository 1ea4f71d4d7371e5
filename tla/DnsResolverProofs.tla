-------------------------- MODULE DnsResolverProofs --------------------------
(***************************************************************************)
(* Proofs about DnsResolver, for any finite set of names, any DNS data and *)
(* any passage of time.                                                    *)
(*                                                                         *)
(* First what chains of aliases are: sequences of names each of which is   *)
(* an alias of the next, of which those that end in addresses never meet a *)
(* name twice.  Then what a server can answer and what the parser makes of *)
(* it.  Then the invariants.                                               *)
(***************************************************************************)
EXTENDS DnsResolver, InductionFacts, FiniteSetTheorems, SequenceTheorems

N == Cardinality(Names)

\* p follows aliases of z through k names.
IsPath(z, p, k) ==
  /\ k \in Nat \ {0}
  /\ p \in [1 .. k -> Names]
  /\ \A i \in 1 .. k - 1 : z[p[i]] \in Aliases /\ p[i + 1] = z[p[i]].target
-----------------------------------------------------------------------------
(***************************************************************************)
(* Names, data and chains.                                                 *)
(***************************************************************************)
\* What a name may hold: nothing, addresses or an alias, and only one.
LEMMA ZoneType ==
  ASSUME NEW z \in Zones, NEW n \in Names
  PROVE  /\ z[n] \in {Absent} \cup AddrSets \cup Aliases
         /\ z[n] \in Aliases => z[n].target \in Names
         /\ z[n] \in AddrSets => z[n].addrs \in AddrLists
         /\ ~(z[n] \in AddrSets /\ z[n] \in Aliases)
         /\ ~(Absent \in AddrSets) /\ ~(Absent \in Aliases)
  <1>1. z \in [Names -> {Absent} \cup AddrSets \cup Aliases]
    BY ZoneAssumption
  <1>2. z[n] \in {Absent} \cup AddrSets \cup Aliases
    BY <1>1
  <1> QED BY <1>2 DEF Absent, AddrSets, Aliases

LEMMA NamesCounted ==
  /\ N \in Nat
  /\ Names # {} => N >= 1
  <1>1. N \in Nat
    BY NamesAssumption, FS_CardinalityType DEF N
  <1>2. ASSUME Names # {} PROVE N # 0
    BY <1>2, NamesAssumption, FS_EmptySet DEF N
  <1> QED BY <1>1, <1>2

\* The recursive function under Chains is what its equation says.
LEMMA WalkSteps ==
  ASSUME NEW z \in Zones, NEW n \in Names
  PROVE  /\ Walk(z, n) \in [1 .. N -> Names \cup {Nothing}]
         /\ Walk(z, n)[1] = n
         /\ \A i \in 1 .. N - 1 : Walk(z, n)[i + 1] = Target(z, Walk(z, n)[i])
  <1> DEFINE S == Names \cup {Nothing}
             Is(met) == met = [i \in 1 .. N |-> IF i = 1 THEN n ELSE Target(z, met[i - 1])]
             step == [x \in (1 .. N - 1) \X S |-> Target(z, x[2])]
  <1>1. N \in Nat /\ N >= 1 /\ N - 1 \in Nat
    BY NamesCounted
  <1>2. \A name \in S : Target(z, name) \in S
    BY ZoneType, NothingAssumption DEF Target
  <1>3. step \in [(1 .. N - 1) \X S -> S]
    BY <1>2
  <1>3a. \A i \in 1 .. N - 1, s \in S : step[<<i, s>>] = Target(z, s)
    OBVIOUS
  <1> n \in S
    OBVIOUS
  <1> HIDE DEF step, S
  <1>4. PICK f \in [0 .. N - 1 -> S] :
          f[0] = n /\ \A i \in 1 .. N - 1 : f[i] = step[<<i, f[i - 1]>>]
    <2> DEFINE last == N - 1
    <2>1. last \in Nat /\ step \in [(1 .. last) \X S -> S]
      BY <1>1, <1>3
    <2> HIDE DEF last
    <2>2. \E f : Recursive(f, last, S, n, step)
      BY <2>1, RecursionExists
    <2> QED BY <2>2 DEF last, Recursive
  <1> DEFINE g == [i \in 1 .. N |-> f[i - 1]]
  <1>5. Is(g)
    <2>1. \A i \in 1 .. N - 1 : f[i] = Target(z, f[i - 1])
      <3> SUFFICES ASSUME NEW i \in 1 .. N - 1 PROVE f[i] = Target(z, f[i - 1])
        OBVIOUS
      <3>1. f[i - 1] \in S
        BY <1>1
      <3> QED BY <1>4, <1>3a, <3>1
    <2>2. ASSUME NEW i \in 1 .. N
          PROVE  g[i] = IF i = 1 THEN n ELSE Target(z, g[i - 1])
      <3>1. CASE i = 1
        BY <3>1, <1>4, <1>1
      <3>2. CASE i # 1
        <4>1. i - 1 \in 1 .. N /\ i - 1 \in 1 .. N - 1 /\ i - 1 - 1 = i - 2
          BY <3>2, <1>1
        <4>2. g[i] = f[i - 1] /\ g[i - 1] = f[i - 1 - 1]
          BY <4>1
        <4>3. f[i - 1] = Target(z, f[i - 1 - 1])
          BY <2>1, <4>1
        <4> QED BY <4>2, <4>3, <3>2
      <3> QED BY <3>1, <3>2
    <2> QED BY <2>2
  <1>6. Is(Walk(z, n))
    <2>1. Walk(z, n) = CHOOSE met : Is(met)
      BY DEF Walk, N
    <2> HIDE DEF Is, g
    <2> QED BY <1>5, <2>1
  <1>7. Walk(z, n)[1] = n
    BY <1>1, <1>6
  <1>8. \A i \in 1 .. N - 1 : Walk(z, n)[i + 1] = Target(z, Walk(z, n)[i])
    <2> SUFFICES ASSUME NEW i \in 1 .. N - 1
                 PROVE  Walk(z, n)[i + 1] = Target(z, Walk(z, n)[i])
      OBVIOUS
    <2>1. i + 1 \in 1 .. N /\ i + 1 # 1 /\ (i + 1) - 1 = i
      BY <1>1
    <2> QED BY <1>6, <2>1
  <1>9. \A i \in 1 .. N : Walk(z, n)[i] \in S
    <2>1. \A i \in 1 .. N : Walk(z, n)[i] = IF i = 1 THEN n ELSE Target(z, Walk(z, n)[i - 1])
      BY <1>6
    <2> DEFINE T == {m \in Nat : m < N => Walk(z, n)[m + 1] \in S}
    <2>2. 0 \in T
      BY <1>7
    <2>3. ASSUME NEW m \in Nat, m \in T PROVE m + 1 \in T
      <3> SUFFICES ASSUME m + 1 < N PROVE Walk(z, n)[m + 2] \in S
        OBVIOUS
      <3>1. m + 1 \in 1 .. N - 1 /\ (m + 1) + 1 = m + 2 /\ Walk(z, n)[m + 1] \in S
        BY <2>3, <1>1
      <3> QED BY <3>1, <1>8, <1>2
    <2>4. \A m \in Nat : m \in T
      <3> HIDE DEF T
      <3> QED BY <2>2, <2>3, SetInduction
    <2> SUFFICES ASSUME NEW i \in 1 .. N PROVE Walk(z, n)[i] \in S
      OBVIOUS
    <2>5. i - 1 \in Nat /\ i - 1 < N /\ (i - 1) + 1 = i
      BY <1>1
    <2> QED BY <2>4, <2>5
  <1> QED BY <1>6, <1>7, <1>8, <1>9 DEF S

\* Nothing comes after the end of a walk.
LEMMA WalkEnds ==
  ASSUME NEW z \in Zones, NEW n \in Names,
         NEW i \in 1 .. N, NEW j \in 1 .. N, i <= j, Walk(z, n)[i] = Nothing
  PROVE  Walk(z, n)[j] = Nothing
  <1> DEFINE W == Walk(z, n)
             T == {m \in Nat : i + m <= N => W[i + m] = Nothing}
  <1>1. N \in Nat
    BY NamesCounted
  <1>2. \A l \in 1 .. N - 1 : W[l + 1] = Target(z, W[l])
    BY WalkSteps
  <1> HIDE DEF W
  <1>3. 0 \in T
    BY DEF W
  <1>4. ASSUME NEW m \in Nat, m \in T PROVE m + 1 \in T
    <2> SUFFICES ASSUME i + (m + 1) <= N PROVE W[i + (m + 1)] = Nothing
      OBVIOUS
    <2>1. i + m \in 1 .. N - 1 /\ (i + m) + 1 = i + (m + 1) /\ W[i + m] = Nothing
      BY <1>1, <1>4
    <2>2. W[(i + m) + 1] = Target(z, W[i + m])
      BY <1>2, <2>1
    <2> QED BY <2>1, <2>2 DEF Target
  <1>5. \A m \in Nat : m \in T
    <2> HIDE DEF T
    <2> QED BY <1>3, <1>4, SetInduction
  <1>6. j - i \in Nat /\ i + (j - i) = j
    BY <1>1
  <1> QED BY <1>5, <1>6, <1>1 DEF W

\* A path as a sequence.
LEMMA PathSequence ==
  ASSUME NEW z, NEW p, NEW k, IsPath(z, p, k)
  PROVE  /\ p \in Seq(Names)
         /\ Len(p) = k
         /\ Last(p) = p[k]
         /\ \A i \in 1 .. k : p[i] \in Names
         /\ k \in Nat \ {0} /\ p[1] \in Names /\ p[k] \in Names
  BY DEF IsPath, Last

\* Every chain is a path.
LEMMA ChainsArePaths ==
  ASSUME NEW z \in Zones, NEW n \in Names, NEW path \in Chains(z, n)
  PROVE  IsPath(z, path, Len(path)) /\ path[1] = n
  <1> DEFINE W == Walk(z, n)
  <1>1. N \in Nat /\ N >= 1
    BY NamesCounted
  <1>2. /\ W \in [1 .. N -> Names \cup {Nothing}]
        /\ W[1] = n
        /\ \A i \in 1 .. N - 1 : W[i + 1] = Target(z, W[i])
    BY WalkSteps
  <1>3. \A i, j \in 1 .. N : i <= j /\ W[i] = Nothing => W[j] = Nothing
    BY WalkEnds
  <1>4. PICK k \in DOMAIN W : W[k] # Nothing /\ path = SubSeq(W, 1, k)
    BY DEF Chains
  <1> HIDE DEF W
  <1>5. k \in 1 .. N
    BY <1>2, <1>4
  <1>6. path \in [1 .. k -> Names] /\ \A i \in 1 .. k : path[i] = W[i]
    <2>1. path = [i \in 1 .. k |-> W[i]]
      BY <1>1, <1>2, <1>4, <1>5
    <2>2. \A i \in 1 .. k : W[i] # Nothing
      BY <1>1, <1>3, <1>4, <1>5
    <2> QED BY <1>1, <1>2, <1>5, <2>1, <2>2
  <1>7. Len(path) = k
    BY <1>6, <1>5, <1>1
  <1>8. ASSUME NEW i \in 1 .. k - 1
        PROVE  z[path[i]] \in Aliases /\ path[i + 1] = z[path[i]].target
    <2>1. i \in 1 .. k /\ i + 1 \in 1 .. k /\ i \in 1 .. N - 1
      BY <1>1, <1>5
    <2>2. path[i + 1] = Target(z, path[i]) /\ path[i + 1] \in Names
      BY <2>1, <1>2, <1>6
    <2> QED BY <2>2, NothingAssumption DEF Target
  <1>9. path[1] = n
    BY <1>1, <1>2, <1>5, <1>6
  <1> QED BY <1>1, <1>5, <1>6, <1>7, <1>8, <1>9 DEF IsPath

\* Every path that is no longer than there are names is a chain.
LEMMA PathsAreChains ==
  ASSUME NEW z \in Zones, NEW p, NEW k, IsPath(z, p, k), k <= N
  PROVE  p \in Chains(z, p[1])
  <1> DEFINE n == p[1]
             W == Walk(z, n)
             T == {m \in Nat : m < k => W[m + 1] = p[m + 1]}
  <1>1. N \in Nat /\ k \in 1 .. N /\ n \in Names
    BY NamesCounted, PathSequence DEF IsPath
  <1>2. /\ W \in [1 .. N -> Names \cup {Nothing}]
        /\ W[1] = n
        /\ \A i \in 1 .. N - 1 : W[i + 1] = Target(z, W[i])
    BY WalkSteps, <1>1
  <1> HIDE DEF W, n
  <1>3. 0 \in T
    BY <1>2 DEF n
  <1>4. ASSUME NEW m \in Nat, m \in T PROVE m + 1 \in T
    <2> SUFFICES ASSUME m + 1 < k PROVE W[(m + 1) + 1] = p[(m + 1) + 1]
      OBVIOUS
    <2>1. m + 1 \in 1 .. N - 1 /\ m + 1 \in 1 .. k - 1 /\ m + 1 \in 1 .. k /\ W[m + 1] = p[m + 1]
      BY <1>1, <1>4
    <2>2. W[(m + 1) + 1] = Target(z, p[m + 1])
      BY <2>1, <1>2
    <2>3. z[p[m + 1]] \in Aliases /\ p[(m + 1) + 1] = z[p[m + 1]].target
      BY <2>1 DEF IsPath
    <2>4. p[m + 1] \in Names
      BY <2>1, PathSequence
    <2> QED BY <2>2, <2>3, <2>4, NothingAssumption DEF Target
  <1>5. \A m \in Nat : m \in T
    <2> HIDE DEF T
    <2> QED BY <1>3, <1>4, SetInduction
  <1>6. ASSUME NEW i \in 1 .. k PROVE W[i] = p[i]
    <2>1. i - 1 \in Nat /\ i - 1 < k /\ (i - 1) + 1 = i
      BY <1>1
    <2> QED BY <1>5, <2>1
  <1>7. p = SubSeq(W, 1, k)
    <2>1. SubSeq(W, 1, k) = [i \in 1 .. k |-> W[i]]
      BY <1>1, <1>2
    <2>2. p = [i \in 1 .. k |-> p[i]]
      BY DEF IsPath
    <2> QED BY <1>6, <2>1, <2>2
  <1>8. k \in DOMAIN W /\ W[k] # Nothing
    <2>1. k \in DOMAIN W /\ k \in 1 .. k
      BY <1>1, <1>2
    <2>2. W[k] = p[k] /\ p[k] \in Names
      BY <1>6, <2>1, PathSequence
    <2> QED BY <2>1, <2>2, NothingAssumption
  <1> QED BY <1>7, <1>8 DEF Chains, W, n

\* Paths that start at the same name agree as far as both go.
LEMMA SameStart ==
  ASSUME NEW z, NEW p, NEW k, IsPath(z, p, k), NEW q, NEW l, IsPath(z, q, l), p[1] = q[1]
  PROVE  \A i \in 1 .. k : i <= l => p[i] = q[i]
  <1> DEFINE T == {m \in Nat : m < k /\ m < l => p[m + 1] = q[m + 1]}
  <1>1. k \in Nat /\ l \in Nat
    BY DEF IsPath
  <1>2. 0 \in T
    OBVIOUS
  <1>3. ASSUME NEW m \in Nat, m \in T PROVE m + 1 \in T
    <2> SUFFICES ASSUME m + 1 < k, m + 1 < l PROVE p[(m + 1) + 1] = q[(m + 1) + 1]
      OBVIOUS
    <2>1. m + 1 \in 1 .. k - 1 /\ m + 1 \in 1 .. l - 1 /\ p[m + 1] = q[m + 1]
      BY <1>1, <1>3
    <2>2. p[(m + 1) + 1] = z[p[m + 1]].target /\ q[(m + 1) + 1] = z[q[m + 1]].target
      BY <2>1 DEF IsPath
    <2> QED BY <2>1, <2>2
  <1>4. \A m \in Nat : m \in T
    <2> HIDE DEF T
    <2> QED BY <1>2, <1>3, SetInduction
  <1> SUFFICES ASSUME NEW i \in 1 .. k, i <= l PROVE p[i] = q[i]
    OBVIOUS
  <1>5. i - 1 \in Nat /\ i - 1 < k /\ i - 1 < l /\ (i - 1) + 1 = i
    BY <1>1
  <1> QED BY <1>4, <1>5

\* The rest of a path from its i-th name on.
Rest(p, k, i) == [j \in 1 .. k - i + 1 |-> p[i + j - 1]]

LEMMA RestIsPath ==
  ASSUME NEW z, NEW p, NEW k, IsPath(z, p, k), NEW i \in 1 .. k
  PROVE  IsPath(z, Rest(p, k, i), k - i + 1) /\ Rest(p, k, i)[1] = p[i]
  <1> DEFINE r == Rest(p, k, i)
  <1>1. k \in Nat \ {0} /\ k - i + 1 \in Nat \ {0}
    BY DEF IsPath
  <1>2. ASSUME NEW j \in 1 .. k - i + 1 PROVE r[j] = p[i + j - 1] /\ r[j] \in Names
    <2>1. i + j - 1 \in 1 .. k
      BY <1>1
    <2> QED BY <2>1 DEF Rest, IsPath
  <1>3. r \in [1 .. k - i + 1 -> Names]
    BY <1>2 DEF Rest
  <1>4. ASSUME NEW j \in 1 .. (k - i + 1) - 1
        PROVE  z[r[j]] \in Aliases /\ r[j + 1] = z[r[j]].target
    <2>1. /\ j \in 1 .. k - i + 1 /\ j + 1 \in 1 .. k - i + 1
          /\ i + j - 1 \in 1 .. k - 1 /\ (i + j - 1) + 1 = i + (j + 1) - 1
      BY <1>1
    <2>2. r[j] = p[i + j - 1] /\ r[j + 1] = p[(i + j - 1) + 1]
      BY <1>2, <2>1
    <2> QED BY <2>1, <2>2 DEF IsPath
  <1>5. r[1] = p[i]
    <2>1. 1 \in 1 .. k - i + 1 /\ i + 1 - 1 = i
      BY <1>1
    <2> QED BY <1>2, <2>1
  <1> QED BY <1>1, <1>3, <1>4, <1>5 DEF IsPath

\* A path whose end is no alias meets no name twice: it fits into the names.
LEMMA EndedPathsAreShort ==
  ASSUME NEW z, NEW p, NEW k, IsPath(z, p, k), z[p[k]] \notin Aliases
  PROVE  k <= N
  <1>1. k \in Nat \ {0} /\ N \in Nat /\ p \in [1 .. k -> Names]
    BY NamesCounted DEF IsPath
  <1>2. ASSUME NEW i \in 1 .. k, NEW j \in 1 .. k, i < j PROVE p[i] # p[j]
    <2> SUFFICES ASSUME p[i] = p[j] PROVE FALSE
      OBVIOUS
    <2> DEFINE l == k - j + 1
    <2>1. /\ IsPath(z, Rest(p, k, i), k - i + 1) /\ Rest(p, k, i)[1] = p[i]
          /\ IsPath(z, Rest(p, k, j), l) /\ Rest(p, k, j)[1] = p[j]
      BY RestIsPath
    <2>2. l \in 1 .. k - i + 1 /\ l \in 1 .. l /\ i + l - 1 \in 1 .. k - 1 /\ j + l - 1 = k
      BY <1>1, <1>2
    <2>3. Rest(p, k, i)[l] = Rest(p, k, j)[l]
      <3> HIDE DEF l
      <3> QED BY <2>1, <2>2, SameStart
    <2>4. Rest(p, k, i)[l] = p[i + l - 1] /\ Rest(p, k, j)[l] = p[j + l - 1]
      BY <2>2 DEF Rest
    <2>5. z[p[i + l - 1]] \in Aliases
      <3> HIDE DEF l
      <3> QED BY <2>2 DEF IsPath
    <2> QED BY <2>2, <2>3, <2>4, <2>5
  <1>3. IsFiniteSet(1 .. k) /\ Cardinality(1 .. k) = k
    <2>1. IsFiniteSet(1 .. k) /\ Cardinality(1 .. k) = IF 1 > k THEN 0 ELSE k - 1 + 1
      BY <1>1, FS_Interval
    <2> QED BY <2>1, <1>1
  <1> SUFFICES ASSUME N < k PROVE FALSE
    BY <1>1
  <1>4. \E i, j \in 1 .. k : i # j /\ p[i] = p[j]
    BY <1>1, <1>3, NamesAssumption, FS_PigeonHole DEF N
  <1>5. PICK i \in 1 .. k, j \in 1 .. k : i # j /\ p[i] = p[j]
    BY <1>4
  <1>6. i < j \/ j < i
    BY <1>5, <1>1
  <1> QED BY <1>2, <1>5, <1>6

\* A path that goes on with another one.
Joined(p, k, r, l) == [i \in 1 .. k + l - 1 |-> IF i <= k THEN p[i] ELSE r[i - k + 1]]

LEMMA JoinedIsPath ==
  ASSUME NEW z, NEW p, NEW k, IsPath(z, p, k), NEW r, NEW l, IsPath(z, r, l), r[1] = p[k]
  PROVE  /\ IsPath(z, Joined(p, k, r, l), k + l - 1)
         /\ Joined(p, k, r, l)[1] = p[1]
         /\ Joined(p, k, r, l)[k + l - 1] = r[l]
  <1> DEFINE q == Joined(p, k, r, l)
  <1>1. k \in Nat \ {0} /\ l \in Nat \ {0} /\ k + l - 1 \in Nat \ {0}
    BY DEF IsPath
  <1>2. ASSUME NEW i \in 1 .. k PROVE q[i] = p[i] /\ q[i] \in Names
    <2>1. i \in 1 .. k + l - 1 /\ i <= k
      BY <1>1
    <2> QED BY <2>1 DEF Joined, IsPath
  <1>3. ASSUME NEW i \in 1 .. l PROVE q[k + i - 1] = r[i] /\ q[k + i - 1] \in Names
    <2>1. k + i - 1 \in 1 .. k + l - 1 /\ (k + i - 1) - k + 1 = i
      BY <1>1
    <2>2. q[k + i - 1] = IF k + i - 1 <= k THEN p[k + i - 1] ELSE r[i]
      BY <2>1 DEF Joined
    <2>3. CASE i = 1
      BY <2>2, <2>3, <1>1 DEF IsPath
    <2>4. CASE i # 1
      BY <2>2, <2>4, <1>1 DEF IsPath
    <2> QED BY <2>3, <2>4
  <1>4. q \in [1 .. k + l - 1 -> Names]
    <2>1. ASSUME NEW i \in 1 .. k + l - 1 PROVE q[i] \in Names
      <3>1. CASE i <= k
        BY <1>1, <1>2, <3>1
      <3>2. CASE k < i
        <4>1. i - k + 1 \in 1 .. l /\ k + (i - k + 1) - 1 = i
          BY <1>1, <3>2
        <4> QED BY <1>3, <4>1
      <3> QED BY <1>1, <3>1, <3>2
    <2> QED BY <2>1 DEF Joined
  <1>5. ASSUME NEW i \in 1 .. (k + l - 1) - 1
        PROVE  z[q[i]] \in Aliases /\ q[i + 1] = z[q[i]].target
    <2>1. CASE i < k
      <3>1. i \in 1 .. k /\ i + 1 \in 1 .. k /\ i \in 1 .. k - 1
        BY <1>1, <2>1
      <3>2. q[i] = p[i] /\ q[i + 1] = p[i + 1]
        BY <1>2, <3>1
      <3> QED BY <3>1, <3>2 DEF IsPath
    <2>2. CASE k <= i
      <3> DEFINE j == i - k + 1
      <3>1. j \in 1 .. l /\ j + 1 \in 1 .. l /\ j \in 1 .. l - 1 /\ k + j - 1 = i /\ k + (j + 1) - 1 = i + 1
        BY <1>1, <2>2
      <3>2. q[i] = r[j] /\ q[i + 1] = r[j + 1]
        BY <1>3, <3>1
      <3>3. z[r[j]] \in Aliases /\ r[j + 1] = z[r[j]].target
        <4> HIDE DEF j
        <4> QED BY <3>1 DEF IsPath
      <3> QED BY <3>2, <3>3
    <2> QED BY <1>1, <2>1, <2>2
  <1>6. q[1] = p[1]
    BY <1>1, <1>2
  <1>7. q[k + l - 1] = r[l]
    <2>1. l \in 1 .. l
      BY <1>1
    <2> QED BY <1>3, <2>1
  <1> QED BY <1>1, <1>4, <1>5, <1>6, <1>7 DEF IsPath
-----------------------------------------------------------------------------
(***************************************************************************)
(* Where paths lead.                                                       *)
(***************************************************************************)
\* The addresses at the end of a path are the ones of the name it starts at.
LEMMA EndHoldsTrueAddrs ==
  ASSUME NEW z \in Zones, NEW p, NEW k, IsPath(z, p, k), z[p[k]] \in AddrSets
  PROVE  z[p[k]].addrs \in TrueAddrs(z, p[1])
  <1>1. Last(p) = p[k] /\ p[k] \in Names
    BY PathSequence
  <1>2. z[p[k]] \notin Aliases
    BY <1>1, ZoneType
  <1>3. p \in Leading(z, p[1])
    BY <1>1, <1>2, EndedPathsAreShort, PathsAreChains DEF Leading
  <1> QED BY <1>1, <1>3 DEF TrueAddrs

\* A host from which aliases lead to nothing, or through more names than the
\* resolver follows, has no addresses within the depth it searches.
LEMMA LeadsNowhere ==
  ASSUME NEW z \in Zones, NEW p, NEW k, IsPath(z, p, k),
         k > DNS_MAX_CNAME_DEPTH \/ z[p[k]] = Absent
  PROVE  \A path \in Leading(z, p[1]) : Len(path) > DNS_MAX_CNAME_DEPTH
  <1> SUFFICES ASSUME NEW path \in Leading(z, p[1]), ~(Len(path) > DNS_MAX_CNAME_DEPTH)
               PROVE  FALSE
    OBVIOUS
  <1> DEFINE l == Len(path)
  <1>1. p[1] \in Names /\ k \in Nat \ {0} /\ p[k] \in Names
    BY PathSequence
  <1>2. path \in Chains(z, p[1]) /\ z[Last(path)] \in AddrSets
    BY DEF Leading
  <1>3. IsPath(z, path, l) /\ path[1] = p[1]
    BY <1>1, <1>2, ChainsArePaths
  <1>4. l \in Nat \ {0} /\ Last(path) = path[l] /\ path[l] \in Names
    BY <1>3, PathSequence
  <1>5. l <= DNS_MAX_CNAME_DEPTH /\ z[path[l]] \in AddrSets
    BY <1>2, <1>4 DEF DNS_MAX_CNAME_DEPTH
  <1> HIDE DEF l
  <1>6. z[path[l]] \notin Aliases
    BY <1>4, <1>5, ZoneType
  <1>7. CASE l < k
    <2>1. l \in 1 .. k - 1 /\ l \in 1 .. k /\ l \in 1 .. l
      BY <1>1, <1>4, <1>7
    <2>2. p[l] = path[l]
      BY <2>1, <1>3, SameStart
    <2> QED BY <2>1, <2>2, <1>6 DEF IsPath
  <1>8. CASE k <= l
    <2>1. k \in 1 .. k /\ z[p[k]] = Absent
      BY <1>1, <1>4, <1>5, <1>8 DEF DNS_MAX_CNAME_DEPTH
    <2>2. p[k] = path[k]
      BY <2>1, <1>3, <1>8, SameStart
    <2>3. CASE k = l
      BY <2>1, <2>2, <2>3, <1>4, <1>5, ZoneType
    <2>4. CASE k # l
      <3>1. k \in 1 .. l - 1
        BY <1>1, <1>4, <1>8, <2>4
      <3>2. z[path[k]] \in Aliases
        BY <3>1, <1>3 DEF IsPath
      <3> QED BY <3>2, <2>1, <2>2, <1>1, ZoneType
    <2> QED BY <2>3, <2>4
  <1> QED BY <1>1, <1>4, <1>7, <1>8
-----------------------------------------------------------------------------
(***************************************************************************)
(* Answers, and what the parser makes of them.                             *)
(***************************************************************************)
\* answers holds the aliases along p and then the addresses in found.
AliasesThenAddrs(answers, p, k, found) ==
  LET m == k - 1 + Len(found)
  IN  /\ DOMAIN answers = 1 .. m
      /\ Len(answers) = m
      /\ \A i \in 1 .. k - 1 : answers[i].type = "CNAME" /\ answers[i].data = p[i + 1]
      /\ \A i \in k .. m : answers[i].type = "A" /\ answers[i].data = found[i - k + 1]
      /\ \A i \in 1 .. m : answers[i].ttl \in Ttls

\* What a server sends: aliases, and if it gets to their end the addresses
\* that the data holds there.
LEMMA AnswerShape ==
  ASSUME NEW answers \in Answers, zone \in Zones, qname \in Names
  PROVE  \E p, k, found :
           /\ IsPath(zone, p, k) /\ p[1] = qname
           /\ AliasesThenAddrs(answers, p, k, found)
           /\ \/ k > 1 /\ found = << >>
              \/ zone[p[k]] = Absent /\ found = << >>
              \/ zone[p[k]] \in AddrSets /\ found = zone[p[k]].addrs
  <1>0. PICK records \in ServerRecords(zone, qname) :
          \E ttls \in [DOMAIN records -> Ttls] :
             answers = [i \in DOMAIN records |->
                [type |-> records[i].type, data |-> records[i].data, ttl |-> ttls[i]]]
    BY DEF Answers
  <1>1. PICK ttls \in [DOMAIN records -> Ttls] :
          answers = [i \in DOMAIN records |->
             [type |-> records[i].type, data |-> records[i].data, ttl |-> ttls[i]]]
    BY <1>0
  <1>2. \A path \in Chains(zone, qname) :
          IsPath(zone, path, Len(path)) /\ path[1] = qname /\ Last(path) = path[Len(path)]
    BY ChainsArePaths, PathSequence
  <1>3. \A path \in Chains(zone, qname) :
          /\ Len(path) \in Nat \ {0}
          /\ DOMAIN AliasRecords(path) = 1 .. Len(path) - 1
          /\ AliasRecords(path) \in Seq([type : {"CNAME"}, data : Names])
          /\ Len(AliasRecords(path)) = Len(path) - 1
    BY <1>2, PathSequence DEF AliasRecords, IsPath
  <1>4. CASE \E path \in Chains(zone, qname) : Len(path) > 1 /\ records = AliasRecords(path)
    <2>1. PICK path \in Chains(zone, qname) : Len(path) > 1 /\ records = AliasRecords(path)
      BY <1>4
    <2> DEFINE k == Len(path)
    <2>2. AliasesThenAddrs(answers, path, k, << >>)
      <3>1. DOMAIN answers = 1 .. k - 1 + 0 /\ Len(answers) = k - 1 + 0 /\ Len(<< >>) = 0 /\ k \in Nat \ {0}
        BY <1>1, <1>3, <2>1
      <3>2. \A i \in 1 .. k - 1 : answers[i].type = "CNAME" /\ answers[i].data = path[i + 1] /\ answers[i].ttl \in Ttls
        BY <1>1, <1>3, <2>1 DEF AliasRecords
      <3> HIDE DEF k
      <3>3. k .. k - 1 = {} /\ k - 1 + 0 = k - 1
        BY <3>1
      <3> QED BY <3>1, <3>2, <3>3 DEF AliasesThenAddrs
    <2> QED BY <1>2, <2>1, <2>2
  <1>5. CASE \E path \in Chains(zone, qname) :
               /\ zone[Last(path)] \notin Aliases
               /\ records = AliasRecords(path) \o AddrRecords(zone, Last(path))
    <2>1. PICK path \in Chains(zone, qname) :
               /\ zone[Last(path)] \notin Aliases
               /\ records = AliasRecords(path) \o AddrRecords(zone, Last(path))
      BY <1>5
    <2> DEFINE k == Len(path)
               last == path[k]
               found == IF zone[last] \in AddrSets THEN zone[last].addrs ELSE << >>
    <2>2. last \in Names /\ last = Last(path)
      BY <1>2, <1>3, PathSequence
    <2>3. \/ zone[last] = Absent /\ zone[last] \notin AddrSets
          \/ zone[last] \in AddrSets /\ zone[last].addrs \in AddrLists
      BY <2>1, <2>2, ZoneType
    <2>4. \E D : found \in Seq(D)
      <3>1. CASE zone[last] \in AddrSets
        BY <2>3, <3>1, AddrAssumption
      <3>2. CASE zone[last] \notin AddrSets
        <4>1. found \in Seq({})
          BY <3>2
        <4> QED BY <4>1
      <3> QED BY <3>1, <3>2
    <2>5. Len(found) \in Nat /\ DOMAIN found = 1 .. Len(found)
      BY <2>4
    <2>6. /\ AddrRecords(zone, last) = [i \in DOMAIN found |-> [type |-> "A", data |-> found[i]]]
      BY <2>3 DEF AddrRecords
    <2> HIDE DEF found, last
    <2>7. /\ AddrRecords(zone, last) \in Seq([type : {"A"}, data : {found[i] : i \in DOMAIN found}])
          /\ Len(AddrRecords(zone, last)) = Len(found)
      BY <2>5, <2>6
    <2> DEFINE a == AliasRecords(path)
               b == AddrRecords(zone, last)
               R == [type : {"CNAME"}, data : Names] \cup [type : {"A"}, data : {found[i] : i \in DOMAIN found}]
    <2>8. a \in Seq(R) /\ b \in Seq(R) /\ Len(a) = k - 1 /\ Len(b) = Len(found) /\ k \in Nat \ {0}
      <3>1. a \in [1 .. k - 1 -> R] /\ k - 1 \in Nat
        <4>1. \A i \in 1 .. k - 1 : path[i + 1] \in Names
          BY <1>2, <1>3, PathSequence
        <4> QED BY <1>3, <4>1 DEF AliasRecords
      <3>2. b \in [1 .. Len(found) -> R]
        BY <2>5, <2>6
      <3>3. Len(a) = k - 1 /\ Len(b) = Len(found) /\ k \in Nat \ {0}
        BY <1>3, <2>7
      <3> HIDE DEF R, a, b, k
      <3>4. a \in Seq(R)
        BY <3>1
      <3>5. b \in Seq(R)
        BY <2>5, <3>2
      <3> QED BY <3>3, <3>4, <3>5
    <2>9. a \o b = records
      BY <2>1, <2>2
    <2> HIDE DEF R
    <2>10. /\ records \in Seq(R)
           /\ Len(records) = Len(a) + Len(b)
           /\ \A i \in 1 .. Len(a) + Len(b) :
                records[i] = IF i <= Len(a) THEN a[i] ELSE b[i - Len(a)]
      <3> HIDE DEF a, b
      <3> QED BY <2>8, <2>9, ConcatProperties
    <2>11. /\ DOMAIN records = 1 .. k - 1 + Len(found)
      BY <2>8, <2>10
    <2>12. DOMAIN answers = 1 .. k - 1 + Len(found) /\ Len(answers) = k - 1 + Len(found)
      BY <1>1, <2>5, <2>8, <2>11
    <2>13. ASSUME NEW i \in 1 .. k - 1
           PROVE  answers[i].type = "CNAME" /\ answers[i].data = path[i + 1]
      <3>1. i \in 1 .. k - 1 + Len(found) /\ i <= k - 1
        BY <2>5, <2>8
      <3>2. records[i] = a[i]
        BY <3>1, <2>8, <2>10
      <3>3. a[i] = [type |-> "CNAME", data |-> path[i + 1]]
        BY DEF AliasRecords
      <3> QED BY <1>1, <2>11, <3>1, <3>2, <3>3
    <2>14. ASSUME NEW i \in k .. k - 1 + Len(found)
           PROVE  answers[i].type = "A" /\ answers[i].data = found[i - k + 1]
      <3>1. /\ i \in 1 .. k - 1 + Len(found) /\ ~(i <= k - 1)
            /\ i - k + 1 \in 1 .. Len(found) /\ i - (k - 1) = i - k + 1
        BY <2>5, <2>8
      <3>2. records[i] = b[i - k + 1]
        BY <3>1, <2>8, <2>10
      <3>3. b[i - k + 1] = [type |-> "A", data |-> found[i - k + 1]]
        BY <2>5, <2>6, <3>1
      <3> QED BY <1>1, <2>11, <3>1, <3>2, <3>3
    <2>15. \A i \in 1 .. k - 1 + Len(found) : answers[i].ttl \in Ttls
      BY <1>1, <2>11
    <2>16. AliasesThenAddrs(answers, path, k, found)
      BY <2>12, <2>13, <2>14, <2>15 DEF AliasesThenAddrs
    <2>17. \/ zone[path[k]] = Absent /\ found = << >>
           \/ zone[path[k]] \in AddrSets /\ found = zone[path[k]].addrs
      BY <2>3 DEF found, last
    <2> QED BY <1>2, <2>16, <2>17
  <1> QED BY <1>1, <1>4, <1>5 DEF ServerRecords

\* addrs holds what the loop of parse_dns_answers has found after each record.
Parsing(addrs, answers, m, D) ==
  /\ addrs[0] = << >>
  /\ \A i \in 0 .. m : addrs[i] \in Seq(D)
  /\ \A i \in 1 .. m :
       addrs[i] = IF answers[i].type = "A"
                  THEN Append(addrs[i - 1], answers[i].data)
                  ELSE addrs[i - 1]
  /\ ParsedAddrs(answers) = addrs[m]

\* The recursive function under ParsedAddrs is that loop.
LEMMA ParsingSteps ==
  ASSUME NEW m \in Nat, NEW D, NEW answers, DOMAIN answers = 1 .. m, Len(answers) = m,
         \A i \in 1 .. m : answers[i].type = "A" => answers[i].data \in D
  PROVE  \E addrs : Parsing(addrs, answers, m, D)
  <1> DEFINE S == Seq(D)
             Is(addrs) == addrs = [i \in 0 .. m |->
                            IF i = 0 THEN << >>
                            ELSE IF answers[i].type = "A"
                                 THEN Append(addrs[i - 1], answers[i].data)
                                 ELSE addrs[i - 1]]
             step == [x \in (1 .. m) \X S |->
                        IF answers[x[1]].type = "A"
                        THEN Append(x[2], answers[x[1]].data) ELSE x[2]]
  <1>1. << >> \in S
    OBVIOUS
  <1>2. \A i \in 1 .. m, s \in S :
          /\ (IF answers[i].type = "A" THEN Append(s, answers[i].data) ELSE s) \in S
          /\ step[<<i, s>>] = IF answers[i].type = "A" THEN Append(s, answers[i].data) ELSE s
    OBVIOUS
  <1>3. step \in [(1 .. m) \X S -> S]
    BY <1>2
  <1> HIDE DEF S, step
  <1>4. PICK f : Recursive(f, m, S, << >>, step)
    BY <1>1, <1>3, RecursionExists
  <1>5. /\ f \in [0 .. m -> S] /\ f[0] = << >>
        /\ \A i \in 1 .. m : f[i] = IF answers[i].type = "A"
                                   THEN Append(f[i - 1], answers[i].data) ELSE f[i - 1]
    <2>1. f \in [0 .. m -> S] /\ f[0] = << >> /\ \A i \in 1 .. m : f[i] = step[<<i, f[i - 1]>>]
      BY <1>4 DEF Recursive
    <2>2. \A i \in 1 .. m : f[i - 1] \in S
      BY <2>1
    <2> QED BY <2>1, <2>2, <1>2
  <1>6. Is(f)
    <2>1. \A i \in 0 .. m : f[i] = IF i = 0 THEN << >>
                            ELSE IF answers[i].type = "A"
                                 THEN Append(f[i - 1], answers[i].data)
                                 ELSE f[i - 1]
      <3> TAKE i \in 0 .. m
      <3>1. CASE i = 0
        BY <3>1, <1>5
      <3>2. CASE i # 0
        <4>1. i \in 1 .. m
          BY <3>2
        <4> QED BY <4>1, <3>2, <1>5
      <3> QED BY <3>1, <3>2
    <2> QED BY <2>1, <1>5
  <1> DEFINE parsed == CHOOSE addrs : Is(addrs)
  <1>7. Is(parsed)
    <2> HIDE DEF Is
    <2> QED BY <1>6
  <1>8. ParsedAddrs(answers) = parsed[m]
    BY DEF ParsedAddrs
  <1> HIDE DEF parsed
  <1>9. /\ parsed[0] = << >>
        /\ \A i \in 1 .. m :
                parsed[i] = IF answers[i].type = "A"
                            THEN Append(parsed[i - 1], answers[i].data)
                            ELSE parsed[i - 1]
    <2>1. parsed[0] = << >>
      BY <1>7
    <2>2. ASSUME NEW i \in 1 .. m
          PROVE  parsed[i] = IF answers[i].type = "A"
                             THEN Append(parsed[i - 1], answers[i].data)
                             ELSE parsed[i - 1]
      <3>1. i \in 0 .. m /\ i # 0
        OBVIOUS
      <3> QED BY <3>1, <1>7
    <2> QED BY <2>1, <2>2
  <1>10. \A i \in 0 .. m : parsed[i] \in S
    <2> DEFINE T == {i \in Nat : i <= m => parsed[i] \in S}
    <2>1. 0 \in T
      BY <1>1, <1>9
    <2>2. ASSUME NEW i \in Nat, i \in T PROVE i + 1 \in T
      <3> SUFFICES ASSUME i + 1 <= m PROVE parsed[i + 1] \in S
        OBVIOUS
      <3>1. parsed[i] \in S /\ i + 1 \in 1 .. m /\ (i + 1) - 1 = i
        BY <2>2
      <3> QED BY <3>1, <1>2, <1>9
    <2>3. \A i \in Nat : i \in T
      <3> HIDE DEF T
      <3> QED BY <2>1, <2>2, SetInduction
    <2> QED BY <2>3
  <1> QED BY <1>8, <1>9, <1>10 DEF S, Parsing

\* From aliases followed by addresses the parser takes the addresses.
LEMMA ParsedAddrsAreFound ==
  ASSUME NEW p, NEW k \in Nat \ {0}, NEW D, NEW found \in Seq(D), NEW answers,
         AliasesThenAddrs(answers, p, k, found)
  PROVE  ParsedAddrs(answers) = found
  <1> DEFINE m == k - 1 + Len(found)
  <1>1. Len(found) \in Nat /\ m \in Nat /\ \A j \in 1 .. Len(found) : found[j] \in D
    OBVIOUS
  <1>2. /\ DOMAIN answers = 1 .. m /\ Len(answers) = m
        /\ \A i \in 1 .. k - 1 : answers[i].type = "CNAME"
        /\ \A i \in k .. m : answers[i].type = "A" /\ answers[i].data = found[i - k + 1]
    BY DEF AliasesThenAddrs
  <1>3. \A i \in 1 .. m : answers[i].type = "A" => answers[i].data \in D
    <2> SUFFICES ASSUME NEW i \in 1 .. m, answers[i].type = "A" PROVE answers[i].data \in D
      OBVIOUS
    <2>1. CASE i <= k - 1
      BY <1>2, <2>1
    <2>2. CASE ~(i <= k - 1)
      <3>1. i \in k .. m /\ i - k + 1 \in 1 .. Len(found)
        BY <1>1, <2>2
      <3> QED BY <1>1, <1>2, <3>1
    <2> QED BY <2>1, <2>2
  <1> HIDE DEF m
  <1>4a. PICK addrs : Parsing(addrs, answers, m, D)
    <2>1. m \in Nat /\ DOMAIN answers = 1 .. m /\ Len(answers) = m
      BY <1>1, <1>2
    <2> QED BY <2>1, <1>3, ParsingSteps
  <1>4. /\ addrs[0] = << >>
        /\ \A i \in 0 .. m : addrs[i] \in Seq(D)
        /\ \A i \in 1 .. m :
             addrs[i] = IF answers[i].type = "A"
                        THEN Append(addrs[i - 1], answers[i].data)
                        ELSE addrs[i - 1]
        /\ ParsedAddrs(answers) = addrs[m]
    BY <1>4a DEF Parsing
  <1>5. addrs[k - 1] = << >>
    <2> DEFINE T == {i \in Nat : i <= k - 1 => addrs[i] = << >>}
    <2>1. 0 \in T
      BY <1>4
    <2>2. ASSUME NEW i \in Nat, i \in T PROVE i + 1 \in T
      <3> SUFFICES ASSUME i + 1 <= k - 1 PROVE addrs[i + 1] = << >>
        OBVIOUS
      <3>1. addrs[i] = << >> /\ i + 1 \in 1 .. k - 1 /\ i + 1 \in 1 .. m /\ (i + 1) - 1 = i
        BY <2>2, <1>1 DEF m
      <3>2. answers[i + 1].type = "CNAME"
        BY <1>2, <3>1
      <3> QED BY <3>1, <3>2, <1>4
    <2>3. \A i \in Nat : i \in T
      <3> HIDE DEF T
      <3> QED BY <2>1, <2>2, SetInduction
    <2> QED BY <2>3
  <1> DEFINE Agree(j) == /\ Len(addrs[k - 1 + j]) = j
                         /\ \A i \in 1 .. j : addrs[k - 1 + j][i] = found[i]
             T == {j \in Nat : j <= Len(found) => Agree(j)}
  <1>6. 0 \in T
    BY <1>5
  <1>7. ASSUME NEW j \in Nat, j \in T PROVE j + 1 \in T
    <2> SUFFICES ASSUME j + 1 <= Len(found) PROVE Agree(j + 1)
      <3> HIDE DEF Agree
      <3> QED OBVIOUS
    <2> DEFINE s == addrs[k - 1 + j]
               next == addrs[k - 1 + (j + 1)]
    <2>1. /\ Len(s) = j
          /\ \A i \in 1 .. j : s[i] = found[i]
      BY <1>7
    <2>2. /\ k - 1 + (j + 1) \in 1 .. m /\ k - 1 + (j + 1) \in k .. m
          /\ (k - 1 + (j + 1)) - 1 = k - 1 + j /\ k - 1 + j \in 0 .. m
          /\ (k - 1 + (j + 1)) - k + 1 = j + 1
      BY <1>1 DEF m
    <2>3. s \in Seq(D)
      BY <1>4, <2>2
    <2>4. /\ answers[k - 1 + (j + 1)].type = "A"
          /\ answers[k - 1 + (j + 1)].data = found[(k - 1 + (j + 1)) - k + 1]
      BY <1>2, <2>2
    <2>5. answers[k - 1 + (j + 1)].data = found[j + 1]
      BY <2>2, <2>4
    <2>6. next = IF answers[k - 1 + (j + 1)].type = "A"
                 THEN Append(addrs[(k - 1 + (j + 1)) - 1], answers[k - 1 + (j + 1)].data)
                 ELSE addrs[(k - 1 + (j + 1)) - 1]
      BY <1>4, <2>2
    <2>7. next = Append(s, found[j + 1])
      BY <2>6, <2>4, <2>5, <2>2
    <2>8. found[j + 1] \in D
      BY <1>1
    <2> HIDE DEF s, next
    <2>9. Len(next) = j + 1 /\ \A i \in 1 .. j + 1 : next[i] = found[i]
      BY <2>1, <2>3, <2>7, <2>8
    <2> QED BY <2>9 DEF next
  <1>8. \A j \in Nat : j \in T
    <2> HIDE DEF T
    <2> QED BY <1>6, <1>7, SetInduction
  <1>9. k - 1 + Len(found) = m /\ Len(found) \in T /\ m \in 0 .. m
    BY <1>1, <1>8 DEF m
  <1>10. addrs[m] \in Seq(D) /\ Len(addrs[m]) = Len(found) /\ \A i \in 1 .. Len(found) : addrs[m][i] = found[i]
    BY <1>4, <1>9
  <1>11. addrs[m] = found
    <2> DEFINE last == addrs[m]
    <2> HIDE DEF last
    <2>1. last \in Seq(D) /\ Len(last) = Len(found) /\ \A i \in 1 .. Len(found) : last[i] = found[i]
      BY <1>10 DEF last
    <2>2. last = found
      BY <2>1
    <2> QED BY <2>2 DEF last
  <1> QED BY <1>4, <1>11

\* and the first alias, if there is one.
LEMMA ParsedCnameIsFirst ==
  ASSUME NEW p, NEW k \in Nat \ {0}, NEW D, NEW found \in Seq(D), NEW answers,
         AliasesThenAddrs(answers, p, k, found)
  PROVE  ParsedCname(answers) = IF k = 1 THEN Nothing ELSE p[2]
  <1> DEFINE m == k - 1 + Len(found)
             at == {i \in DOMAIN answers : answers[i].type = "CNAME"}
  <1>0. Len(found) \in Nat
    OBVIOUS
  <1>1. /\ Len(found) \in Nat /\ m \in Nat
        /\ DOMAIN answers = 1 .. m
        /\ \A i \in 1 .. k - 1 : answers[i].type = "CNAME" /\ answers[i].data = p[i + 1]
        /\ \A i \in k .. m : answers[i].type = "A"
    <2>1. m \in Nat
      BY <1>0
    <2> QED BY <1>0, <2>1 DEF AliasesThenAddrs
  <1>2. at = 1 .. k - 1
    <2>1. ASSUME NEW i \in 1 .. m PROVE i \in at <=> i \in 1 .. k - 1
      <3>1. CASE i <= k - 1
        BY <1>1, <3>1
      <3>2. CASE ~(i <= k - 1)
        <4>1. i \in k .. m
          BY <3>2, <1>1
        <4> QED BY <1>1, <4>1, <3>2
      <3> QED BY <3>1, <3>2
    <2>2. 1 .. k - 1 \subseteq 1 .. m
      BY <1>1
    <2> QED BY <2>1, <2>2, <1>1
  <1>3. ParsedCname(answers) = IF at = {} THEN Nothing ELSE answers[Min(at)].data
    BY DEF ParsedCname
  <1> HIDE DEF at
  <1>4. CASE k = 1
    BY <1>2, <1>3, <1>4
  <1>5. CASE k # 1
    <2>1. 1 \in at /\ \A i \in at : 1 <= i
      BY <1>2, <1>5
    <2>2. Min(at) = 1
      <3>1. \A i \in at : i \in Nat
        BY <1>2
      <3> QED BY <2>1, <3>1 DEF Min
    <2>3. answers[1].data = p[2]
      <3>1. 1 \in 1 .. k - 1 /\ 1 + 1 = 2
        BY <1>5
      <3> QED BY <1>1, <3>1
    <2> QED BY <1>3, <1>5, <2>1, <2>2, <2>3
  <1> QED BY <1>4, <1>5

\* The lifetime of an entry lies between the floor and the cap.
LEMMA TtlInRange ==
  ASSUME NEW answers, NEW m \in Nat, DOMAIN answers = 1 .. m,
         \A i \in 1 .. m : answers[i].ttl \in Ttls
  PROVE  TtlFromAnswers(answers) \in DNS_CACHE_TTL_FLOOR_SECS .. DNS_CACHE_TTL_CAP_SECS
  <1> DEFINE ttls == {answers[i].ttl : i \in DOMAIN answers} \ {NoTtl}
             least == IF ttls = {} THEN DNS_CACHE_TTL_FLOOR_SECS ELSE Min(ttls)
  <1>1. ttls \subseteq Nat
    BY TtlAssumption
  <1>2. least \in Nat
    <2>1. CASE ttls = {}
      BY <2>1 DEF DNS_CACHE_TTL_FLOOR_SECS
    <2>2. CASE ttls # {}
      <3> DEFINE Lowest(x) == x \in ttls /\ \A y \in ttls : x <= y
      <3>1. \E x : Lowest(x)
        <4> HIDE DEF ttls
        <4> QED BY <1>1, <2>2, LeastElement
      <3>2. Min(ttls) = CHOOSE x \in ttls : \A y \in ttls : x <= y
        BY DEF Min
      <3>3. Lowest(CHOOSE x : Lowest(x))
        <4> HIDE DEF Lowest
        <4> QED BY <3>1
      <3>4. Min(ttls) \in ttls
        <4> HIDE DEF ttls
        <4> QED BY <3>2, <3>3
      <3> QED BY <1>1, <2>2, <3>4
    <2> QED BY <2>1, <2>2
  <1>3. TtlFromAnswers(answers) = ClampTtl(least)
    BY DEF TtlFromAnswers
  <1> HIDE DEF least
  <1> QED BY <1>2, <1>3
        DEF ClampTtl, Least, Most, DNS_CACHE_TTL_FLOOR_SECS, DNS_CACHE_TTL_CAP_SECS

\* What an answer tells the resolver is true of the data it was made from.
LEMMA AnswersAreTrue ==
  ASSUME NEW answers \in Answers, zone \in Zones, qname \in Names
  PROVE  /\ TtlFromAnswers(answers) \in DNS_CACHE_TTL_FLOOR_SECS .. DNS_CACHE_TTL_CAP_SECS
         /\ \E p, k :
              /\ IsPath(zone, p, k) /\ p[1] = qname
              /\ ParsedAddrs(answers) # << >> =>
                   zone[p[k]] \in AddrSets /\ ParsedAddrs(answers) = zone[p[k]].addrs
              /\ ParsedCname(answers) # Nothing => k > 1 /\ ParsedCname(answers) = p[2]
              /\ ParsedAddrs(answers) = << >> /\ ParsedCname(answers) = Nothing =>
                   zone[p[k]] = Absent
  <1>1. PICK p, k, found :
           /\ IsPath(zone, p, k) /\ p[1] = qname
           /\ AliasesThenAddrs(answers, p, k, found)
           /\ \/ k > 1 /\ found = << >>
              \/ zone[p[k]] = Absent /\ found = << >>
              \/ zone[p[k]] \in AddrSets /\ found = zone[p[k]].addrs
    BY AnswerShape
  <1>2. /\ k \in Nat \ {0} /\ p[k] \in Names
        /\ p \in [1 .. k -> Names]
    BY <1>1, PathSequence DEF IsPath
  <1>3. found = << >> \/ (zone[p[k]] \in AddrSets /\ found \in AddrLists)
    BY <1>1, <1>2, ZoneType
  <1>4. PICK D : found \in Seq(D)
    <2>1. CASE found = << >>
      <3>1. << >> \in Seq({})
        OBVIOUS
      <3> QED BY <2>1, <3>1
    <2>2. CASE found # << >>
      BY <2>2, <1>3, AddrAssumption
    <2> QED BY <2>1, <2>2
  <1>5. ParsedAddrs(answers) = found
    BY <1>1, <1>2, <1>4, ParsedAddrsAreFound
  <1>6. ParsedCname(answers) = IF k = 1 THEN Nothing ELSE p[2]
    BY <1>1, <1>2, <1>4, ParsedCnameIsFirst
  <1>7. TtlFromAnswers(answers) \in DNS_CACHE_TTL_FLOOR_SECS .. DNS_CACHE_TTL_CAP_SECS
    <2>1. Len(found) \in Nat
      BY <1>4
    <2> DEFINE m == k - 1 + Len(found)
    <2>2. m \in Nat
      BY <1>2, <2>1
    <2>3. DOMAIN answers = 1 .. m /\ \A i \in 1 .. m : answers[i].ttl \in Ttls
      BY <1>1 DEF AliasesThenAddrs
    <2> HIDE DEF m
    <2> QED BY <2>2, <2>3, TtlInRange
  <1>8. ParsedAddrs(answers) # << >> =>
          zone[p[k]] \in AddrSets /\ ParsedAddrs(answers) = zone[p[k]].addrs
    BY <1>1, <1>5
  <1>9. ParsedCname(answers) # Nothing => k > 1 /\ ParsedCname(answers) = p[2]
    BY <1>2, <1>6
  <1>10. ASSUME ParsedAddrs(answers) = << >>, ParsedCname(answers) = Nothing
         PROVE  zone[p[k]] = Absent
    <2>1. found = << >>
      BY <1>5, <1>10
    <2>2. k = 1
      <3>1. ASSUME k # 1 PROVE FALSE
        <4>1. 2 \in 1 .. k
          BY <1>2, <3>1
        <4> QED BY <4>1, <1>2, <1>6, <1>10, <3>1, NothingAssumption
      <3> QED BY <3>1
    <2>3. ASSUME zone[p[k]] \in AddrSets, found = zone[p[k]].addrs PROVE FALSE
      BY <2>1, <2>3, <1>2, ZoneType, AddrAssumption
    <2> QED BY <1>1, <2>2, <2>3
  <1> QED BY <1>1, <1>7, <1>8, <1>9, <1>10
-----------------------------------------------------------------------------
(***************************************************************************)
(* The inductive invariant.                                                *)
(***************************************************************************)
\* One query per depth, for a host that has no entry and whose latest success
\* is as far back as the floor.
InLookup ==
  /\ pc = "query" =>
       /\ host \in Hosts /\ qname \in Names
       /\ result = Nothing
       /\ cache[host] = Nothing
       /\ stored[host] = DNS_CACHE_TTL_FLOOR_SECS
       /\ queries = depth + 1
  /\ pc = "idle" => ~overlaps /\ queries <= DNS_MAX_CNAME_DEPTH
  /\ overlaps => settled = 0

\* An entry outlives the time since it was stored, up to the floor.
Spaced ==
  \A n \in Names :
    stored[n] < DNS_CACHE_TTL_FLOOR_SECS =>
      cache[n] # Nothing /\ cache[n].left >= DNS_CACHE_TTL_FLOOR_SECS - stored[n]

\* An entry with more time left than a full lifetime minus the seconds that
\* settled has counted was made from the data as it is.
Fresh ==
  \A n \in Names :
    cache[n] # Nothing /\ cache[n].left > DNS_CACHE_TTL_CAP_SECS - settled =>
      cache[n].addrs \in TrueAddrs(zone, n)

\* A lookup that no change of the data overlaps has followed the aliases from
\* its host to the name it asks for.
OnPath ==
  pc = "query" /\ ~overlaps =>
    \E p : IsPath(zone, p, depth + 1) /\ p[1] = host /\ p[depth + 1] = qname

IInv ==
  /\ TypeOK
  /\ InLookup
  /\ Spaced
  /\ Fresh
  /\ OnPath
  /\ OnlyHostsCached
  /\ FreshOnceSettled
  /\ FailsOnlyWhenUnresolvable

LEMMA InitEstablishes == Init => IInv
  <1> SUFFICES ASSUME Init PROVE IInv
    OBVIOUS
  <1> USE DEF Init
  <1>1. TypeOK
    <2>1. cache \in [Names -> {Nothing} \cup Entries]
      OBVIOUS
    <2>2. stored \in [Names -> 0 .. DNS_CACHE_TTL_FLOOR_SECS]
      BY DEF DNS_CACHE_TTL_FLOOR_SECS
    <2>3. /\ pc \in {"idle", "query"} /\ host \in Names \cup {Nothing}
          /\ qname \in Names \cup {Nothing} /\ result = Nothing /\ zone \in Zones
      OBVIOUS
    <2>4. /\ 0 \in 0 .. DNS_MAX_CNAME_DEPTH - 1
          /\ 0 \in 0 .. DNS_MAX_CNAME_DEPTH + 1
          /\ DNS_CACHE_TTL_CAP_SECS \in 0 .. DNS_CACHE_TTL_CAP_SECS
      BY DEF DNS_MAX_CNAME_DEPTH, DNS_CACHE_TTL_CAP_SECS
    <2>5. depth = 0 /\ queries = 0 /\ settled = DNS_CACHE_TTL_CAP_SECS /\ overlaps = FALSE
      OBVIOUS
    <2> HIDE DEF Init
    <2> QED BY <2>1, <2>2, <2>3, <2>4, <2>5 DEF TypeOK
  <1>2. InLookup
    BY DEF InLookup, DNS_MAX_CNAME_DEPTH
  <1>3. Spaced /\ Fresh
    BY DEF Spaced, Fresh, DNS_CACHE_TTL_FLOOR_SECS
  <1>4. OnPath /\ OnlyHostsCached /\ FreshOnceSettled /\ FailsOnlyWhenUnresolvable
    BY HostsAssumption DEF OnPath, OnlyHostsCached, FreshOnceSettled, FailsOnlyWhenUnresolvable
  <1> QED BY <1>1, <1>2, <1>3, <1>4 DEF IInv

LEMMA HitPreserves ==
  ASSUME IInv, NEW h \in Hosts, ResolveHit(h) PROVE IInv'
  <1> USE DEF ResolveHit, lookupVars
  <1>1. h \in Names /\ cache[h] \in Entries /\ cache[h] # Nothing /\ cache[h].left > 0
    <2>1. h \in Names /\ cache[h] # Nothing /\ cache[h].left > 0
      BY HostsAssumption DEF Live
    <2> QED BY <2>1 DEF IInv, TypeOK
  <1>2. result' = [host |-> h, kind |-> "ok", addrs |-> cache[h].addrs] /\ cache[h].addrs \in AddrLists
    BY <1>1 DEF Entries
  <1>3. TypeOK'
    BY <1>1, <1>2 DEF IInv, TypeOK
  <1>4. FreshOnceSettled'
    <2>1. settled = DNS_CACHE_TTL_CAP_SECS => cache[h].addrs \in TrueAddrs(zone, h)
      BY <1>1 DEF IInv, Fresh, DNS_CACHE_TTL_CAP_SECS
    <2> QED BY <1>2, <2>1 DEF FreshOnceSettled
  <1>5. FailsOnlyWhenUnresolvable'
    BY <1>2 DEF FailsOnlyWhenUnresolvable
  <1>6. InLookup' /\ Spaced' /\ Fresh' /\ OnPath' /\ OnlyHostsCached'
    BY DEF IInv, InLookup, Spaced, Fresh, OnPath, OnlyHostsCached
  <1> QED BY <1>3, <1>4, <1>5, <1>6 DEF IInv

LEMMA MissPreserves ==
  ASSUME IInv, NEW h \in Hosts, ResolveMiss(h)
  PROVE  IInv' /\ stored[h] = DNS_CACHE_TTL_FLOOR_SECS
  <1> USE DEF ResolveMiss
  <1>1. h \in Names /\ stored[h] \in 0 .. DNS_CACHE_TTL_FLOOR_SECS /\ h # Nothing
    BY HostsAssumption, NothingAssumption DEF IInv, TypeOK
  <1>2. stored[h] = DNS_CACHE_TTL_FLOOR_SECS
    <2> SUFFICES ASSUME stored[h] < DNS_CACHE_TTL_FLOOR_SECS PROVE FALSE
      BY <1>1 DEF DNS_CACHE_TTL_FLOOR_SECS
    <2>1. cache[h] # Nothing /\ cache[h].left >= DNS_CACHE_TTL_FLOOR_SECS - stored[h]
      BY <1>1 DEF IInv, Spaced
    <2>2. cache[h].left \in Int
      BY <1>1, <2>1 DEF IInv, TypeOK, Entries, DNS_CACHE_TTL_CAP_SECS
    <2> QED BY <1>1, <2>1, <2>2 DEF Live, DNS_CACHE_TTL_FLOOR_SECS
  <1>3. /\ cache \in [Names -> {Nothing} \cup Entries]
        /\ cache'[h] = Nothing
        /\ \A n \in Names \ {h} : cache'[n] = cache[n]
        /\ \A n \in Names : cache'[n] # Nothing => cache'[n] = cache[n]
    BY <1>1 DEF IInv, TypeOK
  <1>4. TypeOK'
    BY <1>1 DEF IInv, TypeOK, DNS_MAX_CNAME_DEPTH
  <1>5. InLookup'
    BY <1>1, <1>2, <1>3 DEF IInv, InLookup
  <1>6. Spaced'
    <2> SUFFICES ASSUME NEW n \in Names, stored[n] < DNS_CACHE_TTL_FLOOR_SECS
                 PROVE  /\ cache'[n] # Nothing
                        /\ cache'[n].left >= DNS_CACHE_TTL_FLOOR_SECS - stored[n]
      BY DEF Spaced
    <2>1. n # h
      BY <1>2 DEF DNS_CACHE_TTL_FLOOR_SECS
    <2> QED BY <1>3, <2>1 DEF IInv, Spaced
  <1>7. Fresh'
    BY <1>3 DEF IInv, Fresh
  <1>8. OnPath'
    <2>1. IsPath(zone, << h >>, 0 + 1) /\ << h >>[1] = h /\ << h >>[0 + 1] = h
      BY <1>1 DEF IsPath
    <2>2. zone' = zone /\ depth' = 0 /\ host' = h /\ qname' = h
      OBVIOUS
    <2>3. IsPath(zone', << h >>, depth' + 1) /\ << h >>[1] = host' /\ << h >>[depth' + 1] = qname'
      BY <2>1, <2>2 DEF IsPath
    <2> QED BY <2>3 DEF OnPath
  <1>9. OnlyHostsCached'
    BY <1>3 DEF IInv, OnlyHostsCached
  <1>10. FreshOnceSettled' /\ FailsOnlyWhenUnresolvable'
    BY DEF FreshOnceSettled, FailsOnlyWhenUnresolvable
  <1> QED BY <1>2, <1>4, <1>5, <1>6, <1>7, <1>8, <1>9, <1>10 DEF IInv

\* Whatever a lookup fails for, it leaves the cache and its history alone.
LEMMA FailurePreserves ==
  ASSUME IInv, pc = "query", NEW why \in {"answer", "transport"}, Fails(why),
         \/ why = "transport"
         \/ settled = DNS_CACHE_TTL_CAP_SECS =>
              \A path \in Leading(zone, host) : Len(path) > DNS_MAX_CNAME_DEPTH
  PROVE  IInv'
  <1> USE DEF Fails, Returns
  <1>1. /\ host \in Names /\ queries <= DNS_MAX_CNAME_DEPTH
        /\ result' = [host |-> host, kind |-> "err", why |-> why]
    BY HostsAssumption DEF IInv, InLookup, TypeOK, DNS_MAX_CNAME_DEPTH
  <1>2. TypeOK'
    <2>1. result' \in [host : Names, kind : {"err"}, why : {"answer", "transport"}]
      BY <1>1
    <2>2. /\ pc' = "idle" /\ host' = Nothing /\ qname' = Nothing /\ depth' = 0 /\ overlaps' = FALSE
          /\ 0 \in 0 .. DNS_MAX_CNAME_DEPTH - 1
      BY DEF DNS_MAX_CNAME_DEPTH
    <2> QED BY <2>1, <2>2 DEF IInv, TypeOK
  <1>3. InLookup' /\ OnPath'
    BY <1>1 DEF InLookup, OnPath
  <1>4. Spaced' /\ Fresh' /\ OnlyHostsCached'
    BY DEF IInv, Spaced, Fresh, OnlyHostsCached
  <1>5. FreshOnceSettled'
    BY <1>1 DEF FreshOnceSettled
  <1>6. FailsOnlyWhenUnresolvable'
    BY <1>1 DEF FailsOnlyWhenUnresolvable
  <1> QED BY <1>2, <1>3, <1>4, <1>5, <1>6 DEF IInv

\* The path of a lookup goes on with what an answer followed.
LEMMA LookupGoesOn ==
  ASSUME IInv, pc = "query", ~overlaps, NEW r, NEW l, IsPath(zone, r, l), r[1] = qname
  PROVE  \E p : /\ IsPath(zone, p, depth + l) /\ p[1] = host
                /\ p[depth + l] = r[l]
  <1>1. PICK p : IsPath(zone, p, depth + 1) /\ p[1] = host /\ p[depth + 1] = qname
    BY DEF IInv, OnPath
  <1>2. l \in Nat /\ depth \in Nat /\ (depth + 1) + l - 1 = depth + l
    BY DEF IsPath, IInv, TypeOK, DNS_MAX_CNAME_DEPTH
  <1>3. /\ IsPath(zone, Joined(p, depth + 1, r, l), (depth + 1) + l - 1)
        /\ Joined(p, depth + 1, r, l)[1] = p[1]
        /\ Joined(p, depth + 1, r, l)[(depth + 1) + l - 1] = r[l]
    BY <1>1, JoinedIsPath
  <1> QED BY <1>1, <1>2, <1>3

LEMMA SuccessPreserves ==
  ASSUME IInv, pc = "query", NEW answers \in Answers, Succeeds(answers)
  PROVE  IInv'
  <1> DEFINE found == ParsedAddrs(answers)
             ttl == TtlFromAnswers(answers)
  <1>1. zone \in Zones /\ qname \in Names /\ host \in Hosts /\ host \in Names /\ host # Nothing
    BY HostsAssumption, NothingAssumption DEF IInv, TypeOK, InLookup
  <1>2. /\ ttl \in DNS_CACHE_TTL_FLOOR_SECS .. DNS_CACHE_TTL_CAP_SECS
        /\ \E p, k :
              /\ IsPath(zone, p, k) /\ p[1] = qname
              /\ found # << >> =>
                   zone[p[k]] \in AddrSets /\ found = zone[p[k]].addrs
    BY <1>1, AnswersAreTrue
  <1>3. PICK r, l :
              /\ IsPath(zone, r, l) /\ r[1] = qname
              /\ found # << >> =>
                   zone[r[l]] \in AddrSets /\ found = zone[r[l]].addrs
    BY <1>2
  <1> HIDE DEF found, ttl
  <1> DEFINE entry == [addrs |-> found, left |-> ttl]
  <1>4. /\ found # << >>
        /\ cache' = [cache EXCEPT ![host] = entry]
        /\ stored' = [stored EXCEPT ![host] = 0]
        /\ Returns([host |-> host, kind |-> "ok", addrs |-> found])
    BY DEF Succeeds, StoreKey, found, ttl
  <1>5. found \in AddrLists
    <2>1. r[l] \in Names
      BY <1>3, PathSequence
    <2> QED BY <2>1, <1>1, <1>3, <1>4, ZoneType
  <1>6. ~overlaps => found \in TrueAddrs(zone, host)
    <2> SUFFICES ASSUME ~overlaps PROVE found \in TrueAddrs(zone, host)
      OBVIOUS
    <2>1. PICK p : IsPath(zone, p, depth + l) /\ p[1] = host /\ p[depth + l] = r[l]
      BY <1>3, LookupGoesOn
    <2>2. zone[p[depth + l]] \in AddrSets /\ found = zone[p[depth + l]].addrs
      BY <1>3, <1>4, <2>1
    <2> QED BY <1>1, <2>1, <2>2, EndHoldsTrueAddrs
  <1>7. /\ cache'[host] = entry /\ entry \in Entries /\ entry # Nothing
        /\ \A n \in Names \ {host} : cache'[n] = cache[n] /\ stored'[n] = stored[n]
        /\ stored'[host] = 0
    <2>1. entry \in Entries
      BY <1>2, <1>5 DEF Entries, DNS_CACHE_TTL_FLOOR_SECS, DNS_CACHE_TTL_CAP_SECS
    <2> QED BY <1>1, <1>4, <2>1, NothingAssumption DEF IInv, TypeOK
  <1>8. TypeOK'
    <2>1. cache' \in [Names -> {Nothing} \cup Entries]
      BY <1>4, <1>7 DEF IInv, TypeOK
    <2>2. stored' \in [Names -> 0 .. DNS_CACHE_TTL_FLOOR_SECS]
      <3>1. 0 \in 0 .. DNS_CACHE_TTL_FLOOR_SECS
        BY DEF DNS_CACHE_TTL_FLOOR_SECS
      <3> QED BY <1>4, <3>1 DEF IInv, TypeOK
    <2>3. result' \in [host : Names, kind : {"ok"}, addrs : AddrLists]
      BY <1>1, <1>4, <1>5 DEF Returns
    <2>4. /\ pc' = "idle" /\ host' = Nothing /\ qname' = Nothing /\ depth' = 0 /\ overlaps' = FALSE
          /\ UNCHANGED <<zone, settled, queries>>
          /\ 0 \in 0 .. DNS_MAX_CNAME_DEPTH - 1
      BY <1>4 DEF Returns, DNS_MAX_CNAME_DEPTH
    <2> QED BY <2>1, <2>2, <2>3, <2>4 DEF IInv, TypeOK
  <1>9. InLookup' /\ OnPath'
    BY <1>4 DEF Returns, IInv, TypeOK, InLookup, OnPath, DNS_MAX_CNAME_DEPTH
  <1>10. Spaced'
    <2> SUFFICES ASSUME NEW n \in Names, stored'[n] < DNS_CACHE_TTL_FLOOR_SECS
                 PROVE  /\ cache'[n] # Nothing
                        /\ cache'[n].left >= DNS_CACHE_TTL_FLOOR_SECS - stored'[n]
      BY DEF Spaced
    <2>1. CASE n = host
      BY <2>1, <1>2, <1>7 DEF DNS_CACHE_TTL_FLOOR_SECS, DNS_CACHE_TTL_CAP_SECS
    <2>2. CASE n # host
      BY <2>2, <1>7 DEF IInv, Spaced
    <2> QED BY <2>1, <2>2
  <1>11. Fresh'
    <2> SUFFICES ASSUME NEW n \in Names, cache'[n] # Nothing,
                        cache'[n].left > DNS_CACHE_TTL_CAP_SECS - settled
                 PROVE  cache'[n].addrs \in TrueAddrs(zone, n)
      BY <1>4 DEF Fresh, Returns
    <2>1. CASE n = host
      <3>1. settled # 0
        BY <2>1, <1>2, <1>7 DEF DNS_CACHE_TTL_FLOOR_SECS, DNS_CACHE_TTL_CAP_SECS
      <3>2. ~overlaps
        BY <3>1 DEF IInv, InLookup
      <3> QED BY <2>1, <3>2, <1>6, <1>7
    <2>2. CASE n # host
      BY <2>2, <1>7 DEF IInv, Fresh
    <2> QED BY <2>1, <2>2
  <1>12. OnlyHostsCached'
    BY <1>1, <1>7 DEF IInv, OnlyHostsCached
  <1>13. FreshOnceSettled'
    BY <1>4, <1>6 DEF Returns, FreshOnceSettled, IInv, InLookup, DNS_CACHE_TTL_CAP_SECS
  <1>14. FailsOnlyWhenUnresolvable'
    BY <1>4 DEF Returns, FailsOnlyWhenUnresolvable
  <1> QED BY <1>8, <1>9, <1>10, <1>11, <1>12, <1>13, <1>14 DEF IInv

LEMMA FollowingPreserves ==
  ASSUME IInv, pc = "query", NEW answers \in Answers, Follows(answers)
  PROVE  IInv'
  <1>1. zone \in Zones /\ qname \in Names /\ host \in Names
    BY HostsAssumption DEF IInv, TypeOK, InLookup
  <1>2. PICK r, l :
              /\ IsPath(zone, r, l) /\ r[1] = qname
              /\ l > 1 /\ ParsedCname(answers) = r[2]
    BY <1>1, AnswersAreTrue DEF Follows
  <1> DEFINE two == << qname, r[2] >>
  <1>3. IsPath(zone, two, 2) /\ two[1] = qname /\ two[2] = r[2] /\ r[2] \in Names
    BY <1>2 DEF IsPath
  <1>4. ~overlaps => \E p : IsPath(zone, p, depth + 2) /\ p[1] = host /\ p[depth + 2] = r[2]
    <2> HIDE DEF two
    <2> QED BY <1>3, LookupGoesOn
  <1>5. CASE TooDeep(NextDepth(depth))
    <2>1. Fails("answer") /\ depth + 2 > DNS_MAX_CNAME_DEPTH
      BY <1>5 DEF Follows, TooDeep, NextDepth, IInv, TypeOK, DNS_MAX_CNAME_DEPTH
    <2>2. ASSUME settled = DNS_CACHE_TTL_CAP_SECS
          PROVE  \A path \in Leading(zone, host) : Len(path) > DNS_MAX_CNAME_DEPTH
      <3>1. ~overlaps
        BY <2>2 DEF IInv, InLookup, DNS_CACHE_TTL_CAP_SECS
      <3> QED BY <3>1, <1>1, <1>4, <2>1, LeadsNowhere
    <2> QED BY <2>1, <2>2, FailurePreserves
  <1>6. CASE ~TooDeep(NextDepth(depth))
    <2>1. /\ qname' = r[2] /\ depth' = depth + 1
          /\ queries' = Least(queries + 1, DNS_MAX_CNAME_DEPTH + 1)
          /\ UNCHANGED <<cache, pc, host, result, zone, settled, overlaps, stored>>
      BY <1>2, <1>6 DEF Follows, NextDepth
    <2>2. depth \in Nat /\ depth + 1 < DNS_MAX_CNAME_DEPTH /\ queries = depth + 1
      BY <1>6 DEF TooDeep, NextDepth, IInv, InLookup, TypeOK, DNS_MAX_CNAME_DEPTH
    <2>3. queries' = depth' + 1
      BY <2>1, <2>2 DEF Least, DNS_MAX_CNAME_DEPTH
    <2>4. TypeOK'
      BY <1>3, <2>1, <2>2, <2>3 DEF IInv, TypeOK, DNS_MAX_CNAME_DEPTH
    <2>5. InLookup'
      BY <1>3, <2>1, <2>3 DEF IInv, InLookup
    <2>6. Spaced' /\ Fresh' /\ OnlyHostsCached' /\ FreshOnceSettled' /\ FailsOnlyWhenUnresolvable'
      BY <2>1 DEF IInv, Spaced, Fresh, OnlyHostsCached, FreshOnceSettled, FailsOnlyWhenUnresolvable
    <2>7. OnPath'
      <3>1. depth' + 1 = depth + 2
        BY <2>1, <2>2
      <3>2. pc' = "query" /\ ~overlaps' =>
              \E p : IsPath(zone', p, depth' + 1) /\ p[1] = host' /\ p[depth' + 1] = qname'
        BY <1>4, <2>1, <3>1
      <3> QED BY <3>2 DEF OnPath
    <2> QED BY <2>4, <2>5, <2>6, <2>7 DEF IInv
  <1> QED BY <1>5, <1>6

\* A lookup whose aliases end in nothing may fail.
LEMMA NothingThere ==
  ASSUME IInv, pc = "query", NEW r, NEW l, IsPath(zone, r, l), r[1] = qname,
         zone[r[l]] = Absent, settled = DNS_CACHE_TTL_CAP_SECS
  PROVE  \A path \in Leading(zone, host) : Len(path) > DNS_MAX_CNAME_DEPTH
  <1>1. ~overlaps /\ zone \in Zones
    BY DEF IInv, InLookup, TypeOK, DNS_CACHE_TTL_CAP_SECS
  <1>2. PICK p : IsPath(zone, p, depth + l) /\ p[1] = host /\ p[depth + l] = r[l]
    BY <1>1, LookupGoesOn
  <1>3. zone[p[depth + l]] = Absent
    BY <1>2
  <1> QED BY <1>1, <1>2, <1>3, LeadsNowhere

LEMMA QueryPreserves ==
  ASSUME IInv, Query PROVE IInv'
  <1>1. pc = "query" /\ zone \in Zones /\ qname \in Names
    BY DEF Query, QueryAnswered, QueryRefused, QueryFails, IInv, TypeOK, InLookup
  <1>2. ASSUME NEW answers \in Answers, NoAddresses(answers) PROVE IInv'
    <2>1. PICK r, l : IsPath(zone, r, l) /\ r[1] = qname /\ zone[r[l]] = Absent
      BY <1>1, <1>2, AnswersAreTrue DEF NoAddresses
    <2>2. settled = DNS_CACHE_TTL_CAP_SECS =>
            \A path \in Leading(zone, host) : Len(path) > DNS_MAX_CNAME_DEPTH
      BY <1>1, <2>1, NothingThere
    <2>3. Fails("answer")
      BY <1>2 DEF NoAddresses
    <2> QED BY <1>1, <2>2, <2>3, FailurePreserves
  <1>3. CASE QueryAnswered
    BY <1>1, <1>2, <1>3, SuccessPreserves, FollowingPreserves DEF QueryAnswered
  <1>4. CASE QueryRefused
    <2>1. PICK path \in Chains(zone, qname) : zone[Last(path)] = Absent
      BY <1>4 DEF QueryRefused
    <2>2. IsPath(zone, path, Len(path)) /\ path[1] = qname
      BY <1>1, ChainsArePaths
    <2>3. zone[path[Len(path)]] = Absent
      BY <2>1, <2>2, PathSequence
    <2>4. settled = DNS_CACHE_TTL_CAP_SECS =>
            \A p \in Leading(zone, host) : Len(p) > DNS_MAX_CNAME_DEPTH
      BY <1>1, <2>2, <2>3, NothingThere
    <2>5. Fails("answer")
      BY <1>4 DEF QueryRefused
    <2> QED BY <1>1, <2>4, <2>5, FailurePreserves
  <1>5. CASE QueryFails
    BY <1>1, <1>5, FailurePreserves DEF QueryFails
  <1> QED BY <1>3, <1>4, <1>5 DEF Query

LEMMA ZoneChangePreserves ==
  ASSUME IInv, ZoneChanges PROVE IInv'
  <1> USE DEF ZoneChanges, lookupVars
  <1>1. TypeOK'
    <2>1. overlaps' \in BOOLEAN /\ settled' \in 0 .. DNS_CACHE_TTL_CAP_SECS /\ zone' \in Zones
      BY DEF DNS_CACHE_TTL_CAP_SECS
    <2> QED BY <2>1 DEF IInv, TypeOK
  <1>2. InLookup' /\ OnPath'
    BY DEF IInv, InLookup, OnPath
  <1>3. Spaced' /\ OnlyHostsCached'
    BY DEF IInv, Spaced, OnlyHostsCached
  <1>4. Fresh'
    <2> SUFFICES ASSUME NEW n \in Names, cache[n] # Nothing,
                        cache[n].left > DNS_CACHE_TTL_CAP_SECS - 0
                 PROVE  FALSE
      BY DEF Fresh
    <2>1. cache[n] \in Entries
      BY DEF IInv, TypeOK
    <2> QED BY <2>1 DEF Entries, DNS_CACHE_TTL_CAP_SECS
  <1>5. FreshOnceSettled' /\ FailsOnlyWhenUnresolvable'
    BY DEF FreshOnceSettled, FailsOnlyWhenUnresolvable
  <1> QED BY <1>1, <1>2, <1>3, <1>4, <1>5 DEF IInv

LEMMA TimePreserves ==
  ASSUME IInv, NEW secs \in Ticks, TimePasses(secs) PROVE IInv'
  <1> DEFINE aged(entry) == [entry EXCEPT !.left = Most(@ - secs, 0)]
  <1>1. secs \in Nat
    BY TickAssumption
  <1>2. ASSUME NEW entry \in Entries
        PROVE  /\ aged(entry) \in Entries /\ aged(entry) # Nothing
               /\ aged(entry).addrs = entry.addrs
               /\ aged(entry).left = Most(entry.left - secs, 0)
    <2>0. entry.left \in 0 .. 300
      BY DEF Entries, DNS_CACHE_TTL_CAP_SECS
    <2>1. Most(entry.left - secs, 0) \in 0 .. 300
      <3>1. \A left \in 0 .. 300 : Most(left - secs, 0) \in 0 .. 300
        BY <1>1 DEF Most
      <3> QED BY <2>0, <3>1
    <2>2. aged(entry) \in Entries
      BY <2>1 DEF Entries, DNS_CACHE_TTL_CAP_SECS
    <2> QED BY <2>1, <2>2, NothingAssumption DEF Entries
  <1>3. ASSUME NEW n \in Names
        PROVE  /\ cache[n] = Nothing => cache'[n] = Nothing
               /\ cache[n] # Nothing => cache[n] \in Entries /\ cache'[n] = aged(cache[n])
    BY DEF TimePasses, IInv, TypeOK
  <1>4. /\ settled \in 0 .. 300 /\ settled' \in 0 .. 300
        /\ settled' = IF overlaps THEN 0 ELSE Least(settled + secs, 300)
    <2>1. settled \in 0 .. 300 /\ settled' = IF overlaps THEN 0 ELSE Least(settled + secs, 300)
      BY DEF TimePasses, IInv, TypeOK, DNS_CACHE_TTL_CAP_SECS
    <2>2. Least(settled + secs, 300) \in 0 .. 300
      BY <1>1, <2>1 DEF Least
    <2> QED BY <2>1, <2>2
  <1>5. \A n \in Names : /\ stored[n] \in 0 .. 30 /\ stored'[n] \in 0 .. 30
                         /\ stored'[n] = Least(stored[n] + secs, 30)
    <2> SUFFICES ASSUME NEW n \in Names
                 PROVE  /\ stored[n] \in 0 .. 30 /\ stored'[n] \in 0 .. 30
                        /\ stored'[n] = Least(stored[n] + secs, 30)
      OBVIOUS
    <2>1. stored[n] \in 0 .. 30 /\ stored'[n] = Least(stored[n] + secs, 30)
      BY DEF TimePasses, IInv, TypeOK, DNS_CACHE_TTL_FLOOR_SECS
    <2>2. Least(stored[n] + secs, 30) \in 0 .. 30
      BY <1>1, <2>1 DEF Least
    <2> QED BY <2>1, <2>2
  <1>6. UNCHANGED <<pc, host, qname, depth, zone, overlaps, queries>> /\ result' = Nothing
    BY DEF TimePasses, lookupVars
  <1> HIDE DEF aged
  <1>7. TypeOK'
    <2>1. \A n \in Names : cache'[n] \in {Nothing} \cup Entries
      BY <1>2, <1>3
    <2>2. cache' \in [Names -> {Nothing} \cup Entries]
      BY <2>1 DEF TimePasses
    <2>3. stored' \in [Names -> 0 .. DNS_CACHE_TTL_FLOOR_SECS]
      BY <1>5 DEF TimePasses, DNS_CACHE_TTL_FLOOR_SECS
    <2>4. settled' \in 0 .. DNS_CACHE_TTL_CAP_SECS
      BY <1>4 DEF DNS_CACHE_TTL_CAP_SECS
    <2> QED BY <1>6, <2>2, <2>3, <2>4 DEF IInv, TypeOK
  <1>8. InLookup'
    <2>1. pc = "query" => cache'[host] = Nothing /\ stored'[host] = DNS_CACHE_TTL_FLOOR_SECS
      <3> SUFFICES ASSUME pc = "query"
                   PROVE  cache'[host] = Nothing /\ stored'[host] = DNS_CACHE_TTL_FLOOR_SECS
        OBVIOUS
      <3>1. host \in Names /\ cache[host] = Nothing /\ stored[host] = 30
        BY HostsAssumption DEF IInv, InLookup, DNS_CACHE_TTL_FLOOR_SECS
      <3> QED BY <1>1, <1>3, <1>5, <3>1 DEF Least, DNS_CACHE_TTL_FLOOR_SECS
    <2> QED BY <1>4, <1>6, <2>1 DEF IInv, InLookup
  <1>9. Spaced'
    <2> SUFFICES ASSUME NEW n \in Names, stored'[n] < 30
                 PROVE  cache'[n] # Nothing /\ cache'[n].left >= 30 - stored'[n]
      BY DEF Spaced, DNS_CACHE_TTL_FLOOR_SECS
    <2>1. stored[n] < 30 /\ stored'[n] = stored[n] + secs
      BY <1>1, <1>5 DEF Least
    <2>2. cache[n] # Nothing /\ cache[n].left >= 30 - stored[n]
      BY <2>1 DEF IInv, Spaced, DNS_CACHE_TTL_FLOOR_SECS
    <2>3. cache'[n] # Nothing /\ cache'[n].left = Most(cache[n].left - secs, 0)
      BY <1>2, <1>3, <2>2
    <2>4. cache[n].left \in Int /\ stored[n] \in Int
      BY <1>3, <1>5, <2>2 DEF Entries, DNS_CACHE_TTL_CAP_SECS
    <2> QED BY <1>1, <2>1, <2>2, <2>3, <2>4 DEF Most
  <1>10. Fresh'
    <2> SUFFICES ASSUME NEW n \in Names, cache'[n] # Nothing, cache'[n].left > 300 - settled'
                 PROVE  cache'[n].addrs \in TrueAddrs(zone, n)
      BY <1>6 DEF Fresh, DNS_CACHE_TTL_CAP_SECS
    <2>1. /\ cache[n] # Nothing /\ cache[n] \in Entries
          /\ cache'[n].addrs = cache[n].addrs
          /\ cache'[n].left = Most(cache[n].left - secs, 0)
      BY <1>2, <1>3
    <2>2. cache[n].left \in 0 .. 300
      BY <2>1 DEF Entries, DNS_CACHE_TTL_CAP_SECS
    <2>3. cache[n].left > 300 - settled
      <3> DEFINE left == cache[n].left
      <3>1. left \in 0 .. 300 /\ Most(left - secs, 0) > 300 - settled'
        BY <2>1, <2>2
      <3> HIDE DEF left
      <3>2. CASE overlaps
        BY <1>1, <1>4, <3>1, <3>2 DEF Most
      <3>3. CASE ~overlaps
        <4>1. settled' = Least(settled + secs, 300)
          BY <1>4, <3>3
        <4>2. left > 300 - settled
          BY <1>1, <1>4, <3>1, <4>1 DEF Least, Most
        <4> QED BY <4>2 DEF left
      <3> QED BY <3>2, <3>3 DEF left
    <2> QED BY <2>1, <2>3 DEF IInv, Fresh, DNS_CACHE_TTL_CAP_SECS
  <1>11. OnPath' /\ FreshOnceSettled' /\ FailsOnlyWhenUnresolvable'
    BY <1>6 DEF IInv, OnPath, FreshOnceSettled, FailsOnlyWhenUnresolvable
  <1>12. OnlyHostsCached'
    BY <1>3 DEF IInv, OnlyHostsCached
  <1> QED BY <1>7, <1>8, <1>9, <1>10, <1>11, <1>12 DEF IInv

LEMMA NothingPreserves ==
  ASSUME IInv, UNCHANGED vars PROVE IInv'
  BY DEF vars, lookupVars, IInv, TypeOK, InLookup, Spaced, Fresh, OnPath, OnlyHostsCached,
         FreshOnceSettled, FailsOnlyWhenUnresolvable

LEMMA NextPreserves ==
  IInv /\ [Next]_vars => IInv'
  BY HitPreserves, MissPreserves, QueryPreserves, ZoneChangePreserves, TimePreserves,
     NothingPreserves DEF Next
-----------------------------------------------------------------------------
(***************************************************************************)
(* The theorems.                                                           *)
(***************************************************************************)
\* The inductive invariant of the resolver holds.
THEOREM Inductive == Spec => []IInv
  <1> QED BY InitEstablishes, NextPreserves, PTL DEF Spec

\* The values of all variables have their types (src/dns.rs:19-26).
THEOREM TypeCorrect == Spec => []TypeOK
  <1>1. IInv => TypeOK
    BY DEF IInv
  <1> QED BY <1>1, Inductive, PTL

\* Once the DNS data has been still for the TTL cap, counted from its last change
\* or from the end of the lookup that overlapped that change, resolve returns the
\* addresses that the data holds for the host, whatever was cached before: stale
\* addresses are returned for the cap and the rest of one lookup at most
\* (src/dns.rs:53-72, :132).
THEOREM AddressesAreFresh == Spec => []FreshOnceSettled
  <1>1. IInv => FreshOnceSettled
    BY DEF IInv
  <1> QED BY <1>1, Inductive, PTL

\* With data still for as long, resolve fails only for a host that has no
\* addresses within the depth it searches, or when the transport or the DoH
\* server fails (src/dns.rs:79, :106-117).
THEOREM FailuresAreTrue == Spec => []FailsOnlyWhenUnresolvable
  <1>1. IInv => FailsOnlyWhenUnresolvable
    BY DEF IInv
  <1> QED BY <1>1, Inductive, PTL

\* No lookup sends more queries than DNS_MAX_CNAME_DEPTH, whatever aliases the
\* data holds (src/dns.rs:79-83, :111-113).
THEOREM LookupsAreBounded == Spec => []QueriesBounded
  <1>1. IInv => QueriesBounded
    BY DEF IInv, InLookup, TypeOK, QueriesBounded, DNS_MAX_CNAME_DEPTH
  <1> QED BY <1>1, Inductive, PTL

\* The cache holds entries only for hosts that callers asked for, never for a
\* name met on the way (src/dns.rs:43, :64-70).
THEOREM CacheHoldsHosts == Spec => []OnlyHostsCached
  <1>1. IInv => OnlyHostsCached
    BY DEF IInv
  <1> QED BY <1>1, Inductive, PTL

\* No lookup starts for a host that was looked up with success less than the
\* TTL floor ago (src/dns.rs:53-72, :132).
THEOREM LookupsAreSpaced == Spec => LookupSpacing
  <1>1. ASSUME IInv, [Next]_vars
        PROVE  pc = "idle" /\ pc' = "query" => stored[host'] = DNS_CACHE_TTL_FLOOR_SECS
    <2> SUFFICES ASSUME pc = "idle", pc' = "query"
                 PROVE  stored[host'] = DNS_CACHE_TTL_FLOOR_SECS
      OBVIOUS
    <2>1. PICK h \in Hosts : ResolveMiss(h)
      BY <1>1 DEF Next, vars, lookupVars, ResolveHit, Query, QueryAnswered, QueryRefused,
                  QueryFails, ZoneChanges, TimePasses
    <2>2. host' = h
      BY <2>1 DEF ResolveMiss
    <2> QED BY <1>1, <2>1, <2>2, MissPreserves
  <1>2. IInv /\ [Next]_vars =>
          [pc = "idle" /\ pc' = "query" => stored[host'] = DNS_CACHE_TTL_FLOOR_SECS]_vars
    BY <1>1
  <1> QED BY <1>2, Inductive, PTL DEF Spec, LookupSpacing
=============================================================================
