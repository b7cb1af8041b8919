-------------------------- MODULE DocumentsProofs ---------------------------
(***************************************************************************)
(* Proofs about Documents, for any school, any answers and any sent        *)
(* arrangements, and about Checks, for any subjects, callers, flights and  *)
(* cache.  A report tells of every finding what the node and the document  *)
(* say of it; the findings' order does not matter because the one the code *)
(* sorts by is total on what a node can send.  An arrangement is stored    *)
(* exactly when nothing is wrong with it: the walk up from a folder ends,  *)
(* and from the ways up follows what the least set above a folder is.  Who *)
(* asks for a check shares the one of its scope and is answered what it    *)
(* asked.                                                                  *)
(***************************************************************************)
EXTENDS Documents, Checks, FiniteSetTheorems, FunctionTheorems, SequenceTheorems,
        WellFoundedInduction, TLAPS

-----------------------------------------------------------------------------
(* Numbers and sequences of verdicts. *)

\* A set of numbers has a least one.
LEMMA Least ==
    ASSUME NEW T \in SUBSET Nat, T # {}
    PROVE  \E n \in T : \A m \in T : n <= m
<1>1. PICK n \in T : \A m \in T : ~(<<m, n>> \in OpToRel(<, Nat))
  BY WFMin, NatLessThanWellFounded
<1>2. \A m \in T : ~(m < n)
  BY <1>1 DEF OpToRel
<1> QED
  BY <1>2

LEMMA MinIs ==
    ASSUME NEW T \in SUBSET Nat, T # {}
    PROVE  Min(T) \in T /\ \A m \in T : Min(T) <= m
BY Least DEF Min

\* The operators of the community modules are the same in every module.
LEMMA SameOperators ==
    /\ \A T : A!Min(T) = Min(T) /\ R!Min(T) = Min(T) /\ R!Max(T) = Max(T)
    /\ \A s : A!ToSet(s) = ToSet(s) /\ R!ToSet(s) = ToSet(s)
    /\ \A S : A!Cardinality(S) = Cardinality(S) /\ R!Cardinality(S) = Cardinality(S)
    /\ \A f : R!AntiFunction(f) = Inverse(f, DOMAIN f, Range(f))
<1>1. \A S : A!Cardinality(S) = Cardinality(S) /\ R!Cardinality(S) = Cardinality(S)
  BY DEF A!Cardinality, R!Cardinality, Cardinality
<1>2. \A f, S, T : R!Inverse(f, S, T) = Inverse(f, S, T) /\ R!Range(f) = Range(f)
  BY DEF R!Inverse, Inverse, R!Range, Range
<1>3. \A f : R!AntiFunction(f) = Inverse(f, DOMAIN f, Range(f))
  BY <1>2 DEF R!AntiFunction
<1> QED
  BY <1>1, <1>3 DEF A!Min, R!Min, R!Max, A!ToSet, R!ToSet, Min, Max, ToSet

\* What the first refusal is.
LEMMA FirstOfIs ==
    ASSUME NEW v, NEW n \in Nat, DOMAIN v = 1..n
    PROVE  /\ A!FirstOf(v) = A!Fine <=> \A i \in 1..n : v[i] = A!Fine
           /\ A!FirstOf(v) # A!Fine =>
                \E i \in 1..n : /\ A!FirstOf(v) = v[i] /\ v[i] # A!Fine
                                /\ \A j \in 1..(i - 1) : v[j] = A!Fine
<1> DEFINE refused == {i \in DOMAIN v : v[i] # A!Fine}
<1>1. A!FirstOf(v) = IF refused = {} THEN A!Fine ELSE v[Min(refused)]
  BY SameOperators DEF A!FirstOf
<1>2. CASE refused = {}
  BY <1>1, <1>2
<1>3. CASE refused # {}
  <2>1. refused \in SUBSET Nat
    OBVIOUS
  <2>2. Min(refused) \in refused /\ \A m \in refused : Min(refused) <= m
    BY <1>3, <2>1, MinIs
  <2> DEFINE k == Min(refused)
  <2>3. k \in 1..n /\ v[k] # A!Fine
    BY <2>2
  <2>4. \A j \in 1..(k - 1) : v[j] = A!Fine
    <3> HIDE DEF k
    <3> SUFFICES ASSUME NEW j \in 1..(k - 1), v[j] # A!Fine PROVE FALSE
      OBVIOUS
    <3>1. j \in refused /\ j < k /\ j \in Int /\ k \in Int
      BY <2>3
    <3>2. k <= j
      BY <2>2, <3>1 DEF k
    <3> QED
      BY <3>1, <3>2
  <2>5. A!FirstOf(v) = v[k]
    BY <1>1, <1>3
  <2> HIDE DEF k, refused
  <2> QED
    BY <2>3, <2>4, <2>5
<1> QED
  BY <1>2, <1>3

\* The sequences a check makes its verdicts of.
LEMMA FirstOfTwo ==
    ASSUME NEW v, NEW w
    PROVE  /\ A!FirstOf(<<v, w>>) = A!Fine <=> v = A!Fine /\ w = A!Fine
           /\ A!FirstOf(<<v, w>>) # A!Fine =>
                \/ A!FirstOf(<<v, w>>) = v /\ v # A!Fine
                \/ A!FirstOf(<<v, w>>) = w /\ w # A!Fine /\ v = A!Fine
<1> DEFINE s == <<v, w>>
<1>1. DOMAIN s = 1..2 /\ s[1] = v /\ s[2] = w
  OBVIOUS
<1> HIDE DEF s
<1>2. /\ A!FirstOf(s) = A!Fine <=> \A i \in 1..2 : s[i] = A!Fine
      /\ A!FirstOf(s) # A!Fine =>
           \E i \in 1..2 : /\ A!FirstOf(s) = s[i] /\ s[i] # A!Fine
                           /\ \A j \in 1..(i - 1) : s[j] = A!Fine
  BY <1>1, FirstOfIs
<1>3. \A i \in 1..2 : i = 1 \/ i = 2
  OBVIOUS
<1>4. 1 \in 1..2 /\ 2 \in 1..2 /\ 1 \in 1..(2 - 1)
  OBVIOUS
<1> QED
  BY <1>1, <1>2, <1>3, <1>4 DEF s
-----------------------------------------------------------------------------
(* Places: what is counted up to each element numbers the elements. *)

\* When of any two elements the set up to one holds the set up to the other and
\* more, the sizes of these sets number the elements from one.
LEMMA Ranked ==
    ASSUME NEW K, IsFiniteSet(K), NEW P,
           \A m \in K : P[m] \subseteq K /\ m \in P[m],
           \A m, o \in K : m # o => P[m] # P[o] /\ (P[m] \subseteq P[o] \/ P[o] \subseteq P[m])
    PROVE  /\ Cardinality(K) \in Nat
           /\ [m \in K |-> Cardinality(P[m])] \in Bijection(K, 1..Cardinality(K))
<1> DEFINE N == Cardinality(K)
           r == [m \in K |-> Cardinality(P[m])]
<1>1. N \in Nat
  BY FS_CardinalityType
<1>2. \A m \in K : IsFiniteSet(P[m]) /\ Cardinality(P[m]) \in 1..N
  <2> SUFFICES ASSUME NEW m \in K PROVE IsFiniteSet(P[m]) /\ Cardinality(P[m]) \in 1..N
    OBVIOUS
  <2>1. IsFiniteSet(P[m]) /\ Cardinality(P[m]) <= N
    BY FS_Subset
  <2>2. Cardinality(P[m]) \in Nat
    BY <2>1, FS_CardinalityType
  <2>3. Cardinality(P[m]) # 0
    BY <2>1, FS_EmptySet
  <2> QED
    BY <1>1, <2>1, <2>2, <2>3
<1>3. \A m, o \in K : Cardinality(P[m]) = Cardinality(P[o]) => m = o
  <2> SUFFICES ASSUME NEW m \in K, NEW o \in K, m # o, Cardinality(P[m]) = Cardinality(P[o]) PROVE FALSE
    OBVIOUS
  <2>1. P[m] # P[o] /\ (P[m] \subseteq P[o] \/ P[o] \subseteq P[m])
    OBVIOUS
  <2> QED
    BY <1>2, <2>1, FS_Subset
<1>4. r \in Injection(K, 1..N)
  BY <1>2, <1>3 DEF Injection, IsInjective
<1>5. IsFiniteSet(1..N) /\ Cardinality(1..N) = N
  BY <1>1, FS_Interval
<1>6. r \in Surjection(K, 1..N)
  BY <1>4, <1>5, FS_Injection
<1> QED
  BY <1>1, <1>4, <1>6 DEF Bijection

\* The inverse of a bijection.
LEMMA AntiIs ==
    ASSUME NEW S, NEW T, NEW f \in Bijection(S, T)
    PROVE  /\ R!AntiFunction(f) \in Bijection(T, S)
           /\ \A y \in T : R!AntiFunction(f)[y] \in S /\ f[R!AntiFunction(f)[y]] = y
           /\ \A x \in S : f[x] \in T /\ R!AntiFunction(f)[f[x]] = x
<1>1. f \in [S -> T] /\ (\A x, y \in S : f[x] = f[y] => x = y) /\ \A z \in T : \E x \in S : f[x] = z
  BY DEF Bijection, Injection, IsInjective, Surjection
<1>2. DOMAIN f = S /\ Range(f) = T
  BY <1>1 DEF Range
<1>3. R!AntiFunction(f) = Inverse(f, S, T)
  BY <1>2, SameOperators
<1>4. Inverse(f, S, T) \in Bijection(T, S)
  BY Fun_BijInverse
<1>5. Inverse(f, S, T) \in [T -> S]
  BY <1>4 DEF Bijection, Injection
<1>6. \A y \in T : f[Inverse(f, S, T)[y]] = y
  BY <1>1, <1>2, Fun_InverseProperties
<1>7. \A x \in S : Inverse(f, S, T)[f[x]] = x
  BY <1>1, <1>5, <1>6
<1> QED
  BY <1>1, <1>3, <1>4, <1>5, <1>6, <1>7

LEMMA NumberedIs ==
    ASSUME NEW K, K \subseteq Nat, IsFiniteSet(K)
    PROVE  /\ Cardinality(K) \in Nat
           /\ R!Numbered(K) \in Bijection(K, 1..Cardinality(K))
<1> DEFINE P == [m \in K |-> {o \in K : o <= m}]
<1>1. \A m \in K : P[m] \subseteq K /\ m \in P[m]
  OBVIOUS
<1>2. \A m, o \in K : m # o => P[m] # P[o] /\ (P[m] \subseteq P[o] \/ P[o] \subseteq P[m])
  <2> SUFFICES ASSUME NEW m \in K, NEW o \in K, m < o PROVE P[m] # P[o] /\ P[m] \subseteq P[o]
    OBVIOUS
  <2>1. o \in P[o] /\ o \notin P[m]
    OBVIOUS
  <2>2. \A x \in P[m] : x \in P[o]
    OBVIOUS
  <2> QED
    BY <2>1, <2>2
<1>3. R!Numbered(K) = [m \in K |-> Cardinality(P[m])]
  BY SameOperators DEF R!Numbered
<1> HIDE DEF P
<1>4. IsFiniteSet(K)
  OBVIOUS
<1>5. /\ Cardinality(K) \in Nat
      /\ [m \in K |-> Cardinality(P[m])] \in Bijection(K, 1..Cardinality(K))
  BY ONLY <1>1, <1>2, <1>4, Ranked
<1> QED
  BY <1>3, <1>5

\* The places of a sequence, or of a function, where one of some values stands.
Where(s, V) == {n \in DOMAIN s : s[n] \in V}

\* A bijection takes as many values to a set as the set has.
LEMMA SameCount ==
    ASSUME NEW S, NEW T, IsFiniteSet(S), NEW f \in Bijection(S, T), NEW V \in SUBSET T
    PROVE  Cardinality(Where(f, V)) = Cardinality(V)
<1> DEFINE U == Where(f, V)
           g == [x \in U |-> f[x]]
<1>1. f \in [S -> T] /\ (\A x, y \in S : f[x] = f[y] => x = y) /\ \A z \in T : \E x \in S : f[x] = z
  BY DEF Bijection, Injection, IsInjective, Surjection
<1>2. U \subseteq S /\ \A x \in S : x \in U <=> f[x] \in V
  BY <1>1 DEF Where
<1> HIDE DEF U
<1>3. g \in Bijection(U, V)
  BY <1>1, <1>2 DEF Bijection, Injection, IsInjective, Surjection
<1>4. IsFiniteSet(U)
  BY <1>2, FS_Subset
<1> HIDE DEF g
<1>5. ExistsBijection(U, V)
  BY <1>3 DEF ExistsBijection
<1> QED
  BY <1>4, <1>5, FS_Bijection DEF U

\* What stands along a bijection stands there as often as at its ends.
LEMMA CountAlong ==
    ASSUME NEW I, IsFiniteSet(I), NEW K, NEW f \in Bijection(I, K),
           NEW p, DOMAIN p = I, NEW s, K \subseteq DOMAIN s, \A n \in I : p[n] = s[f[n]], NEW V
    PROVE  Cardinality(Where(p, V)) = Cardinality(K \cap Where(s, V))
<1> DEFINE W == K \cap Where(s, V)
<1>1. W \in SUBSET K
  OBVIOUS
<1>2. f \in [I -> K]
  BY DEF Bijection, Injection
<1>3. Where(p, V) = Where(f, W)
  BY <1>2 DEF Where
<1> HIDE DEF W
<1>4. Cardinality(Where(f, W)) = Cardinality(W)
  BY <1>1, SameCount
<1> QED
  BY <1>3, <1>4 DEF W

\* What is picked from a sequence is what stands at the places, as often.
LEMMA PickedIs ==
    ASSUME NEW S, NEW s, s \in Seq(S), NEW K, K \subseteq 1..Len(s)
    PROVE  /\ IsFiniteSet(K) /\ Cardinality(K) \in Nat
           /\ R!Picked(s, K) \in Seq(S) /\ Len(R!Picked(s, K)) = Cardinality(K)
           /\ \A T : (\A m \in K : s[m] \in T)
                    => \A n \in 1..Cardinality(K) : R!Picked(s, K)[n] \in T
           /\ \A V : Cardinality(Where(R!Picked(s, K), V)) = Cardinality(K \cap Where(s, V))
<1> DEFINE N == Cardinality(K)
           nth == R!AntiFunction(R!Numbered(K))
           p == R!Picked(s, K)
<1>1. IsFiniteSet(K) /\ K \in SUBSET Nat
  <2>1. Len(s) \in Nat
    OBVIOUS
  <2>2. IsFiniteSet(1..Len(s))
    BY <2>1, FS_Interval
  <2>3. IsFiniteSet(K)
    BY <2>2, FS_Subset
  <2> QED
    BY <2>1, <2>3
<1>2. N \in Nat /\ nth \in Bijection(1..N, K)
  BY ZenonT(60), <1>1, NumberedIs, AntiIs
<1>3. p = [n \in 1..N |-> s[nth[n]]]
  BY SameOperators DEF R!Picked
<1>4. nth \in [1..N -> K]
  BY <1>2 DEF Bijection, Injection
<1> HIDE DEF nth, p, N
<1>5. \A n \in 1..N : nth[n] \in K /\ p[n] = s[nth[n]]
  BY <1>3, <1>4
<1>6. \A n \in 1..N : p[n] \in S
  <2>1. \A m \in 1..Len(s) : s[m] \in S
    OBVIOUS
  <2>2. \A m \in K : s[m] \in S
    BY <2>1
  <2> QED
    BY <1>5, <2>2
<1>7. p \in Seq(S) /\ Len(p) = N
  <2>1. p = [n \in 1..N |-> p[n]]
    BY <1>3
  <2> QED
    BY <1>2, <1>6, <2>1, IsASeq
<1>8. \A V : Cardinality(Where(p, V)) = Cardinality(K \cap Where(s, V))
  <2>1. IsFiniteSet(1..N) /\ DOMAIN p = 1..N /\ \A n \in 1..N : p[n] = s[nth[n]]
    BY <1>2, <1>3, <1>5, FS_Interval
  <2>2. K \subseteq DOMAIN s
    OBVIOUS
  <2> QED
    BY ONLY <1>2, <2>1, <2>2, CountAlong
<1> QED
  BY <1>1, <1>2, <1>5, <1>7, <1>8 DEF p, N

\* Two sequences in a row hold what both hold.
LEMMA CountInRow ==
    ASSUME NEW S, NEW s \in Seq(S), NEW t \in Seq(S), NEW V
    PROVE  /\ IsFiniteSet(Where(s, V)) /\ Cardinality(Where(s, V)) \in Nat
           /\ Cardinality(Where(s \o t, V)) = Cardinality(Where(s, V)) + Cardinality(Where(t, V))
<1> DEFINE n == Len(s)
           m == Len(t)
           r == s \o t
           X == Where(s, V)
           Y == Where(t, V)
           Z == {k \in (n + 1)..(n + m) : r[k] \in V}
           f == [k \in Z |-> k - n]
<1>1. /\ n \in Nat /\ m \in Nat /\ DOMAIN s = 1..n /\ DOMAIN t = 1..m /\ DOMAIN r = 1..(n + m)
      /\ \A k \in 1..n : r[k] = s[k]
      /\ \A k \in (n + 1)..(n + m) : r[k] = t[k - n]
  OBVIOUS
<1> HIDE DEF n, m, r
<1>2. X \subseteq 1..n /\ Y \subseteq 1..m /\ Z \subseteq (n + 1)..(n + m)
  BY <1>1 DEF Where
<1>3. Where(r, V) = X \cup Z /\ X \cap Z = {}
  <2>1. \A k \in 1..(n + m) : k \in 1..n \/ k \in (n + 1)..(n + m)
    BY <1>1
  <2>2. \A k \in 1..n : k \in 1..(n + m) /\ k \notin (n + 1)..(n + m)
    BY <1>1
  <2>3. \A k \in (n + 1)..(n + m) : k \in 1..(n + m)
    BY <1>1
  <2>4. \A k : k \in Where(r, V) <=> k \in X \cup Z
    BY <1>1, <2>1, <2>2, <2>3 DEF Where
  <2> QED
    BY <1>2, <2>2, <2>4
<1>4. IsFiniteSet(X) /\ IsFiniteSet(Y) /\ IsFiniteSet(Z)
  <2>1. IsFiniteSet(1..n) /\ IsFiniteSet(1..m) /\ IsFiniteSet((n + 1)..(n + m))
    BY <1>1, FS_Interval
  <2> HIDE DEF X, Y, Z
  <2> QED
    BY <1>2, <2>1, FS_Subset
<1>5. f \in Bijection(Z, Y)
  <2>1. \A k \in Z : k - n \in Y /\ k \in Int
    BY <1>1 DEF Where
  <2>2. \A k \in Y : k + n \in Z /\ f[k + n] = k
    BY <1>1 DEF Where
  <2>3. f \in [Z -> Y]
    BY <2>1
  <2>4. \A k, l \in Z : f[k] = f[l] => k = l
    BY <1>1, <2>1
  <2> HIDE DEF f, Y, Z
  <2> QED
    BY <2>2, <2>3, <2>4 DEF Bijection, Injection, IsInjective, Surjection
<1>6. Cardinality(Z) = Cardinality(Y)
  <2> HIDE DEF f, Y, Z
  <2>1. ExistsBijection(Z, Y)
    BY <1>5 DEF ExistsBijection
  <2> QED
    BY <1>4, <2>1, FS_Bijection
<1>7. Cardinality(X \cup Z) = Cardinality(X) + Cardinality(Z)
  <2> HIDE DEF X, Z
  <2>1. /\ Cardinality(X \cup Z) = Cardinality(X) + Cardinality(Z) - Cardinality(X \cap Z)
        /\ Cardinality(X) \in Nat /\ Cardinality(Z) \in Nat
    BY <1>4, FS_Union, FS_CardinalityType
  <2>2. Cardinality(X \cap Z) = 0
    BY <1>3, FS_EmptySet
  <2> QED
    BY <2>1, <2>2
<1> QED
  BY <1>3, <1>4, <1>6, <1>7, FS_CardinalityType DEF r

-----------------------------------------------------------------------------
(* Sorted sequences are equal when one is the other in another order. *)

\* What makes a set of pairs a strict order in which any two elements stand.
InOrder(LT, E) ==
    /\ \A a \in E : <<a, a>> \notin LT
    /\ \A a, b, c \in E : <<a, b>> \in LT /\ <<b, c>> \in LT => <<a, c>> \in LT
    /\ \A a, b \in E : a = b \/ <<a, b>> \in LT \/ <<b, a>> \in LT

Below(LT, E, x) == {e \in E : <<e, x>> \in LT}

Sortable(s, n, LT, E) ==
    InOrder(LT, E) /\ n \in Nat /\ DOMAIN s = 1..n /\ \A m \in 1..n : s[m] \in E

LEMMA PlacesIs ==
    ASSUME NEW E, NEW LT, NEW s, NEW n, Sortable(s, n, LT, E)
    PROVE  /\ R!Places(s, LT) \in Bijection(1..n, 1..n)
           /\ \A m \in 1..n :
                /\ Cardinality(Where(s, Below(LT, E, s[m]))) < R!Places(s, LT)[m]
                /\ R!Places(s, LT)[m] <= Cardinality(Where(s, Below(LT, E, s[m]) \cup {s[m]}))
<1> USE DEF Sortable
<1> DEFINE K == 1..n
           upTo(m) == {o \in K : <<s[o], s[m]>> \in LT \/ (s[o] = s[m] /\ o <= m)}
           P == [m \in K |-> upTo(m)]
<1>1. IsFiniteSet(K) /\ Cardinality(K) = n /\ K \subseteq Int
  BY FS_Interval
<1>2. R!Places(s, LT) = [m \in K |-> Cardinality(P[m])]
  BY SameOperators DEF R!Places
<1> HIDE DEF K
<1>3. \A m \in K : P[m] \subseteq K /\ m \in P[m]
  BY <1>1
<1>4. \A m, o \in K : m # o => P[m] # P[o] /\ (P[m] \subseteq P[o] \/ P[o] \subseteq P[m])
  <2>1. ASSUME NEW m \in K, NEW o \in K, m # o,
               <<s[m], s[o]>> \in LT \/ (s[m] = s[o] /\ m < o)
        PROVE  P[m] # P[o] /\ P[m] \subseteq P[o]
    <3>0. \A k \in K : s[k] \in E
      BY DEF K
    <3>1. m \in P[o]
      BY <1>1, <2>1
    <3>2. o \notin P[m]
      <4>1. ~(<<s[o], s[m]>> \in LT)
        BY <2>1, <3>0 DEF InOrder
      <4>2. s[o] = s[m] => m < o
        BY <2>1, <3>0 DEF InOrder
      <4> QED
        BY <1>1, <4>1, <4>2
    <3>3. ASSUME NEW k \in K, k \in P[m] PROVE k \in P[o]
      <4>1. <<s[k], s[m]>> \in LT \/ (s[k] = s[m] /\ k <= m)
        BY <3>3
      <4>2. <<s[k], s[o]>> \in LT \/ (s[k] = s[o] /\ k <= o)
        BY <1>1, <2>1, <3>0, <4>1 DEF InOrder
      <4> QED
        BY <4>2
    <3>4. o \in P[o]
      BY <1>3
    <3> HIDE DEF P
    <3> QED
      BY <1>3, <3>1, <3>2, <3>3, <3>4
  <2>2. ASSUME NEW m \in K, NEW o \in K, m # o
        PROVE  \/ <<s[m], s[o]>> \in LT \/ (s[m] = s[o] /\ m < o)
               \/ <<s[o], s[m]>> \in LT \/ (s[m] = s[o] /\ o < m)
    BY <1>1, <2>2 DEF InOrder, K
  <2> HIDE DEF P
  <2> QED
    BY <2>1, <2>2
<1>5. [m \in K |-> Cardinality(P[m])] \in Bijection(K, 1..n)
  <2> HIDE DEF P
  <2>1. IsFiniteSet(K)
    BY <1>1
  <2>2. [m \in K |-> Cardinality(P[m])] \in Bijection(K, 1..Cardinality(K))
    BY ONLY <2>1, <1>3, <1>4, Ranked
  <2> QED
    BY <1>1, <2>2
<1>6. ASSUME NEW m \in K
      PROVE  /\ Cardinality(Where(s, Below(LT, E, s[m]))) < Cardinality(P[m])
             /\ Cardinality(P[m]) <= Cardinality(Where(s, Below(LT, E, s[m]) \cup {s[m]}))
  <2> DEFINE X == Where(s, Below(LT, E, s[m]))
             Y == Where(s, Below(LT, E, s[m]) \cup {s[m]})
  <2>1. X \subseteq P[m] /\ P[m] \subseteq Y /\ m \in P[m] /\ m \notin X /\ Y \subseteq K
    BY <1>3 DEF Where, Below, InOrder, K
  <2> HIDE DEF X, Y, P
  <2>2. IsFiniteSet(Y) /\ IsFiniteSet(P[m]) /\ IsFiniteSet(X)
    BY <1>1, <2>1, FS_Subset
  <2>3. Cardinality(P[m]) <= Cardinality(Y)
    BY <2>1, <2>2, FS_Subset
  <2>4. Cardinality(X) <= Cardinality(P[m]) /\ Cardinality(X) # Cardinality(P[m])
    BY <2>1, <2>2, FS_Subset
  <2>5. Cardinality(X) \in Nat /\ Cardinality(P[m]) \in Nat
    BY <2>2, FS_CardinalityType
  <2> QED
    BY <2>3, <2>4, <2>5 DEF X, Y
<1> HIDE DEF P
<1>7. \A m \in K : R!Places(s, LT)[m] = Cardinality(P[m])
  BY <1>2
<1>8. R!Places(s, LT) \in Bijection(1..n, 1..n)
  BY <1>2, <1>5 DEF K
<1> QED
  BY <1>6, <1>7, <1>8 DEF K

\* A sorted sequence has at each place what stands there.
LEMMA SortedIs ==
    ASSUME NEW E, NEW LT, NEW s, NEW n, Sortable(s, n, LT, E)
    PROVE  R!Sorted(s, LT) = [k \in 1..n |-> s[R!AntiFunction(R!Places(s, LT))[k]]]
BY DEF R!Sorted, Sortable

\* The order of all elements sorts as the order of a sequence's own does.
LEMMA SortedWithin ==
    ASSUME NEW LT, NEW s, NEW n, DOMAIN s = 1..n, NEW own,
           \A m, o \in 1..n : <<s[m], s[o]>> \in own <=> <<s[m], s[o]>> \in LT
    PROVE  R!Sorted(s, own) = R!Sorted(s, LT)
<1> DEFINE mine(m) == {o \in 1..n : <<s[o], s[m]>> \in own \/ (s[o] = s[m] /\ o <= m)}
           all(m) == {o \in 1..n : <<s[o], s[m]>> \in LT \/ (s[o] = s[m] /\ o <= m)}
<1>1. \A m \in 1..n : mine(m) = all(m)
  OBVIOUS
<1>2. R!Places(s, own) = [m \in 1..n |-> Cardinality(mine(m))]
  BY SameOperators DEF R!Places
<1>3. R!Places(s, LT) = [m \in 1..n |-> Cardinality(all(m))]
  BY SameOperators DEF R!Places
<1>4. R!Places(s, own) = R!Places(s, LT)
  <2> HIDE DEF mine, all
  <2> QED
    BY <1>1, <1>2, <1>3
<1> QED
  BY <1>4 DEF R!Sorted

\* Of sequences with the same elements, what one has at a place is not below
\* what the other has there.
LEMMA SamePlace ==
    ASSUME NEW E, NEW LT, NEW n, NEW s, Sortable(s, n, LT, E), NEW t, Sortable(t, n, LT, E),
           \A V : Cardinality(Where(s, V)) = Cardinality(Where(t, V)),
           NEW a \in 1..n, NEW b \in 1..n, R!Places(s, LT)[a] = R!Places(t, LT)[b]
    PROVE  <<s[a], t[b]>> \notin LT
<1> SUFFICES ASSUME <<s[a], t[b]>> \in LT PROVE FALSE
  OBVIOUS
<1> DEFINE X == Where(s, Below(LT, E, s[a]) \cup {s[a]})
           Y == Where(s, Below(LT, E, t[b]))
<1>1. R!Places(s, LT)[a] <= Cardinality(X)
  BY PlacesIs
<1>2. Cardinality(Where(t, Below(LT, E, t[b]))) < R!Places(t, LT)[b]
  BY PlacesIs
<1>3. Cardinality(Y) = Cardinality(Where(t, Below(LT, E, t[b])))
  OBVIOUS
<1>4. X \subseteq Y
  <2>1. s[a] \in E /\ t[b] \in E
    BY DEF Sortable
  <2>2. \A e \in Below(LT, E, s[a]) \cup {s[a]} : e \in Below(LT, E, t[b])
    BY <2>1 DEF Below, Sortable, InOrder
  <2> QED
    BY <2>2 DEF Where
<1>5. Y \subseteq 1..n /\ n \in Nat /\ a \in Nat /\ DOMAIN t = 1..n
  BY DEF Where, Sortable
<1> HIDE DEF X, Y
<1>6. IsFiniteSet(1..n)
  BY <1>5, FS_Interval
<1>7. IsFiniteSet(Y) /\ IsFiniteSet(X)
  BY <1>4, <1>5, <1>6, FS_Subset
<1>8. Cardinality(X) <= Cardinality(Y) /\ Cardinality(X) \in Nat /\ Cardinality(Y) \in Nat
  BY <1>4, <1>7, FS_Subset, FS_CardinalityType
<1>9. R!Places(s, LT)[a] \in 1..n
  <2>1. R!Places(s, LT) \in [1..n -> 1..n]
    BY PlacesIs DEF Bijection, Injection
  <2> QED
    BY <2>1
<1> QED
  BY <1>1, <1>2, <1>3, <1>5, <1>8, <1>9

\* Sorting forgets the order and nothing else.
LEMMA SortedSame ==
    ASSUME NEW E, NEW LT, NEW s, NEW n, Sortable(s, n, LT, E),
           NEW t, NEW m, Sortable(t, m, LT, E), s \in Seq(E), t \in Seq(E)
    PROVE  R!Sorted(s, LT) = R!Sorted(t, LT) <=> Reordered(s, t)
<1> DEFINE I == 1..n
           u == R!Sorted(s, LT)
           v == R!Sorted(t, LT)
           p == R!Places(s, LT)
           q == R!Places(t, LT)
           up == R!AntiFunction(p)
           uq == R!AntiFunction(q)
<1>0. n \in Nat /\ m \in Nat /\ DOMAIN s = 1..n /\ DOMAIN t = 1..m /\ Len(s) = n /\ Len(t) = m
  BY DEF Sortable
<1>1. DOMAIN u = 1..n /\ DOMAIN v = 1..m /\ u = [k \in 1..n |-> s[up[k]]] /\ v = [k \in 1..m |-> t[uq[k]]]
  BY <1>0, SortedIs
<1>2. CASE n # m
  <2>1. 1..n # 1..m
    BY <1>0, <1>2, FS_Interval
  <2>2. u # v
    BY <1>1, <2>1
  <2> QED
    BY <1>0, <1>2, <2>2 DEF Reordered
<1>3. CASE n = m
  <2>0. u = [k \in I |-> s[up[k]]] /\ v = [k \in I |-> t[uq[k]]] /\ DOMAIN s = I /\ Len(s) = Len(t)
    BY <1>0, <1>1, <1>3
  <2>1. p \in Bijection(I, I) /\ q \in Bijection(I, I)
    BY <1>3, PlacesIs
  <2> HIDE DEF I, u, v, p, q
  <2>2. /\ \A k \in I : up[k] \in I /\ p[up[k]] = k
        /\ \A k \in I : p[k] \in I /\ up[p[k]] = k
    BY <2>1, AntiIs
  <2>3. /\ \A k \in I : uq[k] \in I /\ q[uq[k]] = k
        /\ \A k \in I : q[k] \in I /\ uq[q[k]] = k
    BY <2>1, AntiIs
  <2> HIDE DEF up, uq
  <2>4. ASSUME u = v PROVE Reordered(s, t)
    <3> DEFINE f == [k \in I |-> up[q[k]]]
    <3>1. f \in [I -> I]
      BY <2>2, <2>3
    <3>2. \A k \in I : f[uq[p[k]]] = k /\ uq[p[k]] \in I
      BY <2>2, <2>3
    <3>3. \A k \in I : s[f[k]] = t[k]
      <4> TAKE k \in I
      <4>1. q[k] \in I /\ u[q[k]] = s[up[q[k]]] /\ v[q[k]] = t[uq[q[k]]]
        BY <2>0, <2>3
      <4> QED
        BY <2>3, <2>4, <4>1
    <3> HIDE DEF f
    <3>4. /\ \A k \in I : \E l \in I : f[l] = k
          /\ \A l \in I : s[f[l]] = t[l]
      BY <3>2, <3>3
    <3>5. \E g \in [DOMAIN s -> DOMAIN s] :
             /\ \A k \in DOMAIN s : \E l \in DOMAIN s : g[l] = k
             /\ \A l \in DOMAIN s : s[g[l]] = t[l]
      BY <2>0, <3>1, <3>4, Zenon
    <3> QED
      BY <2>0, <3>5 DEF Reordered
  <2>5. ASSUME Reordered(s, t) PROVE u = v
    <3>1. PICK f \in [I -> I] :
             (\A k \in I : \E l \in I : f[l] = k) /\ \A l \in I : s[f[l]] = t[l]
      BY <2>0, <2>5 DEF Reordered
    <3>2. IsFiniteSet(I)
      BY <1>0, FS_Interval DEF I
    <3>3. f \in Bijection(I, I)
      <4>1. f \in Surjection(I, I)
        BY <3>1 DEF Surjection
      <4>2. f \in Injection(I, I)
        BY <3>2, <4>1, FS_SurjSameCardinalityImpliesInj
      <4> QED
        BY <4>1, <4>2 DEF Bijection
    <3>4. DOMAIN t = I /\ I \subseteq DOMAIN s /\ \A k \in I : t[k] = s[f[k]]
      BY <1>0, <1>3, <2>0, <3>1 DEF I
    <3>5. \A V : Cardinality(Where(s, V)) = Cardinality(Where(t, V))
      <4>1. \A V : Cardinality(Where(t, V)) = Cardinality(I \cap Where(s, V))
        BY ONLY <3>2, <3>3, <3>4, CountAlong
      <4>2. \A V : I \cap Where(s, V) = Where(s, V)
        BY <2>0 DEF Where
      <4> QED
        BY <4>1, <4>2
    <3>6. ASSUME NEW k \in I PROVE s[up[k]] = t[uq[k]]
      <4>1. up[k] \in I /\ uq[k] \in I /\ p[up[k]] = q[uq[k]]
        BY <2>2, <2>3
      <4>2. <<s[up[k]], t[uq[k]]>> \notin LT
        BY <1>3, <3>5, <4>1, SamePlace DEF I, p, q
      <4>3. <<t[uq[k]], s[up[k]]>> \notin LT
        BY <1>3, <3>5, <4>1, SamePlace DEF I, p, q
      <4>4. s[up[k]] \in E /\ t[uq[k]] \in E
        BY <1>3, <4>1 DEF I, Sortable
      <4> QED
        BY <4>2, <4>3, <4>4 DEF Sortable, InOrder
    <3> QED
      BY <2>0, <3>6
  <2> QED
    BY <2>4, <2>5 DEF u, v
<1> QED
  BY <1>2, <1>3
-----------------------------------------------------------------------------
(* What a report says. *)

Kind9 == {"division", "group", "teacher", "room", "subject", "year", "external_block", "split", "link"}

LEMMA KindsAre ==
    /\ KindNames = Kind9
    /\ \A k \in Kind9 : R!Rank(k) \in 1..9 /\ R!EntityKinds[R!Rank(k)] = k
<1>1. DOMAIN R!EntityKinds = 1..9
  BY DEF R!EntityKinds
<1>2. /\ \A n \in 1..9 : R!EntityKinds[n] \in Kind9
      /\ \A k \in Kind9 : \E n \in 1..9 : R!EntityKinds[n] = k
  BY DEF R!EntityKinds, Kind9
<1>3. \A k \in Kind9 : R!Rank(k) \in 1..9 /\ R!EntityKinds[R!Rank(k)] = k
  BY <1>1, <1>2 DEF R!Rank
<1> QED
  BY <1>2, <1>3 DEF KindNames

Entity == [kind : Kind9, id : Int]

LEMMA EntityOrder == InOrder(R!EntitiesInOrder(Entity), Entity)
<1>1. \A a, b \in Entity : <<a, b>> \in R!EntitiesInOrder(Entity) <=>
        \/ R!Rank(a.kind) < R!Rank(b.kind)
        \/ a.kind = b.kind /\ a.id < b.id
  BY DEF R!EntitiesInOrder
<1>2. \A a \in Entity : a.kind \in Kind9 /\ a.id \in Int /\ R!Rank(a.kind) \in Int
  BY KindsAre DEF Entity
<1>3. \A a, b \in Entity : R!Rank(a.kind) = R!Rank(b.kind) => a.kind = b.kind
  BY <1>2, KindsAre
<1>4. \A a, b \in Entity : a.kind = b.kind /\ a.id = b.id => a = b
  BY DEF Entity
<1>5. \A a \in Entity : <<a, a>> \notin R!EntitiesInOrder(Entity)
  BY <1>1, <1>2
<1>6. \A a, b, c \in Entity :
        <<a, b>> \in R!EntitiesInOrder(Entity) /\ <<b, c>> \in R!EntitiesInOrder(Entity)
        => <<a, c>> \in R!EntitiesInOrder(Entity)
  BY <1>1, <1>2
<1>7. ASSUME NEW a \in Entity, NEW b \in Entity, a # b, <<a, b>> \notin R!EntitiesInOrder(Entity)
      PROVE  <<b, a>> \in R!EntitiesInOrder(Entity)
  <2>1. ~(R!Rank(a.kind) < R!Rank(b.kind)) /\ ~(a.kind = b.kind /\ a.id < b.id)
    BY <1>1, <1>7
  <2>2. R!Rank(b.kind) < R!Rank(a.kind) \/ a.kind = b.kind
    BY <1>2, <1>3, <2>1
  <2>3. a.kind = b.kind => b.id < a.id
    BY <1>2, <1>4, <1>7, <2>1
  <2> QED
    BY <1>1, <2>2, <2>3
<1> QED
  BY <1>5, <1>6, <1>7 DEF InOrder

LEMMA NumberOrder == InOrder(R!NumbersInOrder(Int), Int)
<1>1. \A a, b \in Int : <<a, b>> \in R!NumbersInOrder(Int) <=> a < b
  BY DEF R!NumbersInOrder
<1> QED
  BY <1>1 DEF InOrder

LEMMA EntitiesSorted ==
    ASSUME NEW s \in Seq(Entity)
    PROVE  /\ R!Sorted(s, R!EntitiesInOrder(R!ToSet(s))) = R!Sorted(s, R!EntitiesInOrder(Entity))
           /\ Sortable(s, Len(s), R!EntitiesInOrder(Entity), Entity)
<1> DEFINE n == Len(s)
<1>1. n \in Nat /\ DOMAIN s = 1..n /\ \A m \in 1..n : s[m] \in Entity
  OBVIOUS
<1>2. \A m \in 1..n : s[m] \in R!ToSet(s)
  BY <1>1, SameOperators DEF ToSet
<1>3. \A m, o \in 1..n : <<s[m], s[o]>> \in R!EntitiesInOrder(R!ToSet(s))
                         <=> <<s[m], s[o]>> \in R!EntitiesInOrder(Entity)
  BY <1>1, <1>2 DEF R!EntitiesInOrder
<1> HIDE DEF n
<1> QED
  BY <1>1, <1>3, SortedWithin, EntityOrder DEF Sortable, n

LEMMA NumbersSorted ==
    ASSUME NEW s \in Seq(Int)
    PROVE  /\ R!Sorted(s, R!NumbersInOrder(R!ToSet(s))) = R!Sorted(s, R!NumbersInOrder(Int))
           /\ Sortable(s, Len(s), R!NumbersInOrder(Int), Int)
<1> DEFINE n == Len(s)
<1>1. n \in Nat /\ DOMAIN s = 1..n /\ \A m \in 1..n : s[m] \in Int
  OBVIOUS
<1>2. \A m \in 1..n : s[m] \in R!ToSet(s)
  BY <1>1, SameOperators DEF ToSet
<1>3. \A m, o \in 1..n : <<s[m], s[o]>> \in R!NumbersInOrder(R!ToSet(s))
                         <=> <<s[m], s[o]>> \in R!NumbersInOrder(Int)
  BY <1>1, <1>2 DEF R!NumbersInOrder
<1> HIDE DEF n
<1> QED
  BY <1>1, <1>3, SortedWithin, NumberOrder DEF Sortable, n

Thing == [kind : STRING, entities : Seq(Entity), lessons : Seq(Int), spans : Seq(Int)]

\* Two findings have one key when they are of one kind about the same things.
LEMMA OneKey ==
    ASSUME NEW i \in Thing, NEW j \in Thing
    PROVE  R!FindingKey(i) = R!FindingKey(j) <=>
              /\ i.kind = j.kind
              /\ Reordered(i.entities, j.entities)
              /\ Reordered(i.lessons, j.lessons)
              /\ Reordered(i.spans, j.spans)
<1> DEFINE LE == R!EntitiesInOrder(Entity)
           LN == R!NumbersInOrder(Int)
<1>1. \A x \in Thing : x.entities \in Seq(Entity) /\ x.lessons \in Seq(Int) /\ x.spans \in Seq(Int)
  BY DEF Thing
<1> HIDE DEF LE, LN
<1>2. \A x \in Thing : R!FindingKey(x) = [kind |-> x.kind, entities |-> R!Sorted(x.entities, LE),
                                          lessons |-> R!Sorted(x.lessons, LN),
                                          spans |-> R!Sorted(x.spans, LN)]
  BY <1>1, EntitiesSorted, NumbersSorted DEF R!FindingKey, LE, LN
<1>3. \A s, t \in Seq(Entity) : R!Sorted(s, LE) = R!Sorted(t, LE) <=> Reordered(s, t)
  BY SortedSame, EntitiesSorted DEF LE
<1>4. \A s, t \in Seq(Int) : R!Sorted(s, LN) = R!Sorted(t, LN) <=> Reordered(s, t)
  BY SortedSame, NumbersSorted DEF LN
<1>5. R!FindingKey(i) = R!FindingKey(j) <=>
        /\ i.kind = j.kind
        /\ R!Sorted(i.entities, LE) = R!Sorted(j.entities, LE)
        /\ R!Sorted(i.lessons, LN) = R!Sorted(j.lessons, LN)
        /\ R!Sorted(i.spans, LN) = R!Sorted(j.spans, LN)
  BY <1>2
<1> QED
  BY <1>1, <1>3, <1>4, <1>5

Severities == {"error", "warning", "note"}
Parts == {"input", "timetable", "rule"}
Finding == [part : Parts, kind : STRING, severity : Severities,
            entities : Seq(Entity), lessons : Seq(Int), spans : Seq(Int)]

LEMMA Element ==
    ASSUME NEW S, NEW s, s \in Seq(S) PROVE \A n \in 1..Len(s) : s[n] \in S
OBVIOUS

LEMMA PickedFrom ==
    ASSUME NEW S, NEW s, s \in Seq(S), NEW K, K \subseteq 1..Len(s),
           NEW T, \A n \in K : s[n] \in T
    PROVE  R!Picked(s, K) \in Seq(T)
<1> DEFINE p == R!Picked(s, K)
<1>1. p \in Seq(S) /\ Len(p) = Cardinality(K)
  BY ZenonT(60), PickedIs
<1>2. \A n \in 1..Cardinality(K) : p[n] \in T
  BY PickedIs
<1> HIDE DEF p
<1>4. \A n \in 1..Len(p) : p[n] \in T
  BY <1>1, <1>2
<1>3. Len(p) \in Nat /\ p = [n \in 1..Len(p) |-> p[n]]
  BY <1>1
<1> QED
  BY <1>3, <1>4, IsASeq DEF p

LEMMA EntitiesMade ==
    ASSUME NEW refs, refs \in Refs(KindNames \cup {"unspecified"}), NEW u \in {"none", "split", "link"}
    PROVE  R!EntitiesOf(refs, u) \in Seq(Entity)
<1> DEFINE Sent == [kind : Kind9 \cup {"unspecified"}, id : Int]
           Ref == [kind : Kind9 \cup {"none"}, id : Int]
           named == [n \in DOMAIN refs |->
                       [refs[n] EXCEPT !.kind = IF @ = "unspecified" THEN u ELSE @]]
           K == {n \in DOMAIN named : named[n].kind # "none"}
           p == R!Picked(named, K)
<1>1. R!EntitiesOf(refs, u) = p
  BY DEF R!EntitiesOf
<1>2. named \in Seq(Ref) /\ Len(named) = Len(refs) /\ DOMAIN named = 1..Len(refs) /\ Len(refs) \in Nat
  <2>1. refs \in Seq(Sent)
    BY KindsAre DEF Refs
  <2>2. u \in Kind9 \cup {"none"}
    BY DEF Kind9
  <2>3. Len(refs) \in Nat /\ DOMAIN refs = 1..Len(refs)
    BY <2>1
  <2>4. ASSUME NEW n \in 1..Len(refs) PROVE named[n] \in Ref
    <3>1. refs[n] \in Sent
      <4> HIDE DEF Sent
      <4> QED
        BY <2>1, Element
    <3>2. named[n] = [refs[n] EXCEPT !.kind = IF refs[n].kind = "unspecified" THEN u ELSE refs[n].kind]
      BY <2>3
    <3> HIDE DEF named
    <3>3. (IF refs[n].kind = "unspecified" THEN u ELSE refs[n].kind) \in Kind9 \cup {"none"}
      BY <2>2, <3>1
    <3> QED
      BY <3>1, <3>2, <3>3
  <2>5. named = [n \in 1..Len(refs) |-> named[n]]
    BY <2>3
  <2> HIDE DEF named, Ref
  <2> QED
    BY <2>3, <2>4, <2>5, IsASeq
<1> HIDE DEF named
<1>3. K \subseteq 1..Len(named)
  BY <1>2
<1>4. \A n \in K : named[n] \in Entity
  <2>1. \A n \in K : n \in 1..Len(named) /\ named[n].kind # "none"
    BY <1>2
  <2>2. \A n \in 1..Len(named) : named[n] \in Ref
    <3> HIDE DEF Ref
    <3> QED
      BY <1>2, Element
  <2> HIDE DEF K
  <2> QED
    BY <2>1, <2>2 DEF Entity
<1>5. named \in Seq(Ref)
  BY <1>2
<1> HIDE DEF K, Ref
<1> QED
  BY <1>1, <1>3, <1>4, <1>5, PickedFrom

LEMMA LessonsMade ==
    ASSUME NEW refs, refs \in Seq(Int) PROVE R!LessonsOf(refs) \in Seq(Int)
<1>1. {n \in DOMAIN refs : \A m \in 1..(n - 1) : refs[m] # refs[n]} \subseteq 1..Len(refs)
  OBVIOUS
<1> QED
  BY <1>1, PickedIs DEF R!LessonsOf

\* What a conflict and an issue are told as.
LEMMA FindingMade ==
    ASSUME NEW sev \in Severities, NEW where \in Parts
    PROVE  /\ \A c \in Conflict : /\ R!ConflictFinding(c, sev, where) \in Finding
                                  /\ R!ConflictFinding(c, sev, where).severity = sev
           /\ \A i \in Issue : /\ R!IssueFinding(i, sev, where) \in Finding
                               /\ R!IssueFinding(i, sev, where).severity = sev
<1>1. ASSUME NEW c \in Conflict
      PROVE  /\ R!ConflictFinding(c, sev, where) \in Finding
             /\ R!ConflictFinding(c, sev, where).severity = sev
  <2>1. /\ c.kind \in STRING /\ c.entities \in Refs(KindNames \cup {"unspecified"})
        /\ c.lessons \in Seq(Int) /\ c.spans \in Seq(Int)
    BY DEF Conflict
  <2>2. R!UnspecifiedAs(c.kind) \in {"none", "split", "link"}
    BY DEF R!UnspecifiedAs
  <2>3. R!EntitiesOf(c.entities, R!UnspecifiedAs(c.kind)) \in Seq(Entity) /\ R!LessonsOf(c.lessons) \in Seq(Int)
    BY <2>1, <2>2, EntitiesMade, LessonsMade
  <2> QED
    BY <2>1, <2>3 DEF R!ConflictFinding, Finding
<1>2. ASSUME NEW i \in Issue
      PROVE  /\ R!IssueFinding(i, sev, where) \in Finding
             /\ R!IssueFinding(i, sev, where).severity = sev
  <2>1. /\ i.category \in STRING /\ i.entities \in Refs(KindNames \cup {"unspecified"})
        /\ i.lessons \in Seq(Int) /\ i.spans \in Seq(Int)
    BY DEF Issue
  <2>2. R!EntitiesOf(i.entities, "none") \in Seq(Entity) /\ R!LessonsOf(i.lessons) \in Seq(Int)
    BY <2>1, EntitiesMade, LessonsMade
  <2> QED
    BY <2>1, <2>2 DEF R!IssueFinding, Finding
<1> QED
  BY <1>1, <1>2

\* A sequence all or none of whose elements are of some values.
LEMMA AllOrNone ==
    ASSUME NEW S, NEW s, s \in Seq(S), NEW V
    PROVE  /\ (\A n \in 1..Len(s) : s[n] \in V) => Cardinality(Where(s, V)) = Len(s)
           /\ (\A n \in 1..Len(s) : s[n] \notin V) => Cardinality(Where(s, V)) = 0
<1>1. Len(s) \in Nat /\ DOMAIN s = 1..Len(s)
  OBVIOUS
<1>2. Cardinality(1..Len(s)) = Len(s)
  BY <1>1, FS_Interval
<1>3. (\A n \in 1..Len(s) : s[n] \in V) => Where(s, V) = 1..Len(s)
  BY <1>1 DEF Where
<1>4. (\A n \in 1..Len(s) : s[n] \notin V) => Where(s, V) = {}
  BY <1>1 DEF Where
<1> QED
  BY <1>2, <1>3, <1>4, FS_EmptySet

\* A function over the places of a sequence is a sequence.
LEMMA AlongSeq ==
    ASSUME NEW S, NEW s, s \in Seq(S), NEW T, NEW g, DOMAIN g = DOMAIN s,
           g = [n \in DOMAIN s |-> g[n]], \A n \in 1..Len(s) : g[n] \in T
    PROVE  g \in Seq(T) /\ Len(g) = Len(s) /\ DOMAIN g = 1..Len(s) /\ Len(s) \in Nat
<1>1. Len(s) \in Nat /\ DOMAIN s = 1..Len(s)
  OBVIOUS
<1>2. g = [n \in 1..Len(s) |-> g[n]]
  BY <1>1
<1> QED
  BY <1>1, <1>2, IsASeq

ConflictsOf(cs, sev, where) == [n \in DOMAIN cs |-> R!ConflictFinding(cs[n], sev, where)]
IssuesOf(soft) ==
    LET counted == R!Picked(soft, R!Counted(soft))
    IN  [n \in DOMAIN counted |-> R!IssueFinding(counted[n], R!SoftSeverity(counted[n]), "rule")]
RemarksOf(info) ==
    LET infos == R!Picked(info, R!Noted(info))
    IN  [n \in DOMAIN infos |-> R!IssueFinding(infos[n], "note", "timetable")]

Severe(v) == {f \in Finding : f.severity = v}

LEMMA ConflictsTold ==
    ASSUME NEW cs, cs \in Seq(Conflict), NEW sev \in Severities, NEW where \in Parts
    PROVE  /\ ConflictsOf(cs, sev, where) \in Seq(Finding) /\ Len(cs) \in Nat
           /\ \A v \in Severities : Cardinality(Where(ConflictsOf(cs, sev, where), Severe(v)))
                                    = IF v = sev THEN Len(cs) ELSE 0
<1> DEFINE g == ConflictsOf(cs, sev, where)
<1>0. g = [n \in DOMAIN cs |-> R!ConflictFinding(cs[n], sev, where)]
  BY DEF ConflictsOf
<1> HIDE DEF g
<1>1. Len(cs) \in Nat /\ DOMAIN cs = 1..Len(cs)
  OBVIOUS
<1>2. \A n \in 1..Len(cs) : cs[n] \in Conflict
  BY Element
<1>3. \A n \in 1..Len(cs) : g[n] \in Finding /\ g[n].severity = sev
  BY <1>0, <1>1, <1>2, FindingMade
<1>4. DOMAIN g = DOMAIN cs /\ g = [n \in DOMAIN cs |-> g[n]]
  BY <1>0
<1>5. g \in Seq(Finding) /\ Len(g) = Len(cs)
  <2>1. cs \in Seq(Conflict) /\ \A n \in 1..Len(cs) : g[n] \in Finding
    BY <1>3
  <2> QED
    BY ONLY <1>4, <2>1, AlongSeq
<1>6. ASSUME NEW v \in Severities
      PROVE  Cardinality(Where(g, Severe(v))) = IF v = sev THEN Len(cs) ELSE 0
  <2>1. v = sev => \A n \in 1..Len(g) : g[n] \in Severe(v)
    BY <1>3, <1>5 DEF Severe
  <2>2. v # sev => \A n \in 1..Len(g) : g[n] \notin Severe(v)
    BY <1>3, <1>5 DEF Severe
  <2> QED
    BY <1>5, <2>1, <2>2, AllOrNone
<1> QED
  BY <1>1, <1>5, <1>6 DEF g

\* The soft issues that count, each with the severity the verdict gives it.
LEMMA IssuesTold ==
    ASSUME NEW soft, soft \in Seq(Issue)
    PROVE  /\ IssuesOf(soft) \in Seq(Finding)
           /\ \A v \in Severities : Cardinality(Where(IssuesOf(soft), Severe(v)))
                 = Cardinality({n \in DOMAIN soft : R!SoftSeverity(soft[n]) = v})
<1> DEFINE counted == R!Picked(soft, R!Counted(soft))
           g == IssuesOf(soft)
<1>0. g = [n \in DOMAIN counted |-> R!IssueFinding(counted[n], R!SoftSeverity(counted[n]), "rule")]
  BY DEF IssuesOf
<1> HIDE DEF g
<1> DEFINE Counts == {i \in Issue : R!SoftSeverity(i) # "none"}
           Given4(v) == {i \in Issue : R!SoftSeverity(i) = v}
<1>1. \A i \in Issue : R!SoftSeverity(i) \in Severities \cup {"none"}
  BY DEF R!SoftSeverity, Severities
<1>2. DOMAIN soft = 1..Len(soft) /\ R!Counted(soft) \subseteq 1..Len(soft)
  BY DEF R!Counted
<1>3. \A n \in R!Counted(soft) : soft[n] \in Counts
  BY Element, <1>2 DEF R!Counted
<1> HIDE DEF Counts
<1>4. counted \in Seq(Counts)
  BY <1>2, <1>3, PickedFrom
<1> HIDE DEF counted
<1>5. \A n \in 1..Len(counted) : counted[n] \in Counts
  BY <1>4, Element
<1>6. \A n \in 1..Len(counted) : /\ g[n] \in Finding /\ n \in DOMAIN counted
                                  /\ g[n].severity = R!SoftSeverity(counted[n])
  <2>1. \A n \in 1..Len(counted) : /\ R!SoftSeverity(counted[n]) \in Severities
                                    /\ counted[n] \in Issue /\ n \in DOMAIN counted
    BY <1>1, <1>4, <1>5 DEF Counts
  <2>2. "rule" \in Parts
    BY DEF Parts
  <2>3. \A v \in Severities, i \in Issue : /\ R!IssueFinding(i, v, "rule") \in Finding
                                           /\ R!IssueFinding(i, v, "rule").severity = v
    BY <2>2, FindingMade
  <2> QED
    BY <1>0, <2>1, <2>3
<1>7. DOMAIN g = DOMAIN counted /\ g = [n \in DOMAIN counted |-> g[n]]
  BY <1>0
<1>8. g \in Seq(Finding) /\ DOMAIN g = 1..Len(counted) /\ DOMAIN counted = 1..Len(counted)
  <2>1. \A n \in 1..Len(counted) : g[n] \in Finding
    BY <1>6
  <2> QED
    BY ONLY <1>4, <1>7, <2>1, AlongSeq
<1>9. ASSUME NEW v \in Severities
      PROVE  Cardinality(Where(g, Severe(v)))
                 = Cardinality({n \in DOMAIN soft : R!SoftSeverity(soft[n]) = v})
  <2>1. Where(g, Severe(v)) = Where(counted, Given4(v))
    BY <1>5, <1>6, <1>8 DEF Where, Severe, Counts
  <2>2. R!Counted(soft) \cap Where(soft, Given4(v)) = {n \in DOMAIN soft : R!SoftSeverity(soft[n]) = v}
    <3>1. v # "none"
      BY DEF Severities
    <3>2. \A n \in DOMAIN soft : soft[n] \in Issue
      BY <1>2, Element
    <3> QED
      BY <3>1, <3>2 DEF Where, R!Counted
  <2> HIDE DEF Given4
  <2>3. Cardinality(Where(counted, Given4(v))) = Cardinality(R!Counted(soft) \cap Where(soft, Given4(v)))
    BY <1>2, PickedIs DEF counted
  <2> QED
    BY <2>1, <2>2, <2>3
<1> QED
  BY <1>8, <1>9 DEF g

LEMMA RemarksTold ==
    ASSUME NEW info, info \in Seq(Issue)
    PROVE  /\ RemarksOf(info) \in Seq(Finding) /\ Cardinality(R!Noted(info)) \in Nat
           /\ \A v \in Severities : Cardinality(Where(RemarksOf(info), Severe(v)))
                 = IF v = "note" THEN Cardinality(R!Noted(info)) ELSE 0
<1> DEFINE infos == R!Picked(info, R!Noted(info))
           g == RemarksOf(info)
<1>0. g = [n \in DOMAIN infos |-> R!IssueFinding(infos[n], "note", "timetable")]
  BY DEF RemarksOf
<1> HIDE DEF g
<1>1. R!Noted(info) \subseteq 1..Len(info)
  BY DEF R!Noted
<1>2. infos \in Seq(Issue) /\ Len(infos) = Cardinality(R!Noted(info)) /\ Len(infos) \in Nat
  BY <1>1, PickedIs
<1> HIDE DEF infos
<1>3. \A n \in 1..Len(infos) : /\ g[n] \in Finding /\ n \in DOMAIN infos /\ g[n].severity = "note"
  <2>1. \A n \in 1..Len(infos) : infos[n] \in Issue /\ n \in DOMAIN infos
    BY <1>2, Element
  <2>2. "note" \in Severities
    BY DEF Severities
  <2>3. "timetable" \in Parts
    BY DEF Parts
  <2>4. \A i \in Issue : /\ R!IssueFinding(i, "note", "timetable") \in Finding
                         /\ R!IssueFinding(i, "note", "timetable").severity = "note"
    BY <2>2, <2>3, FindingMade
  <2> QED
    BY <1>0, <2>1, <2>4
<1>4. DOMAIN g = DOMAIN infos /\ g = [n \in DOMAIN infos |-> g[n]]
  BY <1>0
<1>5. g \in Seq(Finding) /\ Len(g) = Len(infos)
  BY <1>2, <1>3, <1>4, AlongSeq
<1>6. ASSUME NEW v \in Severities
      PROVE  Cardinality(Where(g, Severe(v))) = IF v = "note" THEN Len(infos) ELSE 0
  <2>1. v = "note" => \A n \in 1..Len(g) : g[n] \in Severe(v)
    BY <1>3, <1>5 DEF Severe
  <2>2. v # "note" => \A n \in 1..Len(g) : g[n] \notin Severe(v)
    BY <1>3, <1>5 DEF Severe
  <2> QED
    BY <1>5, <2>1, <2>2, AllOrNone
<1> QED
  BY <1>2, <1>5, <1>6 DEF g

\* What a node may answer.
Tells(answer) ==
    /\ answer.hard \in Seq(Conflict) /\ answer.advisory \in Seq(Conflict)
    /\ answer.conflicts \in Seq(Conflict)
    /\ answer.soft \in Seq(Issue) /\ answer.info \in Seq(Issue)

SoftCount(answer, v) == Cardinality({n \in DOMAIN answer.soft : R!SoftSeverity(answer.soft[n]) = v})

Expected(answer, v) ==
    (IF v = "error" THEN Len(answer.hard) ELSE IF v = "warning" THEN Len(answer.advisory) ELSE 0)
    + IF ~answer.rated THEN 0
      ELSE (IF v = "error" THEN Len(answer.conflicts) ELSE 0) + SoftCount(answer, v)
           + (IF v = "note" THEN Cardinality(R!Noted(answer.info)) ELSE 0)

\* Counting what is told in a row.
LEMMA CountTwo ==
    ASSUME NEW s, s \in Seq(Finding), NEW t, t \in Seq(Finding)
    PROVE  /\ s \o t \in Seq(Finding)
           /\ \A v : /\ Cardinality(Where(s, Severe(v))) \in Nat
                    /\ Cardinality(Where(s \o t, Severe(v)))
                         = Cardinality(Where(s, Severe(v))) + Cardinality(Where(t, Severe(v)))
<1>1. s \o t \in Seq(Finding)
  OBVIOUS
<1> QED
  BY <1>1, CountInRow

LEMMA FindingsAre ==
    ASSUME NEW answer, Tells(answer)
    PROVE  /\ R!Findings(answer) \in Seq(Finding)
           /\ \A v \in Severities : Cardinality(Where(R!Findings(answer), Severe(v))) = Expected(answer, v)
<1> DEFINE a == ConflictsOf(answer.hard, "error", "input")
           b == ConflictsOf(answer.advisory, "warning", "input")
           c == ConflictsOf(answer.conflicts, "error", "timetable")
           d == IssuesOf(answer.soft)
           e == RemarksOf(answer.info)
           ab == a \o b
           cd == c \o d
           cde == cd \o e
           cnt(s, v) == Cardinality(Where(s, Severe(v)))
<1>1. R!Findings(answer) = ab \o (IF ~answer.rated THEN <<>> ELSE cde)
  BY Zenon DEF R!Findings, ConflictsOf, IssuesOf, RemarksOf
<1>2. /\ "input" \in Parts /\ "timetable" \in Parts /\ "error" \in Severities
      /\ "warning" \in Severities /\ "note" \in Severities
  BY DEF Parts, Severities
<1>3. a \in Seq(Finding) /\ \A v \in Severities : cnt(a, v) = IF v = "error" THEN Len(answer.hard) ELSE 0
  BY <1>2, ConflictsTold DEF Tells
<1>4. b \in Seq(Finding) /\ \A v \in Severities : cnt(b, v) = IF v = "warning" THEN Len(answer.advisory) ELSE 0
  BY <1>2, ConflictsTold DEF Tells
<1>5. c \in Seq(Finding) /\ \A v \in Severities : cnt(c, v) = IF v = "error" THEN Len(answer.conflicts) ELSE 0
  BY <1>2, ConflictsTold DEF Tells
<1>6. d \in Seq(Finding) /\ \A v \in Severities : cnt(d, v) = SoftCount(answer, v)
  BY IssuesTold DEF Tells, SoftCount
<1>7. e \in Seq(Finding) /\ \A v \in Severities : cnt(e, v) = IF v = "note" THEN Cardinality(R!Noted(answer.info)) ELSE 0
  BY RemarksTold DEF Tells
<1> HIDE DEF a, b, c, d, e
<1>8. ab \in Seq(Finding) /\ \A v : cnt(ab, v) = cnt(a, v) + cnt(b, v)
  BY <1>3, <1>4, CountTwo
<1>9. cd \in Seq(Finding) /\ \A v : cnt(cd, v) = cnt(c, v) + cnt(d, v)
  BY <1>5, <1>6, CountTwo
<1> HIDE DEF ab, cd
<1>10. cde \in Seq(Finding) /\ \A v : cnt(cde, v) = cnt(cd, v) + cnt(e, v)
  BY <1>7, <1>9, CountTwo
<1> HIDE DEF cde
<1>11. <<>> \in Seq(Finding) /\ \A v : cnt(<<>>, v) = 0
  <2>1. <<>> \in Seq(Finding) /\ Len(<<>>) = 0
    OBVIOUS
  <2>2. \A n \in 1..0 : FALSE
    OBVIOUS
  <2> QED
    BY <2>1, <2>2, AllOrNone
<1>12. CASE ~answer.rated
  <2>1. R!Findings(answer) = ab \o <<>>
    BY <1>1, <1>12
  <2>2. ab \o <<>> \in Seq(Finding) /\ \A v : cnt(ab \o <<>>, v) = cnt(ab, v) + cnt(<<>>, v) /\ cnt(ab, v) \in Nat
    BY <1>8, <1>11, CountTwo
  <2>3. \A v \in Severities : cnt(R!Findings(answer), v) = cnt(a, v) + cnt(b, v)
    BY <1>8, <1>11, <2>1, <2>2
  <2>4. ASSUME NEW v \in Severities PROVE cnt(a, v) + cnt(b, v) = Expected(answer, v)
    BY <1>3, <1>4, <1>12, <2>4 DEF Expected, Severities
  <2> QED
    BY <2>1, <2>2, <2>3, <2>4
<1>13. CASE answer.rated
  <2>1. R!Findings(answer) = ab \o cde
    BY <1>1, <1>13
  <2>2. ab \o cde \in Seq(Finding) /\ \A v : cnt(ab \o cde, v) = cnt(ab, v) + cnt(cde, v)
    BY <1>8, <1>10, CountTwo
  <2>3. \A v \in Severities : cnt(R!Findings(answer), v)
            = (cnt(a, v) + cnt(b, v)) + ((cnt(c, v) + cnt(d, v)) + cnt(e, v))
    BY <1>8, <1>9, <1>10, <2>1, <2>2
  <2>4. ASSUME NEW v \in Severities
        PROVE  (cnt(a, v) + cnt(b, v)) + ((cnt(c, v) + cnt(d, v)) + cnt(e, v)) = Expected(answer, v)
    BY <1>3, <1>4, <1>5, <1>6, <1>7, <1>13, <2>4 DEF Expected, Severities
  <2> QED
    BY <2>1, <2>2, <2>3, <2>4
<1> QED
  BY <1>12, <1>13

Silent(ignored, F) == {n \in DOMAIN F : R!Ignores(ignored, F[n])}
Live(ignored, F, v) == {n \in DOMAIN F : ~R!Ignores(ignored, F[n]) /\ F[n].severity = v}
Marked(ignored, F) ==
    [n \in DOMAIN F |->
        [part |-> F[n].part, severity |-> F[n].severity, kind |-> F[n].kind,
         entities |-> F[n].entities, lessons |-> F[n].lessons, spans |-> F[n].spans,
         ignored |-> R!Ignores(ignored, F[n])]]

\* What Convert makes of what was found.
LEMMA ConvertIs ==
    ASSUME NEW answer, NEW ignored, NEW model, NEW F, F = R!Findings(answer)
    PROVE  R!Convert(answer, ignored, model) =
             [findings |-> Marked(ignored, F),
              errors |-> Cardinality(Live(ignored, F, "error")),
              warnings |-> Cardinality(Live(ignored, F, "warning")),
              notes |-> Cardinality(Live(ignored, F, "note")),
              ignored |-> Cardinality(Silent(ignored, F)),
              score |-> IF answer.rated
                        THEN R!CapRatings(answer.score, Marked(ignored, F), model,
                                          Cardinality(Live(ignored, F, "error")))
                        ELSE "none"]
<1> DEFINE T == Marked(ignored, F)
           live(v) == {n \in DOMAIN T : ~T[n].ignored /\ T[n].severity = v}
<1>1. DOMAIN T = DOMAIN F /\ \A n \in DOMAIN F : /\ T[n].ignored = R!Ignores(ignored, F[n])
                                                /\ T[n].severity = F[n].severity
  BY DEF Marked
<1>2. R!Convert(answer, ignored, model) =
        [findings |-> T, errors |-> R!Cardinality(live("error")),
         warnings |-> R!Cardinality(live("warning")), notes |-> R!Cardinality(live("note")),
         ignored |-> R!Cardinality({n \in DOMAIN T : T[n].ignored}),
         score |-> IF answer.rated
                   THEN R!CapRatings(answer.score, T, model, R!Cardinality(live("error")))
                   ELSE "none"]
  BY Zenon DEF R!Convert, Marked
<1> HIDE DEF T
<1>3. \A v : live(v) = Live(ignored, F, v)
  BY <1>1 DEF Live
<1>4. {n \in DOMAIN T : T[n].ignored} = Silent(ignored, F)
  BY <1>1 DEF Silent
<1> HIDE DEF live
<1> QED
  BY <1>2, <1>3, <1>4, SameOperators DEF T

\* Every finding is ignored or has one severity.
LEMMA Parted ==
    ASSUME NEW F, F \in Seq(Finding), NEW ignored
    PROVE  /\ \A v : IsFiniteSet(Live(ignored, F, v)) /\ Cardinality(Live(ignored, F, v)) \in Nat
           /\ Cardinality(Silent(ignored, F)) \in Nat
           /\ Cardinality(Live(ignored, F, "error")) + Cardinality(Live(ignored, F, "warning"))
              + Cardinality(Live(ignored, F, "note")) + Cardinality(Silent(ignored, F)) = Len(F)
<1> DEFINE e == Live(ignored, F, "error")
           w == Live(ignored, F, "warning")
           n == Live(ignored, F, "note")
           i == Silent(ignored, F)
           ew == e \cup w
           ewn == ew \cup n
<1>1. Len(F) \in Nat /\ DOMAIN F = 1..Len(F) /\ IsFiniteSet(1..Len(F)) /\ Cardinality(1..Len(F)) = Len(F)
  <2>1. Len(F) \in Nat /\ DOMAIN F = 1..Len(F)
    OBVIOUS
  <2> QED
    BY <2>1, FS_Interval
<1>2. \A k \in 1..Len(F) : F[k].severity \in Severities
  <2>1. \A k \in 1..Len(F) : F[k] \in Finding
    BY Element
  <2>2. \A f \in Finding : f.severity \in Severities
    BY DEF Finding
  <2> QED
    BY <2>1, <2>2
<1>3. /\ \A v : Live(ignored, F, v) \subseteq 1..Len(F)
      /\ i \subseteq 1..Len(F)
  BY <1>1 DEF Live, Silent
<1>4. \A k \in 1..Len(F) : k \in e \/ k \in w \/ k \in n \/ k \in i
  BY <1>1, <1>2 DEF Live, Silent, Severities
<1>5. e \cap w = {} /\ ew \cap n = {} /\ ewn \cap i = {}
  BY DEF Live, Silent
<1>6. \A v : IsFiniteSet(Live(ignored, F, v)) /\ Cardinality(Live(ignored, F, v)) \in Nat
  BY <1>1, <1>3, FS_Subset, FS_CardinalityType
<1>7. IsFiniteSet(i) /\ Cardinality(i) \in Nat
  BY <1>1, <1>3, FS_Subset, FS_CardinalityType
<1>8. IsFiniteSet(e) /\ IsFiniteSet(w) /\ IsFiniteSet(n)
  BY <1>6
<1>9. ewn \cup i = 1..Len(F)
  BY <1>3, <1>4
<1> HIDE DEF e, w, n, i
<1>10. IsFiniteSet(ew) /\ Cardinality(ew) = Cardinality(e) + Cardinality(w) - Cardinality(e \cap w)
  BY <1>8, FS_Union
<1> HIDE DEF ew
<1>11. IsFiniteSet(ewn) /\ Cardinality(ewn) = Cardinality(ew) + Cardinality(n) - Cardinality(ew \cap n)
  BY <1>8, <1>10, FS_Union
<1> HIDE DEF ewn
<1>12. Cardinality(ewn \cup i) = Cardinality(ewn) + Cardinality(i) - Cardinality(ewn \cap i)
  BY <1>7, <1>11, FS_Union
<1>13. Cardinality({}) = 0
  BY FS_EmptySet
<1>14. Cardinality(e) \in Nat /\ Cardinality(w) \in Nat /\ Cardinality(n) \in Nat
  BY <1>8, FS_CardinalityType
<1>15. Cardinality(e) + Cardinality(w) + Cardinality(n) + Cardinality(i) = Len(F)
  <2>1. Cardinality(e \cap w) = 0 /\ Cardinality(ew \cap n) = 0 /\ Cardinality(ewn \cap i) = 0
    BY <1>5, <1>13
  <2>2. Cardinality(ew) = Cardinality(e) + Cardinality(w)
    BY <1>10, <1>14, <2>1
  <2>3. Cardinality(ewn) = Cardinality(ew) + Cardinality(n)
    BY <1>11, <1>14, <2>1, <2>2
  <2>4. Len(F) = Cardinality(ewn) + Cardinality(i)
    <3>1. Cardinality(ewn \cup i) = Cardinality(1..Len(F))
      BY <1>9
    <3>2. Cardinality(ewn) \in Nat
      BY <1>14, <2>2, <2>3
    <3> QED
      BY <1>1, <1>7, <1>12, <2>1, <3>1, <3>2
  <2> QED
    BY <2>2, <2>3, <2>4
<1> QED
  BY <1>6, <1>7, <1>15 DEF e, w, n, i

LEMMA ReportedTells ==
    ASSUME NEW r \in Reported PROVE Tells(r.answer) /\ r.answer.rated \in BOOLEAN
BY ReportsGiven DEF Tells

LEMMA CountsHold ==
    ASSUME input \in Reported, Given = Report PROVE CountsAgree
<1> DEFINE F == R!Findings(input.answer)
           X == input.answer
           count(v) == Cardinality(Live({}, F, v))
<1>1. Tells(X) /\ X.rated \in BOOLEAN
  BY ReportedTells
<1>2. F \in Seq(Finding) /\ \A v \in Severities : Cardinality(Where(F, Severe(v))) = Expected(X, v)
  BY <1>1, FindingsAre
<1> HIDE DEF F
<1>3. /\ Plain.errors = count("error") /\ Plain.warnings = count("warning")
      /\ Plain.notes = count("note")
  BY ConvertIs DEF Plain, F
<1>4. /\ Given.findings = Marked(input.ignored, F)
      /\ Given.errors = Cardinality(Live(input.ignored, F, "error"))
      /\ Given.warnings = Cardinality(Live(input.ignored, F, "warning"))
      /\ Given.notes = Cardinality(Live(input.ignored, F, "note"))
      /\ Given.ignored = Cardinality(Silent(input.ignored, F))
  BY ConvertIs DEF Report, F
<1>5. ASSUME NEW v \in Severities PROVE count(v) = Expected(X, v)
  <2>1. \A f : ~R!Ignores({}, f)
    BY DEF R!Ignores
  <2>2. DOMAIN F = 1..Len(F) /\ \A n \in 1..Len(F) : F[n] \in Finding
    BY <1>2, Element
  <2>3. Live({}, F, v) = Where(F, Severe(v))
    BY <2>1, <2>2 DEF Live, Where, Severe
  <2> QED
    BY <1>2, <2>3
<1>6. Len(Given.findings) = Len(F)
  <2>1. DOMAIN Marked(input.ignored, F) = DOMAIN F
    BY DEF Marked
  <2>2. Marked(input.ignored, F) = [n \in DOMAIN F |-> Marked(input.ignored, F)[n]]
    BY DEF Marked
  <2>3. \A n \in 1..Len(F) : Marked(input.ignored, F)[n] \in {Marked(input.ignored, F)[m] : m \in 1..Len(F)}
    OBVIOUS
  <2> QED
    BY ONLY <1>2, <1>4, <2>1, <2>2, <2>3, AlongSeq
<1>7. Given.errors + Given.warnings + Given.notes + Given.ignored = Len(Given.findings)
  BY <1>2, <1>4, <1>6, Parted
<1> DEFINE D == IF X.rated THEN R!Drift(X) ELSE [errors |-> 0, warnings |-> 0, notes |-> 0]
<1>8. /\ D.errors = IF X.rated THEN Len(X.conflicts) + SoftCount(X, "error") ELSE 0
      /\ D.warnings = IF X.rated THEN SoftCount(X, "warning") ELSE 0
      /\ D.notes = IF X.rated THEN SoftCount(X, "note") + Cardinality(R!Noted(X.info)) ELSE 0
  BY SameOperators DEF R!Drift, SoftCount
<1>9. /\ Len(X.hard) \in Nat /\ Len(X.advisory) \in Nat /\ Len(X.conflicts) \in Nat
      /\ \A v \in Severities : SoftCount(X, v) \in Nat
      /\ Cardinality(R!Noted(X.info)) \in Nat
  <2>1. Len(X.hard) \in Nat /\ Len(X.advisory) \in Nat /\ Len(X.conflicts) \in Nat
    BY <1>1 DEF Tells
  <2>2. X.soft \in Seq(Issue) /\ X.info \in Seq(Issue)
    BY <1>1 DEF Tells
  <2>3. Cardinality(R!Noted(X.info)) \in Nat
    BY <2>2, RemarksTold
  <2>4. ASSUME NEW v \in Severities PROVE SoftCount(X, v) \in Nat
    <3>1. Len(X.soft) \in Nat /\ DOMAIN X.soft = 1..Len(X.soft)
      BY <2>2
    <3>2. IsFiniteSet(1..Len(X.soft))
      BY <3>1, FS_Interval
    <3>3. {n \in DOMAIN X.soft : R!SoftSeverity(X.soft[n]) = v} \subseteq 1..Len(X.soft)
      BY <3>1
    <3> QED
      BY <3>2, <3>3, FS_Subset, FS_CardinalityType DEF SoftCount
  <2> QED
    BY <2>1, <2>3, <2>4
<1>10. /\ Plain.errors = Len(X.hard) + D.errors
       /\ Plain.warnings = Len(X.advisory) + D.warnings
       /\ Plain.notes = D.notes
  <2>1. "error" \in Severities /\ "warning" \in Severities /\ "note" \in Severities
    BY DEF Severities
  <2> HIDE DEF D
  <2>2. Plain.errors = Len(X.hard) + D.errors
    BY <1>1, <1>3, <1>5, <1>8, <1>9, <2>1 DEF Expected
  <2>3. Plain.warnings = Len(X.advisory) + D.warnings
    BY <1>1, <1>3, <1>5, <1>8, <1>9, <2>1 DEF Expected
  <2>4. Plain.notes = D.notes
    BY <1>1, <1>3, <1>5, <1>8, <1>9, <2>1 DEF Expected
  <2> QED
    BY <2>2, <2>3, <2>4
<1> QED
  BY <1>7, <1>10 DEF CountsAgree

LEMMA IgnoredHold ==
    ASSUME input \in Reported, Given = Report PROVE IgnoredInAnyOrder
<1> DEFINE F == R!Findings(input.answer)
<1>1. F \in Seq(Finding)
  BY ReportedTells, FindingsAre
<1> HIDE DEF F
<1>2. Given.findings = Marked(input.ignored, F)
  BY ConvertIs DEF Report, F
<1>3. input.ignored \subseteq Thing
  <2>1. input.ignored \subseteq [kind : STRING, entities : Refs(KindNames), lessons : Seq(Int), spans : Seq(Int)]
    BY ReportsGiven
  <2> QED
    BY <2>1, KindsAre DEF Thing, Refs, Entity
<1>4. ASSUME NEW n \in DOMAIN Given.findings
      PROVE  Given.findings[n].ignored <=> \E other \in input.ignored :
                /\ other.kind = Given.findings[n].kind
                /\ Reordered(other.entities, Given.findings[n].entities)
                /\ Reordered(other.lessons, Given.findings[n].lessons)
                /\ Reordered(other.spans, Given.findings[n].spans)
  <2> DEFINE id == R!Identity(F[n])
  <2>1. n \in DOMAIN F /\ n \in 1..Len(F)
    BY <1>1, <1>2 DEF Marked
  <2>2. F[n] \in Finding
    BY <1>1, <2>1, Element
  <2>3. /\ Given.findings[n].ignored = R!Ignores(input.ignored, F[n])
        /\ Given.findings[n].kind = id.kind /\ Given.findings[n].entities = id.entities
        /\ Given.findings[n].lessons = id.lessons /\ Given.findings[n].spans = id.spans
    BY <1>2, <2>1 DEF Marked, R!Identity
  <2>4. id \in Thing
    BY <2>2 DEF Thing, Finding, R!Identity
  <2> HIDE DEF id
  <2>5. R!Ignores(input.ignored, F[n]) <=> \E other \in input.ignored : R!FindingKey(other) = R!FindingKey(id)
    BY DEF R!Ignores, id
  <2>6. \A other \in input.ignored :
           R!FindingKey(other) = R!FindingKey(id) <=>
              /\ other.kind = id.kind
              /\ Reordered(other.entities, id.entities)
              /\ Reordered(other.lessons, id.lessons)
              /\ Reordered(other.spans, id.spans)
    BY <1>3, <2>4, OneKey
  <2> QED
    BY <2>3, <2>5, <2>6
<1> QED
  BY <1>4 DEF IgnoredInAnyOrder

\* What an error costs.
LEMMA RatingIs ==
    ASSUME NEW q \in Int
    PROVE  /\ R!Rating(q, 0) = q
           /\ \A e \in Nat : R!Rating(q, e) \in Int /\ (e > 0 => R!Rating(q, e) <= 45)
           /\ \A e, f \in Nat : e <= f => R!Rating(q, f) <= R!Rating(q, e)
<1>1. \A a, b \in Int : /\ R!Min({a, b}) = IF a <= b THEN a ELSE b
                        /\ R!Max({a, b}) = IF a >= b THEN a ELSE b
  <2> TAKE a, b \in Int
  <2>1. Min({a, b}) = IF a <= b THEN a ELSE b
    BY DEF Min
  <2>2. Max({a, b}) = IF a >= b THEN a ELSE b
    BY DEF Max
  <2> QED
    BY <2>1, <2>2, SameOperators
<1>2. \A e \in Nat : R!Rating(q, e) = IF e = 0 THEN q
                       ELSE LET cap == IF 50 - 5 * e <= 0 THEN 0 ELSE 50 - 5 * e
                            IN  IF q <= cap THEN q ELSE cap
  <2> TAKE e \in Nat
  <2>1. R!Max({0, 50 - 5 * e}) = IF 50 - 5 * e <= 0 THEN 0 ELSE 50 - 5 * e
    <3>1. 0 \in Int /\ 50 - 5 * e \in Int
      OBVIOUS
    <3>2. \A b \in Int : R!Max({0, b}) = IF b <= 0 THEN 0 ELSE b
      BY <1>1
    <3> QED
      BY <3>1, <3>2
  <2> DEFINE cap == IF 50 - 5 * e <= 0 THEN 0 ELSE 50 - 5 * e
  <2>2. cap \in Int
    OBVIOUS
  <2> HIDE DEF cap
  <2>3. R!Min({q, cap}) = IF q <= cap THEN q ELSE cap
    BY <1>1, <2>2
  <2>4. R!Rating(q, e) = IF e <= 0 THEN q ELSE R!Min({q, cap})
    BY <2>1 DEF R!Rating, cap
  <2>5. e <= 0 <=> e = 0
    OBVIOUS
  <2> QED
    BY <2>3, <2>4, <2>5 DEF cap
<1> QED
  BY <1>2

\* The findings that count and touch someone; touched[n] is whom the n-th does.
Hits(T, touched, id) == {n \in DOMAIN T : R!Caps(T[n]) /\ id \in touched[n]}

\* Ignoring more leaves fewer hits, and a hit is an error that counts.
LEMMA HitsAre ==
    ASSUME NEW F, F \in Seq(Finding), NEW ignored, NEW touched, NEW id
    PROVE  LET hits == Hits(Marked(ignored, F), touched, id)
               all == Hits(Marked({}, F), touched, id)
           IN  /\ Cardinality(hits) \in Nat /\ Cardinality(all) \in Nat
               /\ Cardinality(hits) <= Cardinality(all)
               /\ Cardinality(hits) = 0 <=> hits = {}
<1> DEFINE hits == Hits(Marked(ignored, F), touched, id)
           all == Hits(Marked({}, F), touched, id)
<1>1. \A f : ~R!Ignores({}, f)
  BY DEF R!Ignores
<1>2. DOMAIN F = 1..Len(F) /\ Len(F) \in Nat
  OBVIOUS
<1>3. all \subseteq 1..Len(F)
  BY <1>2 DEF Hits, Marked
<1>4. hits \subseteq all
  BY <1>1 DEF Hits, Marked, R!Caps
<1> HIDE DEF hits, all
<1>5. IsFiniteSet(all)
  <2>1. IsFiniteSet(1..Len(F))
    BY <1>2, FS_Interval
  <2> QED
    BY <1>3, <2>1, FS_Subset
<1>6. IsFiniteSet(hits)
  BY <1>4, <1>5, FS_Subset
<1> QED
  BY <1>4, <1>5, <1>6, FS_Subset, FS_CardinalityType, FS_EmptySet DEF hits, all

LEMMA RatingsHold ==
    ASSUME input \in Reported, Given = Report PROVE RatingsFollow
<1> SUFFICES ASSUME input.answer.rated PROVE RatingsFollow
  BY DEF RatingsFollow
<1> DEFINE F == R!Findings(input.answer)
           score == input.answer.score
           T == Marked(input.ignored, F)
           U == Marked({}, F)
           live == Live(input.ignored, F, "error")
           all == Live({}, F, "error")
           ofClass == [n \in DOMAIN F |-> R!ClassesOf(School, F[n].entities, F[n].lessons)]
           ofTeacher == [n \in DOMAIN F |-> R!TeachersOf(School, F[n].entities, F[n].lessons)]
<1>1. F \in Seq(Finding)
  BY ReportedTells, FindingsAre
<1>2. /\ score.quality \in Int
      /\ \A id \in DOMAIN score.classes : score.classes[id] \in Int
      /\ \A id \in DOMAIN score.teachers : score.teachers[id] \in Int
  BY ReportsGiven
<1>3. /\ Given.findings = T /\ Given.errors = Cardinality(live)
      /\ Given.score = R!CapRatings(score, T, School, Cardinality(live))
      /\ Plain.score = R!CapRatings(score, U, School, Cardinality(all))
  BY ConvertIs DEF Report, Plain
<1>4. /\ DOMAIN T = DOMAIN F /\ DOMAIN U = DOMAIN F
      /\ \A n \in DOMAIN F : /\ T[n].entities = F[n].entities /\ T[n].lessons = F[n].lessons
                             /\ U[n].entities = F[n].entities /\ U[n].lessons = F[n].lessons
  BY DEF Marked
<1>5. \A x, errors : x \in {T, U} => R!CapRatings(score, x, School, errors) =
         [rating |-> R!Rating(score.quality, errors),
          classes |-> [id \in DOMAIN score.classes |->
                         R!Rating(score.classes[id], Cardinality(Hits(x, ofClass, id)))],
          teachers |-> [id \in DOMAIN score.teachers |->
                         R!Rating(score.teachers[id], Cardinality(Hits(x, ofTeacher, id)))]]
  <2> SUFFICES ASSUME NEW x \in {T, U}, NEW errors
               PROVE R!CapRatings(score, x, School, errors) =
         [rating |-> R!Rating(score.quality, errors),
          classes |-> [id \in DOMAIN score.classes |->
                         R!Rating(score.classes[id], Cardinality(Hits(x, ofClass, id)))],
          teachers |-> [id \in DOMAIN score.teachers |->
                         R!Rating(score.teachers[id], Cardinality(Hits(x, ofTeacher, id)))]]
    OBVIOUS
  <2>1. DOMAIN x = DOMAIN F /\ \A n \in DOMAIN F : x[n].entities = F[n].entities /\ x[n].lessons = F[n].lessons
    BY <1>4
  <2> HIDE DEF F, T, U, score
  <2>2. \A id : {n \in DOMAIN x : R!Caps(x[n]) /\ id \in R!ClassesOf(School, x[n].entities, x[n].lessons)}
                = Hits(x, ofClass, id)
    BY <2>1 DEF Hits
  <2>3. \A id : {n \in DOMAIN x : R!Caps(x[n]) /\ id \in R!TeachersOf(School, x[n].entities, x[n].lessons)}
                = Hits(x, ofTeacher, id)
    BY <2>1 DEF Hits
  <2> HIDE DEF ofClass, ofTeacher
  <2> QED
    BY <2>2, <2>3, SameOperators DEF R!CapRatings
<1>6. \A id : Hurt(R!ClassesOf, id) <=> Hits(T, ofClass, id) # {}
  BY ZenonT(60), <1>3, <1>4 DEF Hurt, Hits, R!Caps
<1>7. \A id : Hurt(R!TeachersOf, id) <=> Hits(T, ofTeacher, id) # {}
  BY ZenonT(60), <1>3, <1>4 DEF Hurt, Hits, R!Caps
<1>8. /\ Cardinality(live) \in Nat /\ Cardinality(all) \in Nat
      /\ Cardinality(live) <= Cardinality(all)
  <2>1. \A f : ~R!Ignores({}, f)
    BY DEF R!Ignores
  <2>2. live \subseteq all
    BY <2>1 DEF Live
  <2>3. IsFiniteSet(live) /\ IsFiniteSet(all) /\ Cardinality(live) \in Nat /\ Cardinality(all) \in Nat
    BY <1>1, Parted
  <2> HIDE DEF live, all
  <2> QED
    BY <2>2, <2>3, FS_Subset
<1>9. \A id : /\ Cardinality(Hits(T, ofClass, id)) \in Nat
              /\ Cardinality(Hits(U, ofClass, id)) \in Nat
              /\ Cardinality(Hits(T, ofClass, id)) <= Cardinality(Hits(U, ofClass, id))
              /\ Cardinality(Hits(T, ofClass, id)) = 0 <=> Hits(T, ofClass, id) = {}
  <2> HIDE DEF F, ofClass
  <2> QED
    BY <1>1, HitsAre
<1>10. \A id : /\ Cardinality(Hits(T, ofTeacher, id)) \in Nat
               /\ Cardinality(Hits(U, ofTeacher, id)) \in Nat
               /\ Cardinality(Hits(T, ofTeacher, id)) <= Cardinality(Hits(U, ofTeacher, id))
               /\ Cardinality(Hits(T, ofTeacher, id)) = 0 <=> Hits(T, ofTeacher, id) = {}
  <2> HIDE DEF F, ofTeacher
  <2> QED
    BY <1>1, HitsAre
<1> HIDE DEF F, T, U, live, all, ofClass, ofTeacher, score
<1>11. /\ Given.score.rating = R!Rating(score.quality, Cardinality(live))
       /\ Plain.score.rating = R!Rating(score.quality, Cardinality(all))
       /\ \A id \in DOMAIN score.classes :
            /\ Given.score.classes[id] = R!Rating(score.classes[id], Cardinality(Hits(T, ofClass, id)))
            /\ Plain.score.classes[id] = R!Rating(score.classes[id], Cardinality(Hits(U, ofClass, id)))
       /\ \A id \in DOMAIN score.teachers :
            /\ Given.score.teachers[id] = R!Rating(score.teachers[id], Cardinality(Hits(T, ofTeacher, id)))
            /\ Plain.score.teachers[id] = R!Rating(score.teachers[id], Cardinality(Hits(U, ofTeacher, id)))
  <2>1. T \in {T, U} /\ U \in {T, U}
    OBVIOUS
  <2> QED
    BY <1>3, <1>5, <2>1
<1>12. /\ Plain.score.rating <= Given.score.rating
       /\ IF Given.errors > 0 THEN Given.score.rating <= 45 ELSE Given.score.rating = score.quality
  BY <1>2, <1>3, <1>8, <1>11, RatingIs
<1>13. ASSUME NEW id \in DOMAIN score.classes
       PROVE  /\ Plain.score.classes[id] <= Given.score.classes[id]
              /\ IF Hurt(R!ClassesOf, id) THEN Given.score.classes[id] <= 45
                 ELSE Given.score.classes[id] = score.classes[id]
  <2> DEFINE q == score.classes[id]
             h == Cardinality(Hits(T, ofClass, id))
             k == Cardinality(Hits(U, ofClass, id))
  <2>1. q \in Int /\ h \in Nat /\ k \in Nat /\ h <= k /\ (h = 0 <=> ~Hurt(R!ClassesOf, id))
    BY <1>2, <1>6, <1>9
  <2>2. Given.score.classes[id] = R!Rating(q, h) /\ Plain.score.classes[id] = R!Rating(q, k)
    BY <1>11
  <2> HIDE DEF q, h, k
  <2>3. R!Rating(q, k) <= R!Rating(q, h) /\ (h > 0 => R!Rating(q, h) <= 45) /\ (h = 0 => R!Rating(q, h) = q)
    BY <2>1, RatingIs
  <2> QED
    BY <2>1, <2>2, <2>3 DEF q
<1>14. ASSUME NEW id \in DOMAIN score.teachers
       PROVE  /\ Plain.score.teachers[id] <= Given.score.teachers[id]
              /\ IF Hurt(R!TeachersOf, id) THEN Given.score.teachers[id] <= 45
                 ELSE Given.score.teachers[id] = score.teachers[id]
  <2> DEFINE q == score.teachers[id]
             h == Cardinality(Hits(T, ofTeacher, id))
             k == Cardinality(Hits(U, ofTeacher, id))
  <2>1. q \in Int /\ h \in Nat /\ k \in Nat /\ h <= k /\ (h = 0 <=> ~Hurt(R!TeachersOf, id))
    BY <1>2, <1>7, <1>10
  <2>2. Given.score.teachers[id] = R!Rating(q, h) /\ Plain.score.teachers[id] = R!Rating(q, k)
    BY <1>11
  <2> HIDE DEF q, h, k
  <2>3. R!Rating(q, k) <= R!Rating(q, h) /\ (h > 0 => R!Rating(q, h) <= 45) /\ (h = 0 => R!Rating(q, h) = q)
    BY <2>1, RatingIs
  <2> QED
    BY <2>1, <2>2, <2>3 DEF q
<1> QED
  BY <1>12, <1>13, <1>14 DEF RatingsFollow, score

-----------------------------------------------------------------------------
(* A behaviour computes its one output from its one input. *)

DocInv ==
    /\ part \in {"report", "arrangement", "none"}
    /\ part = "report" => input \in Reported /\ (output = << >> \/ output = <<Report>>)
    /\ part = "arrangement" => input \in Arranged /\ (output = << >> \/ output = <<Checked>>)
    /\ part = "none" => output = << >>

LEMMA DocInvTheorem == DocSpec => []DocInv
<1>1. DocInit => DocInv
  BY DEF DocInit, DocInv
<1>2. DocInv /\ [Compute]_docVars => DocInv'
  <2> SUFFICES ASSUME DocInv, [Compute]_docVars PROVE DocInv'
    OBVIOUS
  <2>1. CASE Compute
    BY <2>1 DEF DocInv, Compute, Report, Checked
  <2>2. CASE UNCHANGED docVars
    BY <2>2 DEF DocInv, docVars, Report, Checked
  <2> QED
    BY <2>1, <2>2
<1> QED
  BY <1>1, <1>2, PTL DEF DocSpec

\* Whatever a node answers and a document ignores, the report says of every
\* finding what the two say of it: the counts of Convert are the node's own and
\* the input's as verdictDrift counts them, a finding is ignored exactly when
\* the document ignores it in some order, and capRatings lowers the ratings of
\* those an error that counts touches, to 45 at most, and of nobody else.
THEOREM ReportTrueTheorem == DocSpec => []ReportTrue
<1>1. DocInv => ReportTrue
  <2> SUFFICES ASSUME DocInv PROVE ReportTrue
    OBVIOUS
  <2>1. CASE ~Shown
    BY <2>1 DEF ReportTrue, CountsAgree, IgnoredInAnyOrder, RatingsFollow
  <2>2. CASE Shown
    <3>1. input \in Reported /\ Given = Report
      BY <2>2 DEF DocInv, Shown, Given
    <3> QED
      BY <3>1, CountsHold, IgnoredHold, RatingsHold DEF ReportTrue
  <2> QED
    BY <2>1, <2>2
<1> QED
  BY <1>1, DocInvTheorem, PTL

-----------------------------------------------------------------------------
(* What a stored arrangement is. *)

\* A verdict that refuses nothing when there is nothing wrong, and else names
\* something that is.
Good(v, flaws) == IF v = A!Fine THEN flaws = {} ELSE v \in flaws

LEMMA GoodAlong ==
    ASSUME NEW v, NEW n \in Nat, DOMAIN v = 1..n, NEW X,
           \A i \in 1..n : (\A j \in 1..(i - 1) : v[j] = A!Fine) /\ v[i] # A!Fine => v[i] \in X,
           (\A i \in 1..n : v[i] = A!Fine) => X = {}
    PROVE  Good(A!FirstOf(v), X)
BY FirstOfIs DEF Good

LEMMA GoodTwo ==
    ASSUME NEW v, NEW w, NEW X, NEW Y, Good(v, X), v = A!Fine => Good(w, Y)
    PROVE  Good(A!FirstOf(<<v, w>>), X \cup Y)
BY FirstOfTwo DEF Good

\* Values at places are fewer than the places exactly when two are the same.
LEMMA Repeats ==
    ASSUME NEW n \in Nat, NEW f, NEW V, V = {f[i] : i \in 1..n}
    PROVE  /\ IsFiniteSet(V) /\ Cardinality(V) \in Nat /\ Cardinality(V) <= n
           /\ Cardinality(V) < n <=> \E i, j \in 1..n : i < j /\ f[i] = f[j]
<1> DEFINE g == [i \in 1..n |-> f[i]]
<1>0. n \in Nat
  OBVIOUS
<1>1. IsFiniteSet(1..n) /\ Cardinality(1..n) = n
  BY ONLY <1>0, FS_Interval
<1>2. g \in Surjection(1..n, V)
  BY DEF Surjection
<1>3. g \in Injection(1..n, V) <=> \A i, j \in 1..n : f[i] = f[j] => i = j
  BY DEF Injection, IsInjective
<1> HIDE DEF g
<1>4. /\ IsFiniteSet(V) /\ Cardinality(V) <= Cardinality(1..n)
      /\ Cardinality(V) = Cardinality(1..n) <=> g \in Injection(1..n, V)
  BY <1>1, <1>2, FS_Surjection
<1>5. Cardinality(V) \in Nat
  BY <1>4, FS_CardinalityType
<1>6. (\A i, j \in 1..n : f[i] = f[j] => i = j) <=> ~\E i, j \in 1..n : i < j /\ f[i] = f[j]
  <2>1. ASSUME NEW i \in 1..n, NEW j \in 1..n, f[i] = f[j], i # j
        PROVE  \E k, l \in 1..n : k < l /\ f[k] = f[l]
    <3>1. i < j \/ j < i
      BY <2>1
    <3> QED
      BY <2>1, <3>1
  <2>2. ASSUME NEW i \in 1..n, NEW j \in 1..n, i < j /\ f[i] = f[j] PROVE i # j
    BY <2>2
  <2> QED
    BY <2>1, <2>2
<1> QED
  BY <1>1, <1>3, <1>4, <1>5, <1>6

\* A list of numbers is kept when they are positive and it has none twice.
LEMMA DistinctGood ==
    ASSUME NEW field, NEW ids, ids \in Seq(Int)
    PROVE  Good(A!distinct(field, ids), ListFlaws(field, ids))
<1> DEFINE n == Len(ids)
           twice(k) == \E m \in 1..(k - 1) : ids[m] = ids[k]
           v == [k \in DOMAIN ids |->
                   IF ids[k] <= 0 THEN <<field, "invalid">>
                   ELSE IF twice(k) THEN <<field, "duplicate">>
                   ELSE A!Fine]
           X == ListFlaws(field, ids)
<1>1. n \in Nat /\ DOMAIN ids = 1..n /\ \A k \in 1..n : ids[k] \in Int
  OBVIOUS
<1>2. A!distinct(field, ids) = A!FirstOf(v)
  BY DEF A!distinct
<1>3. Cardinality(ToSet(ids)) < n <=> \E k \in 1..n : twice(k)
  <2>1. ToSet(ids) = {ids[k] : k \in 1..n}
    BY <1>1 DEF ToSet
  <2>2. Cardinality(ToSet(ids)) < n <=> \E i, j \in 1..n : i < j /\ ids[i] = ids[j]
    BY <1>1, <2>1, Repeats
  <2>3. \A i, j \in 1..n : i < j <=> i \in 1..(j - 1)
    BY <1>1
  <2>4. \A k \in 1..n : \A m \in 1..(k - 1) : m \in 1..n
    BY <1>1
  <2> QED
    BY <2>2, <2>3, <2>4
<1>4. X = (IF \E k \in 1..n : ids[k] <= 0 THEN {<<field, "invalid">>} ELSE {})
          \cup (IF \E k \in 1..n : twice(k) THEN {<<field, "duplicate">>} ELSE {})
  BY <1>1, <1>3 DEF ListFlaws, Flaw
<1> HIDE DEF n, X, twice
<1>5. DOMAIN v = 1..n /\ \A k \in 1..n : v[k] = IF ids[k] <= 0 THEN <<field, "invalid">>
                                                ELSE IF twice(k) THEN <<field, "duplicate">> ELSE A!Fine
  BY <1>1
<1> HIDE DEF v
<1>6. <<field, "invalid">> # A!Fine /\ <<field, "duplicate">> # A!Fine
  BY DEF A!Fine
<1>7. \A k \in 1..n : v[k] # A!Fine => v[k] \in X
  BY <1>4, <1>5
<1>8. (\A k \in 1..n : v[k] = A!Fine) => X = {}
  BY <1>4, <1>5, <1>6
<1>9. Good(A!FirstOf(v), X)
  BY <1>1, <1>5, <1>7, <1>8, GoodAlong
<1> QED
  BY <1>2, <1>9 DEF X

-----------------------------------------------------------------------------
(* The walk up from a folder. *)

Folders == Seq([id : STRING, name : STRING, accent : STRING, parent : STRING, projects : Seq(Int)])

\* One step of the walk.
Up(folders, x) == IF x \in A!Ids(folders) THEN A!ParentOf(folders, x) ELSE x

\* A function that starts somewhere and goes on from each value to the next.
Climbs(folders, at, n, start) ==
    at = [d \in 1..n |-> IF d = 1 THEN start ELSE Up(folders, at[d - 1])]

LEMMA ClimbsExist ==
    ASSUME NEW folders, NEW start
    PROVE  \A n \in Nat : \E at : Climbs(folders, at, n, start)
<1> DEFINE T == {n \in Nat : ~\E at : Climbs(folders, at, n, start)}
<1> SUFFICES ASSUME T # {} PROVE FALSE
  OBVIOUS
<1>1. PICK n \in T : \A m \in T : n <= m
  BY Least
<1>2. CASE n = 0
  <2> DEFINE at == [d \in 1..0 |-> start]
  <2>1. at = [d \in 1..0 |-> IF d = 1 THEN start ELSE Up(folders, at[d - 1])]
    OBVIOUS
  <2> HIDE DEF at
  <2> QED
    BY <1>1, <1>2, <2>1 DEF Climbs
<1>3. CASE n # 0
  <2>1. n \in Nat /\ n - 1 \in Nat /\ n - 1 \notin T
    BY <1>1, <1>3
  <2>2. PICK at : Climbs(folders, at, n - 1, start)
    BY <2>1
  <2>3. at = [d \in 1..(n - 1) |-> IF d = 1 THEN start ELSE Up(folders, at[d - 1])]
    BY <2>2 DEF Climbs
  <2> DEFINE on == [d \in 1..n |-> IF d = 1 THEN start ELSE Up(folders, at[d - 1])]
  <2>4. \A d \in 1..(n - 1) : on[d] = at[d]
    BY <2>1, <2>3
  <2>5. \A d \in 1..n : on[d] = IF d = 1 THEN start ELSE Up(folders, on[d - 1])
    <3> SUFFICES ASSUME NEW d \in 1..n, d # 1 PROVE at[d - 1] = on[d - 1]
      OBVIOUS
    <3>1. d - 1 \in 1..(n - 1)
      BY <2>1
    <3> HIDE DEF on
    <3> QED
      BY <2>4, <3>1
  <2>6. on = [d \in 1..n |-> on[d]]
    OBVIOUS
  <2> HIDE DEF on
  <2>7. on = [d \in 1..n |-> IF d = 1 THEN start ELSE Up(folders, on[d - 1])]
    BY <2>5, <2>6
  <2> QED
    BY <1>1, <2>7 DEF Climbs
<1> QED
  BY <1>2, <1>3

\* The parents on the way up: each is the parent of the one before it.
LEMMA ClimbIs ==
    ASSUME NEW folders, Len(folders) \in Nat, NEW i
    PROVE  /\ DOMAIN A!Climb(folders, i) = 1..(Len(folders) + 1)
           /\ A!Climb(folders, i)[1] = folders[i].parent
           /\ \A d \in 1..Len(folders) :
                A!Climb(folders, i)[d + 1] = Up(folders, A!Climb(folders, i)[d])
<1> DEFINE n == Len(folders) + 1
           start == folders[i].parent
           c == A!Climb(folders, i)
<1>1. n \in Nat /\ 1 \in 1..n /\ \A d \in 1..Len(folders) : d + 1 \in 1..n /\ d + 1 # 1 /\ (d + 1) - 1 = d
  OBVIOUS
<1>2. c = CHOOSE at : Climbs(folders, at, n, start)
  BY DEF A!Climb, Climbs, Up
<1>3. \E at : Climbs(folders, at, n, start)
  BY <1>1, ClimbsExist
<1> HIDE DEF n, start, c
<1>4. Climbs(folders, c, n, start)
  BY <1>2, <1>3
<1>5. c = [d \in 1..n |-> IF d = 1 THEN start ELSE Up(folders, c[d - 1])]
  BY <1>4 DEF Climbs
<1>6. DOMAIN c = 1..n /\ c[1] = start
  BY <1>1, <1>5
<1>7. \A d \in 1..Len(folders) : c[d + 1] = Up(folders, c[d])
  BY <1>1, <1>5
<1> QED
  BY <1>6, <1>7 DEF n, start, c

LEMMA ParentIs ==
    ASSUME NEW folders, NEW x \in A!Ids(folders)
    PROVE  /\ \E j \in DOMAIN folders : folders[j].id = x /\ A!ParentOf(folders, x) = folders[j].parent
           /\ Up(folders, x) = A!ParentOf(folders, x)
<1>1. PICK k \in DOMAIN folders : folders[k].id = x
  BY DEF A!Ids
<1> DEFINE j == CHOOSE j \in DOMAIN folders : folders[j].id = x
<1>2. j \in DOMAIN folders /\ folders[j].id = x
  BY <1>1
<1>3. A!ParentOf(folders, x) = folders[j].parent
  BY DEF A!ParentOf
<1> HIDE DEF j
<1> QED
  BY <1>2, <1>3 DEF Up

\* Where a walk ends, and what it has passed.
EndsAt(folders, i, depth) ==
    LET c == A!Climb(folders, i)
    IN  /\ depth \in 1..(Len(folders) + 1)
        /\ \A d \in 1..(depth - 1) : c[d] \in A!Ids(folders) /\ c[d] # ""
        /\ c[depth] = "" \/ c[depth] \notin A!Ids(folders) \/ depth = Len(folders) + 1

Stops(c, n, Ids, top) == {d \in 1..(n + 1) : c[d] = top \/ c[d] \notin Ids \/ d > n}

LEMMA FirstEnd ==
    ASSUME NEW n \in Nat, NEW c, NEW Ids, NEW top
    PROVE  LET depth == Min(Stops(c, n, Ids, top))
           IN  /\ depth \in 1..(n + 1)
               /\ \A d \in 1..(depth - 1) : c[d] \in Ids /\ c[d] # top
               /\ c[depth] = top \/ c[depth] \notin Ids \/ depth = n + 1
<1> DEFINE D == Stops(c, n, Ids, top)
           depth == Min(D)
<1>1. n + 1 \in D /\ D \subseteq 1..(n + 1)
  BY DEF Stops
<1>2. depth \in D /\ \A m \in D : depth <= m
  <2>1. D \in SUBSET Nat /\ D # {}
    BY <1>1
  <2> HIDE DEF D
  <2> QED
    BY <2>1, MinIs
<1> HIDE DEF depth
<1>3. depth \in 1..(n + 1) /\ (c[depth] = top \/ c[depth] \notin Ids \/ depth = n + 1)
  BY <1>2 DEF Stops
<1>4. \A d \in 1..(depth - 1) : d \notin D /\ d \in 1..n
  <2> HIDE DEF D
  <2> QED
    BY <1>2, <1>3
<1>5. \A d \in 1..(depth - 1) : c[d] \in Ids /\ c[d] # top
  BY <1>4 DEF Stops
<1> QED
  BY <1>3, <1>5 DEF depth

LEMMA WalkIs ==
    ASSUME NEW folders, Len(folders) \in Nat, NEW i
    PROVE  \E depth : /\ EndsAt(folders, i, depth)
                      /\ A!Walk(folders, i) =
                           LET c == A!Climb(folders, i)
                           IN  IF c[depth] = ""
                               THEN IF depth > MaxDepth THEN <<"folders.parent_id", "too_deep">> ELSE A!Fine
                               ELSE IF c[depth] \notin A!Ids(folders) THEN <<"folders.parent_id", "unknown">>
                               ELSE <<"folders.parent_id", "cycle">>
<1> DEFINE c == A!Climb(folders, i)
           n == Len(folders)
           Ids == A!Ids(folders)
           depth == Min(Stops(c, n, Ids, ""))
<1>1. DOMAIN c = 1..(n + 1)
  BY ClimbIs
<1>2. {d \in DOMAIN c : c[d] = "" \/ c[d] \notin Ids \/ A!Tangled(d, folders)} = Stops(c, n, Ids, "")
  <2>1. \A d : A!Tangled(d, folders) <=> d > n
    BY DEF A!Tangled
  <2> HIDE DEF c, n, Ids
  <2> QED
    BY <1>1, <2>1 DEF Stops
<1>3. A!Walk(folders, i) =
        IF c[depth] = ""
        THEN IF depth > MaxDepth THEN <<"folders.parent_id", "too_deep">> ELSE A!Fine
        ELSE IF c[depth] \notin Ids THEN <<"folders.parent_id", "unknown">>
        ELSE <<"folders.parent_id", "cycle">>
  BY <1>2, SameOperators DEF A!Walk
<1>4. n \in Nat
  OBVIOUS
<1> HIDE DEF n, c, Ids
<1>5. /\ depth \in 1..(n + 1)
      /\ \A d \in 1..(depth - 1) : c[d] \in Ids /\ c[d] # ""
      /\ c[depth] = "" \/ c[depth] \notin Ids \/ depth = n + 1
  BY ONLY <1>4, FirstEnd
<1> HIDE DEF depth
<1>6. EndsAt(folders, i, depth)
  BY <1>5 DEF EndsAt, c, n, Ids
<1> QED
  BY <1>3, <1>6 DEF c, Ids

\* A walk from a folder's parent: it passes folders until it ends.
Way(folders, c, n, start, depth, top) ==
    /\ n \in Nat /\ depth \in 1..(n + 1) /\ c[1] = start
    /\ \A d \in 1..n : c[d + 1] = Up(folders, c[d])
    /\ \A d \in 1..(depth - 1) : c[d] \in A!Ids(folders) /\ c[d] # top
    /\ c[depth] = top \/ c[depth] \notin A!Ids(folders) \/ depth = n + 1

\* Once a way is where it was it goes on as it did.
LEMMA Again ==
    ASSUME NEW folders, NEW c, NEW n, NEW start, NEW depth, NEW top,
           Way(folders, c, n, start, depth, top),
           NEW d \in 1..(n + 1), NEW e \in 1..(n + 1), c[d] = c[e], NEW last \in Nat,
           d + last <= n + 1, e + last <= n + 1
    PROVE  c[d + last] = c[e + last]
<1>0. n \in Nat /\ \A k \in 1..n : c[k + 1] = Up(folders, c[k])
  BY DEF Way
<1> DEFINE T == {k \in 0..last : c[d + k] # c[e + k]}
<1> SUFFICES ASSUME c[d + last] # c[e + last] PROVE FALSE
  OBVIOUS
<1>1. PICK k \in T : \A m \in T : k <= m
  <2>1. T \in SUBSET Nat /\ last \in T
    OBVIOUS
  <2> HIDE DEF T
  <2> QED
    BY <2>1, Least
<1>2. k # 0 /\ k \in 0..last /\ c[d + k] # c[e + k]
  BY <1>0
<1>3. k - 1 \in 0..last /\ k - 1 \notin T
  <2>1. k - 1 \in 0..last /\ ~(k <= k - 1)
    BY <1>2
  <2> HIDE DEF T
  <2> QED
    BY <1>1, <2>1
<1>4. c[d + (k - 1)] = c[e + (k - 1)]
  BY <1>3
<1>5. d + (k - 1) \in 1..n /\ e + (k - 1) \in 1..n
  BY <1>0, <1>2
<1>6. (d + (k - 1)) + 1 = d + k /\ (e + (k - 1)) + 1 = e + k
  BY <1>0, <1>2
<1> QED
  BY <1>0, <1>2, <1>4, <1>5, <1>6

\* What a walk passes is above where it starts.
LEMMA Passed ==
    ASSUME NEW folders, NEW x, NEW f, NEW q \in Nat,
           \A k \in 1..q : /\ f[k] \in A!Ids(folders)
                           /\ \E j \in DOMAIN folders : /\ folders[j].id = IF k = 1 THEN x ELSE f[k - 1]
                                                        /\ folders[j].parent = f[k]
    PROVE  \A k \in 1..q : f[k] \in Above(folders, x)
<1> SUFFICES ASSUME NEW S \in SUBSET A!Ids(folders),
                    \A n \in DOMAIN folders :
                       folders[n].id \in S \cup {x} /\ folders[n].parent \in A!Ids(folders)
                       => folders[n].parent \in S
             PROVE  \A k \in 1..q : f[k] \in S
  BY DEF Above
<1> DEFINE T == {k \in 1..q : f[k] \notin S}
<1> SUFFICES ASSUME T # {} PROVE FALSE
  OBVIOUS
<1>0. T \in SUBSET Nat
  OBVIOUS
<1>1. PICK k \in T : \A m \in T : k <= m
  <2> HIDE DEF T
  <2> QED
    BY <1>0, Least
<1>2. k \in 1..q /\ f[k] \notin S
  BY <1>1
<1>3. PICK j \in DOMAIN folders : /\ folders[j].id = IF k = 1 THEN x ELSE f[k - 1]
                                  /\ folders[j].parent = f[k]
  BY <1>2
<1>4. k # 1 => f[k - 1] \in S
  <2> SUFFICES ASSUME k # 1, f[k - 1] \notin S PROVE FALSE
    OBVIOUS
  <2>1. k - 1 \in T
    BY <1>2
  <2>2. k <= k - 1
    BY <1>1, <2>1
  <2> QED
    BY <1>2, <2>2
<1>5. folders[j].id \in S \cup {x} /\ folders[j].parent \in A!Ids(folders)
  BY <1>2, <1>3, <1>4
<1>6. f[k] \in S
  BY <1>3, <1>5
<1> QED
  BY <1>2, <1>6

\* What the way goes on to is the parent of a folder it has passed.
LEMMA NextOnWay ==
    ASSUME NEW folders, NEW c, NEW n, NEW start, NEW depth, NEW top,
           Way(folders, c, n, start, depth, top), NEW d \in 1..n, c[d] \in A!Ids(folders)
    PROVE  \E j \in DOMAIN folders : folders[j].id = c[d] /\ folders[j].parent = c[d + 1]
<1>1. c[d + 1] = Up(folders, c[d])
  BY DEF Way
<1> QED
  BY <1>1, ParentIs

Parents(folders) == {folders[m].parent : m \in DOMAIN folders}

\* Where a way ends is some folder's parent, and its start where it passes none.
LEMMA WayEnds ==
    ASSUME NEW folders, NEW c, NEW n, NEW start, NEW depth, NEW top,
           Way(folders, c, n, start, depth, top), start \in Parents(folders)
    PROVE  /\ depth \in Nat /\ c[depth] \in Parents(folders)
           /\ c[depth] = top => start \in A!Ids(folders) \/ start = top
<1>1. /\ n \in Nat /\ depth \in 1..(n + 1) /\ c[1] = start
      /\ \A d \in 1..(depth - 1) : c[d] \in A!Ids(folders)
  BY DEF Way
<1>2. CASE depth = 1
  BY <1>1, <1>2 DEF Parents
<1>3. CASE depth # 1
  <2>1. /\ depth - 1 \in 1..n /\ depth - 1 \in 1..(depth - 1) /\ (depth - 1) + 1 = depth
        /\ 1 \in 1..(depth - 1)
    BY <1>1, <1>3
  <2>2. c[depth - 1] \in A!Ids(folders)
    BY <1>1, <2>1
  <2>3. \E j \in DOMAIN folders : folders[j].id = c[depth - 1] /\ folders[j].parent = c[(depth - 1) + 1]
    BY <2>1, <2>2, NextOnWay
  <2> QED
    BY <1>1, <2>1, <2>3 DEF Parents
<1> QED
  BY <1>2, <1>3

LEMMA WayAbove ==
    ASSUME NEW folders, NEW c, NEW n, NEW i \in DOMAIN folders, NEW depth, NEW top,
           Way(folders, c, n, folders[i].parent, depth, top)
    PROVE  \A d \in 1..(depth - 1) : c[d] \in Above(folders, folders[i].id)
<1> DEFINE x == folders[i].id
           q == depth - 1
<1>1. q \in Nat /\ n \in Nat /\ q <= n
  BY DEF Way
<1>2. ASSUME NEW k \in 1..q
      PROVE  /\ c[k] \in A!Ids(folders)
             /\ \E j \in DOMAIN folders : /\ folders[j].id = IF k = 1 THEN x ELSE c[k - 1]
                                          /\ folders[j].parent = c[k]
  <2>1. c[k] \in A!Ids(folders)
    BY DEF Way
  <2>2. CASE k = 1
    BY <2>1, <2>2 DEF Way
  <2>3. CASE k # 1
    <3>1. k - 1 \in 1..n /\ k - 1 \in 1..q /\ (k - 1) + 1 = k
      BY <1>1, <2>3
    <3>2. c[k - 1] \in A!Ids(folders)
      BY <3>1 DEF Way
    <3>3. \E j \in DOMAIN folders : folders[j].id = c[k - 1] /\ folders[j].parent = c[(k - 1) + 1]
      BY <3>1, <3>2, NextOnWay
    <3> QED
      BY <2>1, <2>3, <3>1, <3>3
  <2> QED
    BY <2>2, <2>3
<1> HIDE DEF q, x
<1>3. \A k \in 1..q : c[k] \in Above(folders, x)
  BY <1>1, <1>2, Passed
<1> QED
  BY <1>3 DEF q, x

\* A way that ends at the top passes nothing twice.
LEMMA WayOnce ==
    ASSUME NEW folders, NEW c, NEW n, NEW start, NEW depth, NEW top,
           Way(folders, c, n, start, depth, top), c[depth] = top,
           NEW d \in 1..depth, NEW e \in 1..depth, d < e
    PROVE  c[d] # c[e]
<1> SUFFICES ASSUME c[d] = c[e] PROVE FALSE
  OBVIOUS
<1>1. n \in Nat /\ depth \in 1..(n + 1) /\ d \in 1..(n + 1) /\ e \in 1..(n + 1)
  BY DEF Way
<1>3. /\ depth - e \in Nat /\ d + (depth - e) <= n + 1 /\ e + (depth - e) <= n + 1
      /\ d + (depth - e) \in 1..(depth - 1) /\ e + (depth - e) = depth
  BY <1>1
<1>4. c[d + (depth - e)] = c[e + (depth - e)]
  <2>1. c[d] = c[e] /\ Way(folders, c, n, start, depth, top)
    OBVIOUS
  <2> QED
    BY ONLY <1>1, <1>3, <2>1, Again
<1>5. c[d + (depth - e)] = top
  BY <1>3, <1>4
<1> QED
  BY <1>3, <1>5 DEF Way

\* The folders it passes are as many as it takes steps.
LEMMA WayDeep ==
    ASSUME NEW folders, NEW c, NEW n, NEW i \in DOMAIN folders, NEW depth, NEW top,
           Way(folders, c, n, folders[i].parent, depth, top), c[depth] = top,
           IsFiniteSet(A!Ids(folders))
    PROVE  Cardinality(Above(folders, folders[i].id)) >= depth - 1
<1> DEFINE q == depth - 1
           S == {c[d] : d \in 1..q}
           X == Above(folders, folders[i].id)
<1>1. q \in Nat /\ depth \in Nat
  BY DEF Way
<1>2. S \subseteq X
  BY WayAbove
<1>3. IsFiniteSet(X)
  <2>1. X \subseteq A!Ids(folders)
    BY DEF Above
  <2> QED
    BY <2>1, FS_Subset
<1>4. ~\E d, e \in 1..q : d < e /\ c[d] = c[e]
  <2>1. \A d \in 1..q : d \in 1..depth
    BY <1>1
  <2> QED
    BY <2>1, WayOnce
<1> HIDE DEF q, X
<1>5. /\ Cardinality(S) \in Nat /\ Cardinality(S) <= q
      /\ Cardinality(S) < q <=> \E d, e \in 1..q : d < e /\ c[d] = c[e]
  BY <1>1, Repeats
<1> HIDE DEF S
<1>6. Cardinality(S) <= Cardinality(X) /\ Cardinality(X) \in Nat
  BY <1>2, <1>3, FS_Subset, FS_CardinalityType
<1>7. Cardinality(S) = q
  BY <1>1, <1>4, <1>5
<1>8. Cardinality(X) >= q
  BY <1>1, <1>6, <1>7
<1> QED
  BY <1>8 DEF q, X

\* A way of more folders than there are passes one above itself.
LEMMA WayCircles ==
    ASSUME NEW folders, NEW c, NEW n, NEW start, NEW top, Way(folders, c, n, start, n + 1, top),
           c[n + 1] \in A!Ids(folders), IsFiniteSet(A!Ids(folders)), Cardinality(A!Ids(folders)) <= n
    PROVE  \E x \in A!Ids(folders) : x \in Above(folders, x)
<1> DEFINE I == A!Ids(folders)
           f == [d \in 1..(n + 1) |-> c[d]]
<1>1. n \in Nat /\ n + 1 \in Nat
  BY DEF Way
<1>2. \A d \in 1..(n + 1) : c[d] \in I
  <2>1. \A d \in 1..((n + 1) - 1) : c[d] \in I
    BY DEF Way
  <2>2. \A d \in 1..(n + 1) : d = n + 1 \/ d \in 1..((n + 1) - 1)
    BY <1>1
  <2> QED
    BY <2>1, <2>2
<1>3. IsFiniteSet(1..(n + 1)) /\ Cardinality(1..(n + 1)) = n + 1
  BY ONLY <1>1, FS_Interval
<1>4. Cardinality(I) < Cardinality(1..(n + 1))
  <2>1. Cardinality(I) \in Nat
    BY FS_CardinalityType
  <2> QED
    BY <1>1, <1>3, <2>1
<1>5. f \in [1..(n + 1) -> I]
  BY <1>2
<1>6. \E d, e \in 1..(n + 1) : d # e /\ f[d] = f[e]
  <2>1. IsFiniteSet(I)
    OBVIOUS
  <2> HIDE DEF I, f
  <2> QED
    BY <1>3, <1>4, <1>5, <2>1, FS_PigeonHole
<1>7. PICK d \in 1..(n + 1), e \in 1..(n + 1) : d < e /\ c[d] = c[e]
  <2>1. PICK d \in 1..(n + 1), e \in 1..(n + 1) : d # e /\ c[d] = c[e]
    BY <1>6
  <2>2. d < e \/ e < d
    BY <1>1, <2>1
  <2> QED
    BY <2>1, <2>2
<1> DEFINE q == e - d
           g == [k \in 1..q |-> c[d + k]]
<1>8. q \in Nat /\ q \in 1..q /\ d + q = e
  BY <1>1, <1>7
<1>9. ASSUME NEW k \in 1..q
      PROVE  /\ g[k] \in A!Ids(folders)
             /\ \E j \in DOMAIN folders : /\ folders[j].id = IF k = 1 THEN c[d] ELSE g[k - 1]
                                          /\ folders[j].parent = g[k]
  <2>1. /\ d + k \in 1..(n + 1) /\ d + (k - 1) \in 1..n /\ d + (k - 1) \in 1..(n + 1)
        /\ (d + (k - 1)) + 1 = d + k
    BY <1>1, <1>7, <1>8
  <2>2. g[k] = c[d + k]
    OBVIOUS
  <2>3. (IF k = 1 THEN c[d] ELSE g[k - 1]) = c[d + (k - 1)]
    <3>1. k = 1 => d + (k - 1) = d
      BY <1>1
    <3>2. k # 1 => k - 1 \in 1..q
      BY <1>8
    <3> QED
      BY <3>1, <3>2
  <2> HIDE DEF g, q
  <2>4. \E j \in DOMAIN folders : /\ folders[j].id = c[d + (k - 1)]
                                 /\ folders[j].parent = c[(d + (k - 1)) + 1]
    BY <1>2, <2>1, NextOnWay
  <2> QED
    BY <1>2, <2>1, <2>2, <2>3, <2>4
<1> HIDE DEF g
<1>10. \A k \in 1..q : g[k] \in Above(folders, c[d])
  <2> HIDE DEF q
  <2> QED
    BY <1>8, <1>9, Passed
<1>11. g[q] = c[d]
  BY <1>7, <1>8 DEF g
<1> QED
  BY <1>2, <1>8, <1>10, <1>11

Unique(folders) == \A i, j \in DOMAIN folders : folders[i].id = folders[j].id => i = j

\* Above a folder is nothing but what its way to the top passes.
LEMMA OnlyWay ==
    ASSUME NEW folders, Unique(folders), NEW c, NEW n, NEW i \in DOMAIN folders, NEW depth, NEW top,
           Way(folders, c, n, folders[i].parent, depth, top), c[depth] = top,
           top \notin A!Ids(folders)
    PROVE  LET x == folders[i].id
           IN  /\ x \notin Above(folders, x)
               /\ Cardinality(Above(folders, x)) <= depth - 1 /\ Cardinality(Above(folders, x)) \in Nat
<1> DEFINE x == folders[i].id
           q == depth - 1
           S == {c[d] : d \in 1..q}
           X == Above(folders, x)
<1>1. q \in Nat /\ depth \in Nat /\ n \in Nat /\ depth <= n + 1 /\ depth >= 1
  BY DEF Way
<1>2. S \in SUBSET A!Ids(folders)
  BY DEF Way
<1>3. ASSUME NEW d \in 1..q, NEW m \in DOMAIN folders, folders[m].id = c[d]
      PROVE  folders[m].parent = c[d + 1]
  <2>1. d \in 1..n /\ c[d] \in A!Ids(folders)
    BY <1>1, <1>2
  <2>2. PICK j \in DOMAIN folders : folders[j].id = c[d] /\ folders[j].parent = c[d + 1]
    BY <2>1, NextOnWay
  <2>3. j = m
    BY <1>3, <2>2 DEF Unique
  <2> QED
    BY <2>2, <2>3
<1>4. ASSUME NEW m \in DOMAIN folders, folders[m].id \in S \cup {x}, folders[m].parent \in A!Ids(folders)
      PROVE  folders[m].parent \in S
  <2>1. CASE folders[m].id = x
    <3>1. m = i
      BY <2>1 DEF Unique
    <3>2. folders[m].parent = c[1]
      BY <3>1 DEF Way
    <3>3. depth # 1
      BY <1>4, <3>2
    <3>4. 1 \in 1..q
      BY <1>1, <3>3
    <3> QED
      BY <3>2, <3>4
  <2>2. CASE folders[m].id \in S
    <3>1. PICK d \in 1..q : folders[m].id = c[d]
      BY <2>2
    <3>2. folders[m].parent = c[d + 1]
      BY <1>3, <3>1
    <3>3. d + 1 # depth
      BY <1>4, <3>2
    <3>4. d + 1 \in 1..q
      BY <1>1, <3>3
    <3> QED
      BY <3>2, <3>4
  <2> QED
    BY <1>4, <2>1, <2>2
<1>5. X \subseteq S
  <2> HIDE DEF S, x
  <2> QED
    BY <1>2, <1>4 DEF Above
<1>6. x \notin S
  <2> SUFFICES ASSUME NEW d \in 1..q, x = c[d] PROVE FALSE
    OBVIOUS
  <2>1. folders[i].parent = c[d + 1]
    BY <1>3
  <2>2. c[1] = c[d + 1]
    BY <2>1 DEF Way
  <2>3. 1 \in 1..depth /\ d + 1 \in 1..depth /\ 1 < d + 1
    BY <1>1
  <2> HIDE DEF q
  <2> QED
    BY <2>2, <2>3, WayOnce
<1> HIDE DEF q, X
<1>7. IsFiniteSet(S) /\ Cardinality(S) \in Nat /\ Cardinality(S) <= q
  BY <1>1, Repeats
<1> HIDE DEF S
<1>8. Cardinality(X) <= Cardinality(S) /\ Cardinality(X) \in Nat
  BY <1>5, <1>7, FS_Subset, FS_CardinalityType
<1>9. Cardinality(X) <= q
  BY <1>1, <1>7, <1>8
<1> QED
  BY <1>5, <1>6, <1>8, <1>9 DEF q, X

\* The walk of the code takes such a way.
LEMMA WalkOnWay ==
    ASSUME NEW folders, Len(folders) \in Nat, NEW i
    PROVE  \E depth :
             /\ Way(folders, A!Climb(folders, i), Len(folders), folders[i].parent, depth, "")
             /\ A!Walk(folders, i) =
                  LET c == A!Climb(folders, i)
                  IN  IF c[depth] = ""
                      THEN IF depth > MaxDepth THEN <<"folders.parent_id", "too_deep">> ELSE A!Fine
                      ELSE IF c[depth] \notin A!Ids(folders) THEN <<"folders.parent_id", "unknown">>
                      ELSE <<"folders.parent_id", "cycle">>
<1> DEFINE c == A!Climb(folders, i)
<1>1. PICK depth : EndsAt(folders, i, depth) /\ A!Walk(folders, i) =
                  IF c[depth] = ""
                  THEN IF depth > MaxDepth THEN <<"folders.parent_id", "too_deep">> ELSE A!Fine
                  ELSE IF c[depth] \notin A!Ids(folders) THEN <<"folders.parent_id", "unknown">>
                  ELSE <<"folders.parent_id", "cycle">>
  BY WalkIs
<1>2. c[1] = folders[i].parent /\ \A d \in 1..Len(folders) : c[d + 1] = Up(folders, c[d])
  BY ClimbIs
<1>3. Way(folders, c, Len(folders), folders[i].parent, depth, "")
  BY <1>1, <1>2 DEF Way, EndsAt
<1> QED
  BY <1>1, <1>3

-----------------------------------------------------------------------------
(* The folders of an arrangement. *)

NamedFlaws(folders) ==
    Flaw("folders.id", "invalid", A!Ids(folders) \ FolderIDs # {})
    \cup Flaw("folders.id", "duplicate", Cardinality(A!Ids(folders)) < Len(folders))
    \cup Flaw("folders.name", "required", \E n \in DOMAIN folders : folders[n].name \in Blank)
    \cup Flaw("folders.name", "too_long", \E n \in DOMAIN folders : folders[n].name \in TooLong)
    \cup Flaw("folders.accent", "invalid", \E n \in DOMAIN folders : folders[n].accent \notin Accents)

ParentFlaws(folders) ==
    Flaw("folders.parent_id", "unknown",
         \E n \in DOMAIN folders : folders[n].parent \notin A!Ids(folders) \cup {""})
    \cup Flaw("folders.parent_id", "cycle", \E x \in A!Ids(folders) : x \in Above(folders, x))
    \cup Flaw("folders.parent_id", "too_deep",
              \E x \in A!Ids(folders) : Cardinality(Above(folders, x)) >= MaxDepth)

LEMMA IdsAre ==
    ASSUME NEW folders, folders \in Folders
    PROVE  /\ Len(folders) \in Nat /\ DOMAIN folders = 1..Len(folders)
           /\ IsFiniteSet(A!Ids(folders)) /\ Cardinality(A!Ids(folders)) \in Nat
           /\ Cardinality(A!Ids(folders)) <= Len(folders)
           /\ Cardinality(A!Ids(folders)) < Len(folders) <=>
                \E i \in DOMAIN folders : \E j \in 1..(i - 1) : folders[j].id = folders[i].id
           /\ Cardinality(A!Ids(folders)) = Len(folders) => Unique(folders)
<1> DEFINE n == Len(folders)
           f == [i \in 1..n |-> folders[i].id]
           V == {f[i] : i \in 1..n}
<1>1. n \in Nat /\ DOMAIN folders = 1..n
  BY DEF Folders
<1>2. A!Ids(folders) = V
  BY <1>1 DEF A!Ids
<1>3. \A i \in 1..n : f[i] = folders[i].id
  OBVIOUS
<1> HIDE DEF n, f
<1>4. /\ IsFiniteSet(V) /\ Cardinality(V) \in Nat /\ Cardinality(V) <= n
      /\ Cardinality(V) < n <=> \E i, j \in 1..n : i < j /\ f[i] = f[j]
  BY <1>1, Repeats
<1> HIDE DEF V
<1>5. (\E i, j \in 1..n : i < j /\ f[i] = f[j])
      <=> \E i \in DOMAIN folders : \E j \in 1..(i - 1) : folders[j].id = folders[i].id
  <2>1. \A i, j \in 1..n : i < j <=> i \in 1..(j - 1)
    BY <1>1
  <2>2. \A k \in 1..n : \A m \in 1..(k - 1) : m \in 1..n
    BY <1>1
  <2> QED
    BY <1>1, <1>3, <2>1, <2>2
<1>6. Cardinality(V) = n => Unique(folders)
  <2> SUFFICES ASSUME Cardinality(V) = n, NEW i \in 1..n, NEW j \in 1..n, f[i] = f[j], i # j PROVE FALSE
    BY <1>1, <1>3 DEF Unique
  <2>1. i < j \/ j < i
    BY <1>1
  <2>2. ~(Cardinality(V) < n)
    BY <1>1
  <2> QED
    BY <1>4, <2>1, <2>2
<1> QED
  BY <1>1, <1>2, <1>4, <1>5, <1>6 DEF n

\* The first look at the folders refuses the ids, names and accents.
LEMMA NamedGood ==
    ASSUME NEW folders, folders \in Folders
    PROVE  Good(A!FirstOf([i \in DOMAIN folders |-> A!Named(folders, i)]), NamedFlaws(folders))
<1> DEFINE v == [i \in DOMAIN folders |-> A!Named(folders, i)]
           n == Len(folders)
           X == NamedFlaws(folders)
           twice(i) == \E j \in 1..(i - 1) : folders[j].id = folders[i].id
<1>1. n \in Nat /\ DOMAIN folders = 1..n
      /\ (Cardinality(A!Ids(folders)) < n <=> \E i \in 1..n : twice(i))
  BY IdsAre
<1>2. \A i \in 1..n : v[i] =
        IF folders[i].id \notin FolderIDs THEN <<"folders.id", "invalid">>
        ELSE IF twice(i) THEN <<"folders.id", "duplicate">>
        ELSE IF folders[i].name \in Blank THEN <<"folders.name", "required">>
        ELSE IF folders[i].name \in TooLong THEN <<"folders.name", "too_long">>
        ELSE IF folders[i].accent \notin Accents THEN <<"folders.accent", "invalid">>
        ELSE A!Fine
  BY <1>1 DEF A!Named
<1>3. A!Ids(folders) \ FolderIDs # {} <=> \E i \in 1..n : folders[i].id \notin FolderIDs
  BY <1>1 DEF A!Ids
<1>4. X = (IF \E i \in 1..n : folders[i].id \notin FolderIDs THEN {<<"folders.id", "invalid">>} ELSE {})
          \cup (IF \E i \in 1..n : twice(i) THEN {<<"folders.id", "duplicate">>} ELSE {})
          \cup (IF \E i \in 1..n : folders[i].name \in Blank THEN {<<"folders.name", "required">>} ELSE {})
          \cup (IF \E i \in 1..n : folders[i].name \in TooLong THEN {<<"folders.name", "too_long">>} ELSE {})
          \cup (IF \E i \in 1..n : folders[i].accent \notin Accents THEN {<<"folders.accent", "invalid">>} ELSE {})
  BY <1>1, <1>3 DEF NamedFlaws, Flaw
<1>5. DOMAIN v = 1..n
  BY <1>1
<1> HIDE DEF n, v, X, twice
<1>6. \A i \in 1..n : v[i] # A!Fine => v[i] \in X
  BY <1>2, <1>4
<1>7. (\A i \in 1..n : v[i] = A!Fine) => X = {}
  BY <1>2, <1>4 DEF A!Fine
<1>8. Good(A!FirstOf(v), X)
  BY <1>1, <1>5, <1>6, <1>7, GoodAlong
<1> QED
  BY <1>8 DEF v, X

LEMMA FlawsOfWalk ==
    ASSUME NEW folders
    PROVE  /\ (\E n \in DOMAIN folders : folders[n].parent \notin A!Ids(folders) \cup {""})
                => <<"folders.parent_id", "unknown">> \in ParentFlaws(folders)
           /\ (\E x \in A!Ids(folders) : x \in Above(folders, x))
                => <<"folders.parent_id", "cycle">> \in ParentFlaws(folders)
           /\ (\E x \in A!Ids(folders) : Cardinality(Above(folders, x)) >= MaxDepth)
                => <<"folders.parent_id", "too_deep">> \in ParentFlaws(folders)
BY DEF ParentFlaws, Flaw

\* A walk that is refused names what is wrong, and one that is not ends at the top.
LEMMA WalkGood ==
    ASSUME NEW folders, folders \in Folders, Unique(folders), "" \notin A!Ids(folders),
           NEW i \in DOMAIN folders
    PROVE  /\ A!Walk(folders, i) # A!Fine => A!Walk(folders, i) \in ParentFlaws(folders)
           /\ A!Walk(folders, i) = A!Fine =>
                /\ folders[i].parent \in A!Ids(folders) \cup {""}
                /\ folders[i].id \notin Above(folders, folders[i].id)
                /\ ~(Cardinality(Above(folders, folders[i].id)) >= MaxDepth)
<1> DEFINE c == A!Climb(folders, i)
           n == Len(folders)
           Ids == A!Ids(folders)
           x == folders[i].id
           w == A!Walk(folders, i)
           X == ParentFlaws(folders)
<1>1. n \in Nat /\ IsFiniteSet(Ids) /\ Cardinality(Ids) <= n /\ x \in Ids
  BY IdsAre DEF A!Ids
<1>2. PICK depth :
        /\ Way(folders, c, n, folders[i].parent, depth, "")
        /\ w = IF c[depth] = ""
               THEN IF depth > MaxDepth THEN <<"folders.parent_id", "too_deep">> ELSE A!Fine
               ELSE IF c[depth] \notin Ids THEN <<"folders.parent_id", "unknown">>
               ELSE <<"folders.parent_id", "cycle">>
  BY <1>1, WalkOnWay
<1> HIDE DEF c, w, n, Ids, x
<1>9. /\ depth \in Nat /\ c[depth] \in Parents(folders)
      /\ c[depth] = "" => folders[i].parent \in A!Ids(folders) \/ folders[i].parent = ""
  <2>1. Way(folders, c, n, folders[i].parent, depth, "") /\ folders[i].parent \in Parents(folders)
    BY <1>2 DEF Parents
  <2> QED
    BY ONLY <2>1, WayEnds
<1>3. depth \in Nat /\ MaxDepth \in Nat
  BY <1>9, ArrangedGiven
<1> USE DEF Ids, x
<1>4. /\ <<"folders.parent_id", "too_deep">> # A!Fine
      /\ <<"folders.parent_id", "unknown">> # A!Fine
      /\ <<"folders.parent_id", "cycle">> # A!Fine
  BY DEF A!Fine
<1>5. CASE c[depth] = "" /\ depth > MaxDepth
  <2>1. Cardinality(Above(folders, x)) >= depth - 1
    BY <1>1, <1>2, <1>5, WayDeep
  <2>2. Cardinality(Above(folders, x)) \in Nat
    <3>1. Above(folders, x) \subseteq Ids
      BY DEF Above
    <3> HIDE DEF Ids, x
    <3> QED
      BY <1>1, <3>1, FS_Subset, FS_CardinalityType
  <2>3. Cardinality(Above(folders, x)) >= MaxDepth
    <3> DEFINE card == Cardinality(Above(folders, x))
    <3>1. card \in Nat /\ card >= depth - 1
      BY <2>1, <2>2
    <3>2. depth > MaxDepth
      BY <1>5
    <3> HIDE DEF card
    <3>3. card >= MaxDepth
      BY ONLY <1>3, <3>1, <3>2
    <3> QED
      BY <3>3 DEF card
  <2>4. <<"folders.parent_id", "too_deep">> \in X
    BY <1>1, <2>3, FlawsOfWalk
  <2>5. w = <<"folders.parent_id", "too_deep">>
    BY <1>2, <1>5
  <2> QED
    BY <1>4, <2>4, <2>5 DEF w
<1>6. CASE c[depth] = "" /\ ~(depth > MaxDepth)
  <2>1. w = A!Fine
    BY <1>2, <1>6
  <2>2. x \notin Above(folders, x) /\ Cardinality(Above(folders, x)) <= depth - 1
        /\ Cardinality(Above(folders, x)) \in Nat
    BY <1>2, <1>6, OnlyWay
  <2>3. ~(Cardinality(Above(folders, x)) >= MaxDepth)
    <3> DEFINE card == Cardinality(Above(folders, x))
    <3>1. card \in Nat /\ card <= depth - 1
      BY <2>2
    <3>2. ~(depth > MaxDepth)
      BY <1>6
    <3> HIDE DEF card
    <3>3. ~(card >= MaxDepth)
      BY ONLY <1>3, <3>1, <3>2
    <3> QED
      BY <3>3 DEF card
  <2>4. folders[i].parent \in Ids \cup {""}
    BY <1>6, <1>9
  <2> QED
    BY <2>1, <2>2, <2>3, <2>4 DEF w
<1>7. CASE c[depth] # "" /\ c[depth] \notin Ids
  <2>1. w = <<"folders.parent_id", "unknown">>
    BY <1>2, <1>7
  <2>2. \E m \in DOMAIN folders : folders[m].parent = c[depth]
    BY <1>9 DEF Parents
  <2>3. <<"folders.parent_id", "unknown">> \in X
    BY <1>7, <2>2, FlawsOfWalk
  <2> QED
    BY <1>4, <2>1, <2>3 DEF w
<1>8. CASE c[depth] # "" /\ c[depth] \in Ids
  <2>1. w = <<"folders.parent_id", "cycle">>
    BY <1>2, <1>8
  <2>2. depth = n + 1
    BY <1>2, <1>8 DEF Way
  <2>3. \E y \in Ids : y \in Above(folders, y)
    <3>1. Way(folders, c, n, folders[i].parent, n + 1, "") /\ c[n + 1] \in A!Ids(folders)
      BY <1>2, <1>8, <2>2
    <3> QED
      BY <1>1, <3>1, WayCircles
  <2>4. <<"folders.parent_id", "cycle">> \in X
    BY <2>3, FlawsOfWalk
  <2> QED
    BY <1>4, <2>1, <2>4 DEF w
<1> QED
  BY <1>5, <1>6, <1>7, <1>8

LEMMA ParentsGood ==
    ASSUME NEW folders, folders \in Folders, Unique(folders), "" \notin A!Ids(folders)
    PROVE  Good(A!FirstOf([i \in DOMAIN folders |-> A!Walk(folders, i)]), ParentFlaws(folders))
<1> DEFINE v == [i \in DOMAIN folders |-> A!Walk(folders, i)]
           n == Len(folders)
           X == ParentFlaws(folders)
<1>1. n \in Nat /\ DOMAIN folders = 1..n /\ DOMAIN v = 1..n /\ \A i \in 1..n : v[i] = A!Walk(folders, i)
  BY IdsAre
<1> HIDE DEF v, n
<1>2. \A i \in 1..n : v[i] # A!Fine => v[i] \in X
  BY <1>1, WalkGood
<1>3. ASSUME \A i \in 1..n : v[i] = A!Fine PROVE X = {}
  <2>1. \A i \in DOMAIN folders :
          /\ folders[i].parent \in A!Ids(folders) \cup {""}
          /\ folders[i].id \notin Above(folders, folders[i].id)
          /\ ~(Cardinality(Above(folders, folders[i].id)) >= MaxDepth)
    BY <1>1, <1>3, WalkGood
  <2>2. \A x \in A!Ids(folders) : \E i \in DOMAIN folders : x = folders[i].id
    BY DEF A!Ids
  <2> QED
    BY <2>1, <2>2 DEF ParentFlaws, Flaw
<1> HIDE DEF X
<1>4. Good(A!FirstOf(v), X)
  BY <1>1, <1>2, <1>3, GoodAlong
<1> QED
  BY <1>4 DEF v, X

LEMMA FoldersGood ==
    ASSUME NEW folders, folders \in Folders
    PROVE  Good(A!checkFolders(folders), FolderFlaws(folders))
<1> DEFINE v == A!FirstOf([i \in DOMAIN folders |-> A!Named(folders, i)])
           w == A!FirstOf([i \in DOMAIN folders |-> A!Walk(folders, i)])
           N == NamedFlaws(folders)
           P == ParentFlaws(folders)
           M == Flaw("folders", "too_many", Len(folders) > MaxFolders)
<1>1. FolderFlaws(folders) = M \cup (N \cup P)
  BY Zenon DEF FolderFlaws, NamedFlaws, ParentFlaws
<1>2. A!checkFolders(folders) = IF Len(folders) > MaxFolders THEN <<"folders", "too_many">>
                                ELSE A!FirstOf(<<v, w>>)
  BY DEF A!checkFolders
<1>3. Good(v, N)
  BY NamedGood
<1>4. v = A!Fine => Good(w, P)
  <2> SUFFICES ASSUME v = A!Fine PROVE Good(w, P)
    OBVIOUS
  <2>1. N = {}
    BY <1>3 DEF Good
  <2>2. A!Ids(folders) \ FolderIDs = {} /\ ~(Cardinality(A!Ids(folders)) < Len(folders))
    BY <2>1 DEF NamedFlaws, Flaw
  <2>3. "" \notin A!Ids(folders)
    BY <2>2, ArrangedGiven
  <2>4. Unique(folders)
    <3>1. /\ Cardinality(A!Ids(folders)) \in Nat /\ Len(folders) \in Nat
          /\ Cardinality(A!Ids(folders)) <= Len(folders)
          /\ Cardinality(A!Ids(folders)) = Len(folders) => Unique(folders)
      BY IdsAre
    <3> QED
      BY <2>2, <3>1
  <2> QED
    BY <2>3, <2>4, ParentsGood
<1> HIDE DEF v, w, N, P
<1>5. Good(A!FirstOf(<<v, w>>), N \cup P)
  BY <1>3, <1>4, GoodTwo
<1>6. <<"folders", "too_many">> # A!Fine
  BY DEF A!Fine
<1> QED
  BY <1>1, <1>2, <1>5, <1>6 DEF Good, Flaw

-----------------------------------------------------------------------------
(* The places of projects. *)

\* What is wrong with one list, beside what the lists before it hold.
Wrong(ids) == \E n \in DOMAIN ids : ids[n] <= 0
Taken(ids, placed) ==
    \E n \in DOMAIN ids : ids[n] \in placed \/ \E m \in 1..(n - 1) : ids[m] = ids[n]

LEMMA SeatedIs ==
    ASSUME NEW field, NEW ids, ids \in Seq(Int), NEW placed
    PROVE  LET v == A!Seated(field, ids, placed)
           IN  /\ v # A!Fine => (v = <<field, "invalid">> /\ Wrong(ids))
                                \/ (v = <<"projects", "duplicate">> /\ Taken(ids, placed))
               /\ v = A!Fine => ~Wrong(ids) /\ ~Taken(ids, placed)
<1> DEFINE n == Len(ids)
           taken(k) == ids[k] \in placed \/ \E m \in 1..(k - 1) : ids[m] = ids[k]
           s == [k \in DOMAIN ids |->
                   IF ids[k] <= 0 THEN <<field, "invalid">>
                   ELSE IF taken(k) THEN <<"projects", "duplicate">>
                   ELSE A!Fine]
           v == A!Seated(field, ids, placed)
<1>1. n \in Nat /\ DOMAIN ids = 1..n
  OBVIOUS
<1>2. v = A!FirstOf(s)
  BY DEF A!Seated
<1>3. (Wrong(ids) <=> \E k \in 1..n : ids[k] <= 0) /\ (Taken(ids, placed) <=> \E k \in 1..n : taken(k))
  BY <1>1 DEF Wrong, Taken
<1>4. DOMAIN s = 1..n /\ \A k \in 1..n : s[k] = IF ids[k] <= 0 THEN <<field, "invalid">>
                                                ELSE IF taken(k) THEN <<"projects", "duplicate">>
                                                ELSE A!Fine
  BY <1>1
<1> HIDE DEF n, s, v, taken
<1>5. /\ v = A!Fine <=> \A i \in 1..n : s[i] = A!Fine
      /\ v # A!Fine => \E i \in 1..n : v = s[i] /\ s[i] # A!Fine
  <2>1. n \in Nat /\ DOMAIN s = 1..n
    BY <1>1, <1>4
  <2> QED
    BY <1>2, <2>1, FirstOfIs
<1>6. <<field, "invalid">> # A!Fine /\ <<"projects", "duplicate">> # A!Fine
  BY DEF A!Fine
<1>7. v # A!Fine => (v = <<field, "invalid">> /\ Wrong(ids))
                     \/ (v = <<"projects", "duplicate">> /\ Taken(ids, placed))
  BY <1>3, <1>4, <1>5
<1>8. v = A!Fine => ~Wrong(ids) /\ ~Taken(ids, placed)
  BY <1>3, <1>4, <1>5, <1>6
<1> QED
  BY <1>7, <1>8 DEF v

LEMMA PlacedIs ==
    ASSUME NEW folders, NEW k
    PROVE  \A y : y \in A!Placed(folders, k) <=>
              \E j \in 1..(k - 1) : \E m \in DOMAIN folders[j].projects : folders[j].projects[m] = y
BY SameOperators DEF A!Placed, ToSet

LEMMA SeatsAre ==
    ASSUME NEW a
    PROVE  /\ \A i \in 0..Len(a.folders) : \A n \in DOMAIN List(a, i) :
                <<i, n>> \in Seats(a) /\ At(a, <<i, n>>) = List(a, i)[n]
           /\ \A s \in Seats(a) : \E i \in 0..Len(a.folders) : \E n \in DOMAIN List(a, i) :
                s = <<i, n>> /\ At(a, s) = List(a, i)[n]
<1>1. \A s : s \in Seats(a) <=> \E i \in 0..Len(a.folders) : \E n \in DOMAIN List(a, i) : s = <<i, n>>
  BY DEF Seats
<1> QED
  BY <1>1 DEF At

PlaceFlaws(a) ==
    Flaw("folders.projects", "invalid", \E s \in Seats(a) : s[1] > 0 /\ At(a, s) <= 0)
    \cup Flaw("projects", "invalid", \E s \in Seats(a) : s[1] = 0 /\ At(a, s) <= 0)
    \cup Flaw("projects", "duplicate", \E s, o \in Seats(a) : s # o /\ At(a, s) = At(a, o))

\* Two seats of one project, in lists or in one.
Twice(a) ==
    \E i, j \in 0..Len(a.folders) : \E n \in DOMAIN List(a, i) : \E m \in DOMAIN List(a, j) :
        (i # j \/ n # m) /\ List(a, i)[n] = List(a, j)[m]

LEMMA PlaceFlawsAre ==
    ASSUME NEW a, Len(a.folders) \in Nat
    PROVE  PlaceFlaws(a) =
             Flaw("folders.projects", "invalid", \E i \in 1..Len(a.folders) : Wrong(List(a, i)))
             \cup Flaw("projects", "invalid", Wrong(List(a, 0)))
             \cup Flaw("projects", "duplicate", Twice(a))
<1> DEFINE N == Len(a.folders)
<1>0. N \in Nat
  OBVIOUS
<1> HIDE DEF N
<1>1. /\ \A i \in 0..N : \A n \in DOMAIN List(a, i) : <<i, n>> \in Seats(a) /\ At(a, <<i, n>>) = List(a, i)[n]
      /\ \A s \in Seats(a) : \E i \in 0..N : \E n \in DOMAIN List(a, i) :
           s = <<i, n>> /\ At(a, s) = List(a, i)[n]
  BY SeatsAre DEF N
<1>2. (\E s \in Seats(a) : s[1] > 0 /\ At(a, s) <= 0) <=> \E i \in 1..N : Wrong(List(a, i))
  <2>1. ASSUME NEW s \in Seats(a), s[1] > 0, At(a, s) <= 0 PROVE \E i \in 1..N : Wrong(List(a, i))
    <3>0. PICK i \in 0..N : \E n \in DOMAIN List(a, i) : s = <<i, n>> /\ At(a, s) = List(a, i)[n]
      BY <1>1
    <3>1. PICK n \in DOMAIN List(a, i) : s = <<i, n>> /\ At(a, s) = List(a, i)[n]
      BY <3>0
    <3>2. i \in 1..N
      BY <1>0, <2>1, <3>1
    <3> QED
      BY <2>1, <3>1, <3>2 DEF Wrong
  <2>2. ASSUME NEW i \in 1..N, NEW n \in DOMAIN List(a, i), List(a, i)[n] <= 0
        PROVE  \E s \in Seats(a) : s[1] > 0 /\ At(a, s) <= 0
    <3>1. i \in 0..N /\ i > 0
      BY <1>0
    <3>2. <<i, n>> \in Seats(a) /\ At(a, <<i, n>>) <= 0 /\ <<i, n>>[1] > 0
      BY <1>1, <2>2, <3>1
    <3> QED
      BY <3>2
  <2> QED
    BY <2>1, <2>2 DEF Wrong
<1>3. (\E s \in Seats(a) : s[1] = 0 /\ At(a, s) <= 0) <=> Wrong(List(a, 0))
  <2>1. ASSUME NEW s \in Seats(a), s[1] = 0, At(a, s) <= 0 PROVE Wrong(List(a, 0))
    <3>0. PICK i \in 0..N : \E n \in DOMAIN List(a, i) : s = <<i, n>> /\ At(a, s) = List(a, i)[n]
      BY <1>1
    <3>1. PICK n \in DOMAIN List(a, i) : s = <<i, n>> /\ At(a, s) = List(a, i)[n]
      BY <3>0
    <3> QED
      BY <2>1, <3>1 DEF Wrong
  <2>2. ASSUME NEW n \in DOMAIN List(a, 0), List(a, 0)[n] <= 0
        PROVE  \E s \in Seats(a) : s[1] = 0 /\ At(a, s) <= 0
    <3>1. 0 \in 0..N
      BY <1>0
    <3>2. <<0, n>> \in Seats(a) /\ At(a, <<0, n>>) <= 0 /\ <<0, n>>[1] = 0
      BY <1>1, <2>2, <3>1
    <3> QED
      BY <3>2
  <2> QED
    BY <2>1, <2>2 DEF Wrong
<1>4. (\E s, o \in Seats(a) : s # o /\ At(a, s) = At(a, o)) <=> Twice(a)
  <2>1. ASSUME NEW s \in Seats(a), NEW o \in Seats(a), s # o, At(a, s) = At(a, o) PROVE Twice(a)
    <3>0. PICK i \in 0..N : \E n \in DOMAIN List(a, i) : s = <<i, n>> /\ At(a, s) = List(a, i)[n]
      BY <1>1
    <3>1. PICK n \in DOMAIN List(a, i) : s = <<i, n>> /\ At(a, s) = List(a, i)[n]
      BY <3>0
    <3>4. PICK j \in 0..N : \E m \in DOMAIN List(a, j) : o = <<j, m>> /\ At(a, o) = List(a, j)[m]
      BY <1>1
    <3>2. PICK m \in DOMAIN List(a, j) : o = <<j, m>> /\ At(a, o) = List(a, j)[m]
      BY <3>4
    <3>3. (i # j \/ n # m) /\ List(a, i)[n] = List(a, j)[m]
      BY <2>1, <3>1, <3>2
    <3> QED
      BY <3>3 DEF Twice, N
  <2>2. ASSUME NEW i \in 0..N, NEW j \in 0..N, NEW n \in DOMAIN List(a, i), NEW m \in DOMAIN List(a, j),
               i # j \/ n # m, List(a, i)[n] = List(a, j)[m]
        PROVE  \E s, o \in Seats(a) : s # o /\ At(a, s) = At(a, o)
    <3>1. /\ <<i, n>> \in Seats(a) /\ At(a, <<i, n>>) = List(a, i)[n]
          /\ <<j, m>> \in Seats(a) /\ At(a, <<j, m>>) = List(a, j)[m]
      BY <1>1
    <3>2. <<i, n>> # <<j, m>>
      BY <2>2
    <3> QED
      BY <2>2, <3>1, <3>2
  <2> QED
    BY <2>1, <2>2 DEF Twice, N
<1> QED
  BY <1>2, <1>3, <1>4 DEF PlaceFlaws, N, Flaw

\* The list that place looks at k-th: the folders' in order, then the top level's.
Row(a, k) == List(a, IF k = Len(a.folders) + 1 THEN 0 ELSE k)

\* Lists none of which is taken by the ones before it hold nothing twice.
LEMMA NoneTwice ==
    ASSUME NEW a, NEW n \in Nat, Len(a.folders) = n,
           \A i \in 0..n : \E z \in Nat : DOMAIN List(a, i) = 1..z
    PROVE  Twice(a) <=> \E k \in 1..(n + 1) : Taken(Row(a, k), A!Placed(a.folders, k))
<1> DEFINE seat(k) == IF k = n + 1 THEN 0 ELSE k
           placed(k) == A!Placed(a.folders, k)
<1>1. \A k \in 1..(n + 1) : Row(a, k) = List(a, seat(k)) /\ seat(k) \in 0..n
  BY DEF Row
<1>2. \A i \in 0..n : \E k \in 1..(n + 1) : i = seat(k)
  <2> TAKE i \in 0..n
  <2>1. CASE i = 0
    <3>1. n + 1 \in 1..(n + 1) /\ seat(n + 1) = 0
      OBVIOUS
    <3> QED
      BY <2>1, <3>1
  <2>2. CASE i # 0
    <3>1. i \in 1..(n + 1) /\ seat(i) = i
      BY <2>2
    <3> QED
      BY <3>1
  <2> QED
    BY <2>1, <2>2
<1>3. \A k, l \in 1..(n + 1) : k < l => k \in 1..(l - 1) /\ seat(k) = k /\ k # 0
  OBVIOUS
<1>4. \A k \in 1..(n + 1) : \A y : y \in placed(k) <=>
        \E j \in 1..(k - 1) : \E m \in DOMAIN List(a, j) : List(a, j)[m] = y
  <2> TAKE k \in 1..(n + 1)
  <2>1. \A j \in 1..(k - 1) : List(a, j) = a.folders[j].projects
    BY DEF List
  <2>2. \A y : y \in placed(k) <=>
          \E j \in 1..(k - 1) : \E m \in DOMAIN a.folders[j].projects : a.folders[j].projects[m] = y
    BY SMTT(30), PlacedIs
  <2> HIDE DEF placed, seat
  <2> QED
    BY ONLY <2>1, <2>2
<1>5. \A l \in 1..(n + 1) : \A j \in 1..(l - 1) : j \in 0..n /\ j \in 1..(n + 1) /\ seat(j) = j /\ j # seat(l)
  OBVIOUS
<1>6. \A k \in 1..(n + 1) : \E z \in Nat : DOMAIN Row(a, k) = 1..z
  BY <1>1
<1> HIDE DEF seat, placed
<1>7. ASSUME NEW k \in 1..(n + 1), NEW l \in 1..(n + 1), NEW x \in DOMAIN Row(a, k), NEW y \in DOMAIN Row(a, l),
             Row(a, k)[x] = Row(a, l)[y], k < l
      PROVE  Taken(Row(a, l), placed(l))
  <2>1. k \in 1..(l - 1) /\ Row(a, k) = List(a, k)
    BY <1>1, <1>3, <1>7
  <2>2. Row(a, l)[y] \in placed(l)
    BY <1>4, <1>7, <2>1
  <2> QED
    BY <2>2 DEF Taken
<1>8. ASSUME NEW k \in 1..(n + 1), NEW x \in DOMAIN Row(a, k), NEW y \in DOMAIN Row(a, k),
             Row(a, k)[x] = Row(a, k)[y], x < y
      PROVE  Taken(Row(a, k), placed(k))
  <2>1. x \in Nat \ {0} /\ y \in Nat
    BY <1>6
  <2>2. x \in 1..(y - 1)
    BY <1>8, <2>1
  <2> QED
    BY <1>8, <2>2 DEF Taken
<1>9. ASSUME NEW i \in 0..n, NEW j \in 0..n, NEW x \in DOMAIN List(a, i), NEW y \in DOMAIN List(a, j),
             i # j \/ x # y, List(a, i)[x] = List(a, j)[y]
      PROVE  \E k \in 1..(n + 1) : Taken(Row(a, k), placed(k))
  <2>1. PICK k \in 1..(n + 1) : i = seat(k)
    BY <1>2
  <2>2. PICK l \in 1..(n + 1) : j = seat(l)
    BY <1>2
  <2>3. Row(a, k) = List(a, i) /\ Row(a, l) = List(a, j)
    BY <1>1, <2>1, <2>2
  <2>4. k < l \/ l < k \/ k = l
    OBVIOUS
  <2>5. CASE k < l
    BY <1>7, <1>9, <2>3, <2>5
  <2>6. CASE l < k
    BY <1>7, <1>9, <2>3, <2>6
  <2>7. CASE k = l
    <3>1. i = j /\ x # y
      BY <1>9, <2>1, <2>2, <2>7
    <3>2. x \in Nat /\ y \in Nat
      BY <1>6, <2>3
    <3>3. x < y \/ y < x
      BY <3>1, <3>2
    <3> QED
      BY <1>8, <1>9, <2>3, <3>1, <3>3
  <2> QED
    BY <2>4, <2>5, <2>6, <2>7
<1>10. ASSUME NEW k \in 1..(n + 1), Taken(Row(a, k), placed(k)) PROVE Twice(a)
  <2>1. PICK y \in DOMAIN Row(a, k) : \/ Row(a, k)[y] \in placed(k)
                                      \/ \E m \in 1..(y - 1) : Row(a, k)[m] = Row(a, k)[y]
    BY <1>10 DEF Taken
  <2>2. CASE Row(a, k)[y] \in placed(k)
    <3>1. PICK j \in 1..(k - 1) : \E m \in DOMAIN List(a, j) : List(a, j)[m] = Row(a, k)[y]
      BY <1>4, <2>2
    <3>2. PICK m \in DOMAIN List(a, j) : List(a, j)[m] = Row(a, k)[y]
      BY <3>1
    <3>3. j \in 0..n /\ seat(k) \in 0..n /\ j # seat(k) /\ Row(a, k) = List(a, seat(k))
      BY <1>1, <1>5
    <3> QED
      BY <3>2, <3>3 DEF Twice
  <2>3. CASE \E m \in 1..(y - 1) : Row(a, k)[m] = Row(a, k)[y]
    <3>1. PICK m \in 1..(y - 1) : Row(a, k)[m] = Row(a, k)[y]
      BY <2>3
    <3>2. y \in Nat
      BY <1>6
    <3>3. m # y /\ m \in DOMAIN Row(a, k)
      <4>1. PICK z \in Nat : DOMAIN Row(a, k) = 1..z
        BY <1>6
      <4> QED
        BY <3>2, <4>1
    <3>4. seat(k) \in 0..n /\ Row(a, k) = List(a, seat(k))
      BY <1>1
    <3> QED
      BY <3>1, <3>3, <3>4 DEF Twice
  <2> QED
    BY <2>1, <2>2, <2>3
<1>11. Twice(a) => \E k \in 1..(n + 1) : Taken(Row(a, k), placed(k))
  BY <1>9 DEF Twice
<1> QED
  BY <1>10, <1>11 DEF placed

LEMMA PlaceGood ==
    ASSUME NEW a, a.folders \in Folders, a.projects \in Seq(Int)
    PROVE  Good(A!place(a), PlaceFlaws(a))
<1> DEFINE n == Len(a.folders)
           s == [i \in DOMAIN a.folders |->
                   A!Seated("folders.projects", a.folders[i].projects, A!Placed(a.folders, i))]
           v == A!FirstOf(s)
           w == A!Seated("projects", a.projects, A!Placed(a.folders, n + 1))
           taken(k) == Taken(Row(a, k), A!Placed(a.folders, k))
           BadFolders == <<"folders.projects", "invalid">>
           BadProjects == <<"projects", "invalid">>
           Doubled == <<"projects", "duplicate">>
<1>1. n \in Nat /\ DOMAIN a.folders = 1..n /\ \A i \in 1..n : a.folders[i].projects \in Seq(Int)
  <2> DEFINE T == [id : STRING, name : STRING, accent : STRING, parent : STRING, projects : Seq(Int)]
  <2>1. a.folders \in Seq(T)
    BY DEF Folders
  <2>2. \A x \in T : x.projects \in Seq(Int)
    OBVIOUS
  <2> HIDE DEF T
  <2>3. n \in Nat /\ DOMAIN a.folders = 1..n /\ \A i \in 1..n : a.folders[i] \in T
    BY <2>1
  <2> QED
    BY <2>2, <2>3
<1>2. /\ \A i \in 1..n : List(a, i) = a.folders[i].projects /\ Row(a, i) = List(a, i)
      /\ List(a, 0) = a.projects /\ Row(a, n + 1) = List(a, 0)
  BY <1>1 DEF List, Row
<1>3. \A i \in 0..n : List(a, i) \in Seq(Int)
  BY <1>1, <1>2
<1>4. \A i \in 0..n : \E z \in Nat : DOMAIN List(a, i) = 1..z
  <2> TAKE i \in 0..n
  <2>1. Len(List(a, i)) \in Nat /\ DOMAIN List(a, i) = 1..Len(List(a, i))
    BY <1>3
  <2> QED
    BY <2>1
<1>5. A!place(a) = A!FirstOf(<<v, w>>)
  BY DEF A!place
<1>6. PlaceFlaws(a) = (IF \E i \in 1..n : Wrong(List(a, i)) THEN {BadFolders} ELSE {})
                      \cup (IF Wrong(List(a, 0)) THEN {BadProjects} ELSE {})
                      \cup (IF \E k \in 1..(n + 1) : taken(k) THEN {Doubled} ELSE {})
  <2>1. Twice(a) <=> \E k \in 1..(n + 1) : taken(k)
    BY <1>1, <1>4, NoneTwice
  <2> QED
    BY <1>1, <2>1, PlaceFlawsAre DEF Flaw
<1>7. /\ w # A!Fine => (w = BadProjects /\ Wrong(List(a, 0))) \/ (w = Doubled /\ taken(n + 1))
      /\ w = A!Fine => ~Wrong(List(a, 0)) /\ ~taken(n + 1)
  BY <1>2, SeatedIs
<1>8. \A i \in 1..n :
        /\ s[i] # A!Fine => (s[i] = BadFolders /\ Wrong(List(a, i))) \/ (s[i] = Doubled /\ taken(i))
        /\ s[i] = A!Fine => ~Wrong(List(a, i)) /\ ~taken(i)
  <2> TAKE i \in 1..n
  <2> DEFINE t == A!Seated("folders.projects", List(a, i), A!Placed(a.folders, i))
  <2>1. s[i] = t /\ Row(a, i) = List(a, i)
    BY <1>1, <1>2
  <2>2. List(a, i) \in Seq(Int)
    BY <1>1, <1>2
  <2>3. /\ t # A!Fine => (t = BadFolders /\ Wrong(List(a, i)))
                         \/ (t = Doubled /\ Taken(List(a, i), A!Placed(a.folders, i)))
        /\ t = A!Fine => ~Wrong(List(a, i)) /\ ~Taken(List(a, i), A!Placed(a.folders, i))
    BY <2>2, SeatedIs
  <2> QED
    BY <2>1, <2>3
<1>9. DOMAIN s = 1..n
  BY <1>1
<1> HIDE DEF n, s, v, w, taken, BadFolders, BadProjects, Doubled
<1>10. /\ v = A!Fine <=> \A i \in 1..n : s[i] = A!Fine
       /\ v # A!Fine => \E i \in 1..n : v = s[i] /\ s[i] # A!Fine
  BY <1>1, <1>9, FirstOfIs DEF v
<1>11. v # A!Fine => v \in PlaceFlaws(a)
  <2> SUFFICES ASSUME v # A!Fine PROVE v \in PlaceFlaws(a)
    OBVIOUS
  <2>1. PICK i \in 1..n : v = s[i] /\ s[i] # A!Fine
    BY <1>10
  <2>2. (v = BadFolders /\ Wrong(List(a, i))) \/ (v = Doubled /\ taken(i))
    BY <1>8, <2>1
  <2>3. i \in 1..(n + 1)
    BY <1>1
  <2> QED
    BY <1>6, <2>2, <2>3
<1>12. w # A!Fine => w \in PlaceFlaws(a)
  <2>1. n + 1 \in 1..(n + 1)
    BY <1>1
  <2> QED
    BY <1>6, <1>7, <2>1
<1>13. v = A!Fine /\ w = A!Fine => PlaceFlaws(a) = {}
  <2>1. \A k \in 1..(n + 1) : k \in 1..n \/ k = n + 1
    BY <1>1
  <2> QED
    BY <1>6, <1>7, <1>8, <1>10, <2>1
<1> QED
  BY <1>5, <1>11, <1>12, <1>13, FirstOfTwo DEF Good

-----------------------------------------------------------------------------
(* The whole check. *)

\* Seven verdicts, looked at in order.
LEMMA GoodSeven ==
    ASSUME NEW v, DOMAIN v = 1..7, NEW X, DOMAIN X = 1..7,
           \A i \in 1..7 : Good(v[i], X[i])
    PROVE  Good(A!FirstOf(v), UNION {X[i] : i \in 1..7})
<1> DEFINE Y == UNION {X[i] : i \in 1..7}
<1>1. \A i \in 1..7 : (v[i] # A!Fine => v[i] \in X[i]) /\ (v[i] = A!Fine => X[i] = {})
  BY DEF Good
<1>2. \A i \in 1..7 : v[i] # A!Fine => v[i] \in Y
  BY <1>1
<1>3. (\A i \in 1..7 : v[i] = A!Fine) => Y = {}
  BY <1>1
<1> HIDE DEF Y
<1>4. Good(A!FirstOf(v), Y)
  <2>1. 7 \in Nat
    OBVIOUS
  <2> QED
    BY ZenonT(60), <1>2, <1>3, <2>1, GoodAlong
<1> QED
  BY <1>4 DEF Y

LEMMA CheckGood ==
    ASSUME NEW a, a \in Arranged
    PROVE  Good(A!check(a), Flaws(a))
<1> DEFINE v == <<IF a.version < 0 THEN <<"version", "invalid">> ELSE A!Fine,
                  A!checkFolders(a.folders),
                  A!place(a),
                  A!distinct("pinned", a.pinned),
                  IF Len(a.recent) > MaxRecent THEN <<"recent", "too_many">> ELSE A!Fine,
                  A!distinct("recent", a.recent),
                  IF A!Cardinality(A!names(a)) > MaxProjects THEN <<"projects", "too_many">> ELSE A!Fine>>
           X == <<Flaw("version", "invalid", a.version < 0),
                  FolderFlaws(a.folders),
                  PlaceFlaws(a),
                  ListFlaws("pinned", a.pinned),
                  Flaw("recent", "too_many", Len(a.recent) > MaxRecent),
                  ListFlaws("recent", a.recent),
                  Flaw("projects", "too_many", Cardinality(A!names(a)) > MaxProjects)>>
<1>1. a.folders \in Folders /\ a.projects \in Seq(Int) /\ a.pinned \in Seq(Int) /\ a.recent \in Seq(Int)
  BY ArrangedGiven DEF Folders
<1>2. A!check(a) = A!FirstOf(v)
  BY DEF A!check
<1>3. Flaws(a) = X[1] \cup X[2] \cup X[3] \cup X[4] \cup X[5] \cup X[6] \cup X[7]
  BY DEF Flaws, SeatFlaws, PlaceFlaws
<1>4. \A field, code, wrong : Good(IF wrong THEN <<field, code>> ELSE A!Fine, Flaw(field, code, wrong))
  BY DEF Good, Flaw, A!Fine
<1>5. Good(v[1], X[1])
  BY <1>4
<1>6. Good(v[2], X[2])
  BY <1>1, FoldersGood
<1>7. Good(v[3], X[3])
  BY <1>1, PlaceGood
<1>8. Good(v[4], X[4])
  BY <1>1, DistinctGood
<1>9. Good(v[5], X[5])
  BY <1>4
<1>10. Good(v[6], X[6])
  BY <1>1, DistinctGood
<1>11. Good(v[7], X[7])
  BY <1>4, SameOperators
<1>12. DOMAIN v = 1..7 /\ DOMAIN X = 1..7
  OBVIOUS
<1> HIDE DEF v, X
<1>13. \A i \in 1..7 : i = 1 \/ i = 2 \/ i = 3 \/ i = 4 \/ i = 5 \/ i = 6 \/ i = 7
  OBVIOUS
<1>14. \A i \in 1..7 : Good(v[i], X[i])
  BY <1>5, <1>6, <1>7, <1>8, <1>9, <1>10, <1>11, <1>13
<1>15. UNION {X[i] : i \in 1..7} = Flaws(a)
  BY <1>3, <1>13
<1> QED
  BY <1>2, <1>12, <1>14, <1>15, GoodSeven

\* Whatever arrangement is sent, library.check keeps it exactly when nothing is
\* wrong with it - its folders a forest no deeper than allowed, of which the
\* walk of checkFolders from every folder tells, each project in one place,
\* which place tells from the lists before, every list without repeats - and
\* the field and the code of a refusal are really wrong.
THEOREM ForestStoredTheorem == DocSpec => []ForestStored
<1>1. DocInv => ForestStored
  <2> SUFFICES ASSUME DocInv, part = "arrangement", output # << >>
               PROVE  Good(Given, Flaws(input))
    BY Zenon DEF ForestStored, Good
  <2>1. input \in Arranged /\ Given = A!check(input)
    BY DEF DocInv, Given, Checked
  <2> QED
    BY <2>1, CheckGood
<1> QED
  BY <1>1, DocInvTheorem, PTL

-----------------------------------------------------------------------------
(* The check service: who asks shares the check of a scope. *)

Outcomes == {"none", "report", "failed", "superseded"}
FlightRecord ==
    [pc : {"free", "running", "ended", "cached", "done"}, of : Subjects \cup {None},
     by : Subjects \cup {None}, outcome : Outcomes]
CheckKeys == {KeyOf[s] : s \in Subjects}
ClientRecord ==
    [pc : {"idle", "join", "behind", "wait", "answered"}, of : Subjects \cup {None},
     on : Flights \cup {None}, got : Outcomes, key : CheckKeys \cup {None}, by : Subjects \cup {None}]

ChecksType ==
    /\ cache \in Seq(CheckKeys) /\ Len(cache) <= CacheSize
    /\ flights \in [Scopes -> Flights \cup {None}]
    /\ flight \in [Flights -> FlightRecord]
    /\ caller \in [Callers -> ClientRecord]

Going == {"running", "ended", "cached"}

\* What cancelled a check is another check of the same plan, no older.
Replaced(r) ==
    /\ r.of \notin Results
    /\ ScopeOf[r.by] = ScopeOf[r.of] /\ KeyOf[r.by] # KeyOf[r.of]
    /\ VersionOf[r.by] >= VersionOf[r.of]

\* A check that nothing cancelled is the one its scope knows until it landed.
FlightOK(f) ==
    LET r == flight[f] IN
    /\ r.pc = "free" => r = Landed
    /\ r.pc # "free" => r.of \in Subjects
    /\ r.by # None => Replaced(r)
    /\ r.outcome = "superseded" => r.by # None
    /\ r.pc \in Going /\ r.by = None => flights[ScopeOf[r.of]] = f

\* What a scope knows is a check of the scope that has not landed.
KnownOK ==
    \A s \in Scopes : flights[s] # None =>
        flight[flights[s]].pc \in Going /\ ScopeOf[flight[flights[s]].of] = s

\* Who waits, waits for the check of what was asked; who was told, was told so.
ClientOK(r) ==
    /\ r.pc \in {"join", "behind", "wait"} => r.of \in Subjects
    /\ r.pc \in {"behind", "wait"} => r.on # None /\ flight[r.on].pc # "free"
    /\ r.pc \notin {"behind", "wait"} => r.on = None
    /\ r.pc = "wait" => /\ KeyOf[flight[r.on].of] = KeyOf[r.of]
                        /\ ScopeOf[flight[r.on].of] = ScopeOf[r.of]
    /\ r.got = "report" => r.key = KeyOf[r.of]
    /\ r.got = "superseded" =>
          /\ r.of \notin Results /\ r.by # None
          /\ ScopeOf[r.by] = ScopeOf[r.of] /\ KeyOf[r.by] # KeyOf[r.of]

ChecksInv ==
    /\ ChecksType
    /\ \A f \in Flights : FlightOK(f)
    /\ KnownOK
    /\ \A c \in Callers : ClientOK(caller[c])

\* The cache after a report was used or stored (cache.get, cache.put).
CacheOK == cache' \in Seq(CheckKeys) /\ Len(cache') <= CacheSize

LEMMA PutInFront ==
    ASSUME NEW S, NEW s \in Seq(S), NEW x \in S
    PROVE  <<x>> \o s \in Seq(S) /\ Len(<<x>> \o s) = Len(s) + 1
<1>1. <<x>> \in Seq(S) /\ Len(<<x>>) = 1 /\ Len(s) \in Nat
  OBVIOUS
<1> DEFINE front == <<x>>
<1>2. front \in Seq(S) /\ Len(front) = 1
  BY <1>1
<1> HIDE DEF front
<1>3. front \o s \in Seq(S) /\ Len(front \o s) = Len(front) + Len(s)
  BY <1>2, ConcatProperties
<1>4. front \o s \in Seq(S) /\ Len(front \o s) = Len(s) + 1
  BY <1>1, <1>2, <1>3
<1> QED
  BY <1>4 DEF front

LEMMA CacheMoves ==
    ASSUME ChecksInv, NEW key \in CheckKeys, Cached(key)
    PROVE  Refresh(key) \in Seq(CheckKeys) /\ Len(Refresh(key)) <= CacheSize
<1> DEFINE at == CHOOSE i \in DOMAIN cache : cache[i] = key
<1>1. cache \in Seq(CheckKeys) /\ Len(cache) <= CacheSize /\ Len(cache) \in Nat
  BY DEF ChecksInv, ChecksType
<1>2. \E i \in DOMAIN cache : cache[i] = key
  BY DEF Cached, Range
<1>3. at \in 1..Len(cache)
  BY <1>1, <1>2
<1> HIDE DEF at
<1>4. /\ SubSeq(cache, 1, at - 1) \in Seq(CheckKeys) /\ Len(SubSeq(cache, 1, at - 1)) = at - 1
      /\ SubSeq(cache, at + 1, Len(cache)) \in Seq(CheckKeys)
      /\ Len(SubSeq(cache, at + 1, Len(cache))) = Len(cache) - at
  BY <1>1, <1>3
<1>5. Refresh(key) = <<key>> \o (SubSeq(cache, 1, at - 1) \o SubSeq(cache, at + 1, Len(cache)))
  BY DEF Refresh, RemoveAt, at
<1> DEFINE before == SubSeq(cache, 1, at - 1)
           behind == SubSeq(cache, at + 1, Len(cache))
<1> HIDE DEF before, behind
<1>6. /\ before \in Seq(CheckKeys) /\ Len(before) = at - 1
      /\ behind \in Seq(CheckKeys) /\ Len(behind) = Len(cache) - at
      /\ Refresh(key) = <<key>> \o (before \o behind)
  BY <1>4, <1>5 DEF before, behind
<1>7. before \o behind \in Seq(CheckKeys) /\ Len(before \o behind) = Len(before) + Len(behind)
  BY <1>6, ConcatProperties
<1>8. Len(before \o behind) = Len(cache) - 1
  BY <1>1, <1>3, <1>6, <1>7
<1> QED
  BY <1>1, <1>6, <1>7, <1>8, PutInFront

LEMMA CacheStores ==
    ASSUME ChecksInv, NEW key \in CheckKeys
    PROVE  Stored(key) \in Seq(CheckKeys) /\ Len(Stored(key)) <= CacheSize
<1>1. CASE Cached(key)
  BY <1>1, CacheMoves DEF Stored
<1>2. CASE ~Cached(key)
  <2>1. cache \in Seq(CheckKeys) /\ Len(cache) \in Nat /\ CacheSize - 1 \in Nat
    BY ChecksAssumption DEF ChecksInv, ChecksType
  <2> DEFINE kept == Min({CacheSize - 1, Len(cache)})
  <2>2. \E x \in {CacheSize - 1, Len(cache)} : \A y \in {CacheSize - 1, Len(cache)} : x <= y
    BY <2>1
  <2>3. kept \in {CacheSize - 1, Len(cache)} /\ \A y \in {CacheSize - 1, Len(cache)} : kept <= y
    BY <2>2 DEF Min
  <2> HIDE DEF kept
  <2>4. SubSeq(cache, 1, kept) \in Seq(CheckKeys) /\ Len(SubSeq(cache, 1, kept)) = kept
    BY <2>1, <2>3
  <2>5. Stored(key) = <<key>> \o SubSeq(cache, 1, kept)
    BY <1>2 DEF Stored, kept
  <2>6. kept <= CacheSize - 1
    BY <2>3
  <2>7. kept \in Nat /\ CacheSize \in Nat
    BY <2>1, <2>3, ChecksAssumption
  <2> DEFINE rest == SubSeq(cache, 1, kept)
  <2> HIDE DEF rest
  <2>8. rest \in Seq(CheckKeys) /\ Len(rest) = kept /\ Stored(key) = <<key>> \o rest
    BY <2>4, <2>5 DEF rest
  <2>9. <<key>> \o rest \in Seq(CheckKeys) /\ Len(<<key>> \o rest) = kept + 1
    BY <2>8, PutInFront
  <2> QED
    BY <2>6, <2>7, <2>8, <2>9
<1> QED
  BY <1>1, <1>2

\* A step of a caller that starts and cancels no check.
LEMMA ClientMoves ==
    ASSUME ChecksInv, CacheOK, UNCHANGED <<flights, flight>>, NEW c \in Callers, NEW r \in ClientRecord,
           caller' = [caller EXCEPT ![c] = r], ClientOK(r)
    PROVE  ChecksInv'
<1>1. ChecksType'
  BY DEF ChecksInv, ChecksType, CacheOK
<1>2. \A o \in Callers : caller'[o] = IF o = c THEN r ELSE caller[o]
  BY DEF ChecksInv, ChecksType
<1>3. \A o \in Callers : ClientOK(caller[o])'
  BY <1>2 DEF ChecksInv, ClientOK
<1> QED
  BY <1>1, <1>3 DEF ChecksInv, FlightOK, KnownOK

LEMMA AskStep ==
    ASSUME ChecksInv, NEW c \in Callers, NEW s \in Subjects, Ask(c, s)
    PROVE  ChecksInv'
<1>1. KeyOf[s] \in CheckKeys
  BY DEF CheckKeys
<1>2. CASE Cached(KeyOf[s])
  <2> DEFINE r == [Idle EXCEPT !.pc = "answered", !.of = s, !.got = "report", !.key = KeyOf[s]]
  <2>1. r \in ClientRecord /\ ClientOK(r)
    BY <1>1 DEF Idle, ClientRecord, ClientOK, Outcomes
  <2>2. caller' = [caller EXCEPT ![c] = r] /\ cache' = Refresh(KeyOf[s]) /\ UNCHANGED <<flights, flight>>
    BY <1>2 DEF Ask
  <2> HIDE DEF r
  <2>3. CacheOK
    BY <1>1, <1>2, <2>2, CacheMoves DEF CacheOK
  <2> QED
    BY <2>1, <2>2, <2>3, ClientMoves
<1>3. CASE ~Cached(KeyOf[s])
  <2> DEFINE r == [Idle EXCEPT !.pc = "join", !.of = s]
  <2>1. r \in ClientRecord /\ ClientOK(r)
    BY DEF Idle, ClientRecord, ClientOK, Outcomes
  <2>2. caller' = [caller EXCEPT ![c] = r] /\ UNCHANGED <<cache, flights, flight>>
    BY <1>3 DEF Ask
  <2> HIDE DEF r
  <2>3. CacheOK
    BY <2>2 DEF ChecksInv, ChecksType, CacheOK
  <2> QED
    BY <2>1, <2>2, <2>3, ClientMoves
<1> QED
  BY <1>2, <1>3

\* The check known to run in the scope of a caller's question.
LEMMA RunningKnown ==
    ASSUME ChecksInv, NEW c \in Callers, caller[c].pc = "join", Running(c) # None
    PROVE  /\ Running(c) \in Flights
           /\ flight[Running(c)].pc \in Going
           /\ flight[Running(c)].of \in Subjects
           /\ ScopeOf[flight[Running(c)].of] = ScopeOf[caller[c].of]
<1>1. caller[c].of \in Subjects /\ ScopeOf[caller[c].of] \in Scopes
  BY DEF ChecksInv, ClientOK, Scopes
<1> QED
  BY <1>1 DEF ChecksInv, ChecksType, KnownOK, FlightOK, Running, Going

LEMMA WaitingSteps ==
    ASSUME ChecksInv, NEW c \in Callers,
           JoinBehind(c) \/ JoinAgain(c) \/ JoinRunning(c) \/ JoinSuperseded(c) \/ Leave(c)
    PROVE  ChecksInv'
<1>1. UNCHANGED <<cache, flights, flight>> /\ CacheOK
  BY DEF ChecksInv, ChecksType, CacheOK, JoinBehind, JoinAgain, JoinRunning, JoinSuperseded,
     Leave
<1>2. caller[c] \in ClientRecord /\ ClientOK(caller[c])
  BY DEF ChecksInv, ChecksType
<1>3. ASSUME JoinBehind(c) PROVE ChecksInv'
  <2> DEFINE r == [caller[c] EXCEPT !.pc = "behind", !.on = Running(c)]
  <2>1. Running(c) \in Flights /\ flight[Running(c)].pc \in Going
    BY <1>3, RunningKnown DEF JoinBehind
  <2>2. r \in ClientRecord /\ ClientOK(r)
    BY <1>2, <1>3, <2>1, ChecksAssumption DEF JoinBehind, ClientRecord, ClientOK, Going
  <2>3. caller' = [caller EXCEPT ![c] = r]
    BY <1>3 DEF JoinBehind, ChecksInv, ChecksType
  <2> HIDE DEF r
  <2> QED
    BY <1>1, <2>2, <2>3, ClientMoves
<1>4. ASSUME JoinAgain(c) PROVE ChecksInv'
  <2> DEFINE r == [caller[c] EXCEPT !.pc = "join", !.on = None]
  <2>1. r \in ClientRecord /\ ClientOK(r)
    BY <1>2, <1>4 DEF JoinAgain, ClientRecord, ClientOK
  <2>2. caller' = [caller EXCEPT ![c] = r]
    BY <1>4 DEF JoinAgain, ChecksInv, ChecksType
  <2> HIDE DEF r
  <2> QED
    BY <1>1, <2>1, <2>2, ClientMoves
<1>5. ASSUME JoinRunning(c) PROVE ChecksInv'
  <2> DEFINE r == [caller[c] EXCEPT !.pc = "wait", !.on = Running(c)]
  <2>1. /\ Running(c) \in Flights /\ flight[Running(c)].pc \in Going
        /\ ScopeOf[flight[Running(c)].of] = ScopeOf[caller[c].of]
        /\ KeyOf[flight[Running(c)].of] = KeyOf[caller[c].of]
    BY <1>5, RunningKnown DEF JoinRunning, Same
  <2>2. r \in ClientRecord /\ ClientOK(r)
    BY <1>2, <1>5, <2>1, ChecksAssumption DEF JoinRunning, ClientRecord, ClientOK, Going
  <2>3. caller' = [caller EXCEPT ![c] = r]
    BY <1>5 DEF JoinRunning, ChecksInv, ChecksType
  <2> HIDE DEF r
  <2> QED
    BY <1>1, <2>2, <2>3, ClientMoves
<1>6. ASSUME JoinSuperseded(c) PROVE ChecksInv'
  <2> DEFINE f == Running(c)
             r == [caller[c] EXCEPT !.pc = "answered", !.on = None, !.got = "superseded",
                                    !.key = None, !.by = flight[f].of]
  <2>1. /\ flight[f].of \in Subjects /\ ScopeOf[flight[f].of] = ScopeOf[caller[c].of]
        /\ KeyOf[flight[f].of] # KeyOf[caller[c].of] /\ caller[c].of \notin Results
    BY <1>6, RunningKnown DEF JoinSuperseded, Same
  <2>2. r \in ClientRecord /\ ClientOK(r)
    BY <1>2, <1>6, <2>1, ChecksAssumption DEF ClientRecord, ClientOK, Outcomes
  <2>3. caller' = [caller EXCEPT ![c] = r]
    BY <1>6 DEF JoinSuperseded, Told, ChecksInv, ChecksType
  <2> HIDE DEF r
  <2> QED
    BY <1>1, <2>2, <2>3, ClientMoves
<1>7. ASSUME Leave(c) PROVE ChecksInv'
  <2>1. Idle \in ClientRecord /\ ClientOK(Idle)
    BY DEF Idle, ClientRecord, ClientOK, Outcomes
  <2>2. caller' = [caller EXCEPT ![c] = Idle]
    BY <1>7 DEF Leave
  <2> QED
    BY <1>1, <2>1, <2>2, ClientMoves
<1> QED
  BY <1>3, <1>4, <1>5, <1>6, <1>7

LEMMA WakeStep ==
    ASSUME ChecksInv, NEW c \in Callers, Wake(c)
    PROVE  ChecksInv'
<1> DEFINE f == flight[caller[c].on]
           k == IF f.outcome = "report" THEN KeyOf[f.of] ELSE None
           r == [caller[c] EXCEPT !.pc = "answered", !.on = None, !.got = f.outcome, !.key = k, !.by = f.by]
<1>1. /\ caller[c] \in ClientRecord /\ ClientOK(caller[c])
      /\ caller[c].pc = "wait" /\ caller[c].on \in Flights /\ caller[c].of \in Subjects
  BY DEF Wake, ChecksInv, ChecksType, ClientOK, ClientRecord
<1>2. f \in FlightRecord /\ FlightOK(caller[c].on) /\ f.of \in Subjects
  BY <1>1 DEF ChecksInv, ChecksType, ClientOK, FlightOK
<1>3. KeyOf[f.of] = KeyOf[caller[c].of] /\ ScopeOf[f.of] = ScopeOf[caller[c].of] /\ KeyOf[f.of] \in CheckKeys
  BY <1>1, <1>2 DEF ClientOK, CheckKeys
<1>4. f.outcome = "superseded" => f.by # None /\ Replaced(f)
  BY <1>2 DEF FlightOK
<1>5. f.of \in Results <=> caller[c].of \in Results
  BY <1>1, <1>2, <1>3, ChecksAssumption
<1>6. caller' = [caller EXCEPT ![c] = r] /\ UNCHANGED <<cache, flights, flight>>
  BY DEF Wake, Told, ChecksInv, ChecksType
<1>7. k \in CheckKeys \cup {None} /\ (f.outcome = "report" => k = KeyOf[caller[c].of])
  BY <1>3
<1> HIDE DEF f, k
<1>8. r \in ClientRecord
  BY <1>1, <1>2, <1>7 DEF ClientRecord, FlightRecord
<1>9. ClientOK(r)
  BY <1>1, <1>3, <1>4, <1>5, <1>7 DEF ClientOK, ClientRecord, Replaced
<1>10. CacheOK
  BY <1>6 DEF ChecksInv, ChecksType, CacheOK
<1> HIDE DEF r
<1> QED
  BY <1>6, <1>8, <1>9, <1>10, ClientMoves
\* Before a caller's check starts, or is found in the cache, the one of an older
\* version is cancelled (Service.join).
LEMMA Cancels ==
    ASSUME ChecksInv, NEW c \in Callers, JoinStarts(c)
    PROVE  /\ Cancelled(c) \in [Flights -> FlightRecord]
           /\ \A f \in Flights :
                 /\ Cancelled(c)[f].pc = flight[f].pc
                 /\ Cancelled(c)[f].of = flight[f].of
                 /\ Cancelled(c)[f].outcome = flight[f].outcome
                 /\ Cancelled(c)[f].by # flight[f].by =>
                       /\ f = Running(c) /\ flight[f].by = None /\ flight[f].pc \in Going
                       /\ Cancelled(c)[f].by # None /\ Replaced(Cancelled(c)[f])
           /\ Running(c) \in Flights => Cancelled(c)[Running(c)].by # None
<1> DEFINE f0 == Running(c)
           r0 == [flight[f0] EXCEPT !.by = caller[c].of]
<1>1. caller[c].pc = "join" /\ caller[c].of \in Subjects /\ flight \in [Flights -> FlightRecord]
  BY DEF JoinStarts, ChecksInv, ChecksType, ClientOK
<1>2. CASE f0 # None /\ flight[f0].by = None
  <2>1. /\ f0 \in Flights /\ flight[f0].pc \in Going /\ flight[f0].of \in Subjects
        /\ ScopeOf[flight[f0].of] = ScopeOf[caller[c].of]
    BY <1>1, <1>2, RunningKnown
  <2>2. /\ KeyOf[flight[f0].of] # KeyOf[caller[c].of] /\ caller[c].of \notin Results
        /\ ~(VersionOf[flight[f0].of] > VersionOf[caller[c].of])
    BY <1>2 DEF JoinStarts, Same, Newer
  <2>3. VersionOf[caller[c].of] \in Nat /\ VersionOf[flight[f0].of] \in Nat
    BY <1>1, <2>1, ChecksAssumption
  <2>4. flight[f0].of \notin Results
    BY <1>1, <2>1, <2>2, ChecksAssumption
  <2>5. r0.by = caller[c].of /\ r0.pc = flight[f0].pc /\ r0.of = flight[f0].of
        /\ r0.outcome = flight[f0].outcome /\ r0 \in FlightRecord
    BY <1>1, <2>1 DEF FlightRecord
  <2>6. Replaced(r0)
    BY <2>1, <2>2, <2>3, <2>4, <2>5 DEF Replaced
  <2>7. r0.by # None
    BY <1>1, <2>5, ChecksAssumption
  <2>8. Cancelled(c) = [flight EXCEPT ![f0] = r0]
    BY <1>1, <1>2, <2>1 DEF Cancelled
  <2> HIDE DEF r0, f0
  <2>9. \A f \in Flights : Cancelled(c)[f] = IF f = f0 THEN r0 ELSE flight[f]
    BY <1>1, <2>8
  <2>10. Cancelled(c) \in [Flights -> FlightRecord]
    BY <1>1, <2>5, <2>8
  <2> QED
    BY <1>2, <2>1, <2>5, <2>6, <2>7, <2>9, <2>10 DEF f0
<1>3. CASE ~(f0 # None /\ flight[f0].by = None)
  BY <1>1, <1>3, ChecksAssumption DEF Cancelled
<1> QED
  BY <1>2, <1>3

LEMMA JoinCachedStep ==
    ASSUME ChecksInv, NEW c \in Callers, JoinCached(c)
    PROVE  ChecksInv'
<1> DEFINE key == KeyOf[caller[c].of]
           r == [caller[c] EXCEPT !.pc = "answered", !.on = None, !.got = "report", !.key = key, !.by = None]
<1>1. JoinStarts(c) /\ flight' = Cancelled(c) /\ UNCHANGED flights
  BY DEF JoinCached
<1>2. /\ caller[c] \in ClientRecord /\ caller[c].pc = "join" /\ caller[c].of \in Subjects
      /\ key \in CheckKeys
  BY <1>1 DEF JoinStarts, ChecksInv, ChecksType, ClientOK, CheckKeys
<1>3. r \in ClientRecord
  BY <1>2 DEF ClientRecord, Outcomes
<1>4. caller' = [caller EXCEPT ![c] = r]
  BY DEF JoinCached, Told, ChecksInv, ChecksType
<1>5. /\ r.pc = "answered" /\ r.of = caller[c].of /\ r.on = None
      /\ r.got = "report" /\ r.key = KeyOf[caller[c].of] /\ r.by = None
  BY <1>2 DEF ClientRecord
<1>6. CacheOK
  BY <1>2, CacheMoves DEF JoinCached, CacheOK
<1> HIDE DEF r
<1>7. \A o \in Callers : caller'[o] = IF o = c THEN r ELSE caller[o]
  BY <1>4 DEF ChecksInv, ChecksType
<1>8. ChecksType'
  BY <1>1, <1>3, <1>4, <1>6, Cancels DEF ChecksInv, ChecksType, CacheOK
<1>9. \A f \in Flights : FlightOK(f)'
  <2> SUFFICES ASSUME NEW f \in Flights PROVE FlightOK(f)'
    OBVIOUS
  <2>1. FlightOK(f) /\ flight[f] \in FlightRecord /\ flight'[f] \in FlightRecord
    BY <1>1, Cancels DEF ChecksInv, ChecksType
  <2>2. CASE flight'[f].by = flight[f].by
    <3>1. flight'[f] = flight[f]
      BY <1>1, <2>1, <2>2, Cancels DEF FlightRecord
    <3> QED
      BY <1>1, <2>1, <3>1 DEF FlightOK, Replaced
  <2>3. CASE flight'[f].by # flight[f].by
    BY <1>1, <2>1, <2>3, Cancels DEF FlightOK, Going
  <2> QED
    BY <2>2, <2>3
<1>10. KnownOK'
  <2> SUFFICES ASSUME NEW s \in Scopes, flights[s] # None
               PROVE  flight'[flights[s]].pc \in Going /\ ScopeOf[flight'[flights[s]].of] = s
    BY <1>1 DEF KnownOK
  <2>1. flights[s] \in Flights /\ flight[flights[s]].pc \in Going /\ ScopeOf[flight[flights[s]].of] = s
    BY DEF ChecksInv, ChecksType, KnownOK
  <2> QED
    BY <1>1, <2>1, Cancels
<1>11. \A o \in Callers : ClientOK(caller[o])'
  <2> SUFFICES ASSUME NEW o \in Callers, o # c PROVE ClientOK(caller[o])'
    <3>1. ClientOK(caller[c])'
      BY <1>5, <1>7 DEF ClientOK
    <3> QED
      BY <3>1
  <2>1. ClientOK(caller[o]) /\ caller[o] \in ClientRecord /\ caller'[o] = caller[o]
    BY <1>7 DEF ChecksInv, ChecksType
  <2>2. caller[o].on \in Flights => /\ flight'[caller[o].on].pc = flight[caller[o].on].pc
                                    /\ flight'[caller[o].on].of = flight[caller[o].on].of
    BY <1>1, Cancels
  <2> QED
    BY <2>1, <2>2 DEF ClientOK, ClientRecord
<1> QED
  BY <1>8, <1>9, <1>10, <1>11 DEF ChecksInv

LEMMA JoinStartStep ==
    ASSUME ChecksInv, NEW c \in Callers, JoinStart(c)
    PROVE  ChecksInv'
<1>1. JoinStarts(c) /\ UNCHANGED cache /\ Grounded # {}
  BY DEF JoinStart
<1>2. PICK n \in Grounded :
        /\ flight' = [Cancelled(c) EXCEPT ![n] = [Landed EXCEPT !.pc = "running", !.of = caller[c].of]]
        /\ flights' = [flights EXCEPT ![ScopeOf[caller[c].of]] = n]
        /\ caller' = [caller EXCEPT ![c].pc = "wait", ![c].on = n]
  BY <1>1 DEF JoinStart
<1> DEFINE r == [caller[c] EXCEPT !.pc = "wait", !.on = n]
           l == [Landed EXCEPT !.pc = "running", !.of = caller[c].of]
<1>3. n \in Flights /\ flight[n].pc = "free" /\ n # None
  BY ChecksAssumption DEF Grounded
<1>4. /\ caller[c] \in ClientRecord /\ ClientOK(caller[c])
      /\ caller[c].pc = "join" /\ caller[c].of \in Subjects
      /\ ScopeOf[caller[c].of] \in Scopes
  BY <1>1 DEF JoinStarts, ChecksInv, ChecksType, ClientOK, Scopes
<1>5. l \in FlightRecord /\ l.pc = "running" /\ l.of = caller[c].of /\ l.by = None /\ l.outcome = "none"
  BY <1>4 DEF Landed, FlightRecord, Outcomes
<1>6. r \in ClientRecord
  BY <1>3, <1>4 DEF ClientRecord
<1>7. caller' = [caller EXCEPT ![c] = r]
  BY <1>2 DEF ChecksInv, ChecksType
<1>8. flight' = [Cancelled(c) EXCEPT ![n] = l] /\ flights' = [flights EXCEPT ![ScopeOf[caller[c].of]] = n]
  BY <1>2
<1>9. r.of = caller[c].of /\ r.pc = "wait" /\ r.on = n /\ r.got = caller[c].got
      /\ r.key = caller[c].key /\ r.by = caller[c].by
  BY <1>4 DEF ClientRecord
<1> HIDE DEF r, l
<1>10. \A o \in Callers : caller'[o] = IF o = c THEN r ELSE caller[o]
  BY <1>7 DEF ChecksInv, ChecksType
<1>11. \A f \in Flights : flight'[f] = IF f = n THEN l ELSE Cancelled(c)[f]
  BY <1>8, Cancels, <1>1
<1>12. \A s \in Scopes : flights'[s] = IF s = ScopeOf[caller[c].of] THEN n ELSE flights[s]
  BY <1>8 DEF ChecksInv, ChecksType
<1>13. ChecksType'
  <2>1. flight' \in [Flights -> FlightRecord]
    BY <1>1, <1>5, <1>8, Cancels
  <2>2. flights' \in [Scopes -> Flights \cup {None}]
    BY <1>3, <1>8 DEF ChecksInv, ChecksType
  <2>3. caller' \in [Callers -> ClientRecord]
    BY <1>6, <1>7 DEF ChecksInv, ChecksType
  <2> QED
    BY <1>1, <2>1, <2>2, <2>3 DEF ChecksInv, ChecksType
<1>14. \A f \in Flights : FlightOK(f)'
  <2> SUFFICES ASSUME NEW f \in Flights PROVE FlightOK(f)'
    OBVIOUS
  <2>1. CASE f = n
    BY <1>4, <1>5, <1>11, <1>12, <2>1 DEF FlightOK, Going
  <2>2. CASE f # n
    <3>1. /\ FlightOK(f) /\ flight[f] \in FlightRecord
          /\ flight'[f] \in FlightRecord /\ flight'[f] = Cancelled(c)[f]
      BY <1>1, <1>11, <2>2, Cancels DEF ChecksInv, ChecksType
    <3>2. CASE flight'[f].by # flight[f].by
      BY <1>1, <3>1, <3>2, Cancels DEF FlightOK, Going
    <3>3. CASE flight'[f].by = flight[f].by
      <4>1. flight'[f] = flight[f]
        BY <1>1, <3>1, <3>3, Cancels DEF FlightRecord
      <4>2. ASSUME flight[f].pc \in Going, flight[f].by = None PROVE flights'[ScopeOf[flight[f].of]] = f
        <5>1. flights[ScopeOf[flight[f].of]] = f /\ flight[f].of \in Subjects
          BY <3>1, <4>2 DEF FlightOK, Going
        <5>2. ScopeOf[flight[f].of] # ScopeOf[caller[c].of]
          <6> SUFFICES ASSUME ScopeOf[flight[f].of] = ScopeOf[caller[c].of] PROVE FALSE
            OBVIOUS
          <6>1. Running(c) = f
            BY <5>1 DEF Running
          <6>2. Cancelled(c)[f].by # None
            BY <1>1, <6>1, Cancels
          <6> QED
            BY <3>1, <4>1, <4>2, <6>2
        <5>3. ScopeOf[flight[f].of] \in Scopes
          BY <5>1 DEF Scopes
        <5> QED
          BY <1>12, <5>1, <5>2, <5>3
      <4> QED
        BY <3>1, <4>1, <4>2 DEF FlightOK, Replaced
    <3> QED
      BY <3>2, <3>3
  <2> QED
    BY <2>1, <2>2
<1>15. KnownOK'
  <2> SUFFICES ASSUME NEW s \in Scopes, flights'[s] # None
               PROVE  flight'[flights'[s]].pc \in Going /\ ScopeOf[flight'[flights'[s]].of] = s
    BY DEF KnownOK
  <2>1. CASE s = ScopeOf[caller[c].of]
    BY <1>3, <1>5, <1>11, <1>12, <2>1 DEF Going
  <2>2. CASE s # ScopeOf[caller[c].of]
    <3>1. /\ flights'[s] = flights[s] /\ flights[s] \in Flights
          /\ flight[flights[s]].pc \in Going /\ ScopeOf[flight[flights[s]].of] = s
      BY <1>12, <2>2 DEF ChecksInv, ChecksType, KnownOK
    <3>2. flights[s] # n
      BY <1>3, <3>1 DEF Going
    <3> QED
      BY <1>1, <1>11, <3>1, <3>2, Cancels
  <2> QED
    BY <2>1, <2>2
<1>16. \A o \in Callers : ClientOK(caller[o])'
  <2> SUFFICES ASSUME NEW o \in Callers PROVE ClientOK(caller[o])'
    OBVIOUS
  <2>1. CASE o = c
    BY <1>3, <1>4, <1>5, <1>9, <1>10, <1>11, <2>1 DEF ClientOK
  <2>2. CASE o # c
    <3>1. ClientOK(caller[o]) /\ caller[o] \in ClientRecord /\ caller'[o] = caller[o]
      BY <1>10, <2>2 DEF ChecksInv, ChecksType
    <3>2. caller[o].on \in Flights /\ flight[caller[o].on].pc # "free" =>
             /\ flight'[caller[o].on].pc = flight[caller[o].on].pc
             /\ flight'[caller[o].on].of = flight[caller[o].on].of
      BY <1>1, <1>3, <1>11, Cancels
    <3> QED
      BY <3>1, <3>2 DEF ClientOK, ClientRecord
  <2> QED
    BY <2>1, <2>2
<1> QED
  BY <1>13, <1>14, <1>15, <1>16 DEF ChecksInv
\* A step of a check that is under way or landed: one record changes, and its
\* scope forgets it once it landed.
LEMMA FlightMoves ==
    ASSUME ChecksInv, CacheOK, caller' = caller, NEW f \in Flights, NEW r \in FlightRecord,
           flight' = [flight EXCEPT ![f] = r],
           flight[f].pc # "free",
           r.of = flight[f].of, r.by = flight[f].by, r.pc # "free",
           r.outcome = "superseded" => r.by # None,
           r.pc \in Going => flight[f].pc \in Going /\ flights' = flights,
           r.pc \notin Going => flights' = [s \in Scopes |-> IF flights[s] = f THEN None ELSE flights[s]]
    PROVE  ChecksInv'
<1>1. \A o \in Flights : flight'[o] = IF o = f THEN r ELSE flight[o]
  BY DEF ChecksInv, ChecksType
<1>2. \A s \in Scopes : flights'[s] = IF r.pc \notin Going /\ flights[s] = f THEN None ELSE flights[s]
  OBVIOUS
<1>3. flights' \in [Scopes -> Flights \cup {None}]
  BY DEF ChecksInv, ChecksType
<1>4. ChecksType'
  BY <1>3 DEF ChecksInv, ChecksType, CacheOK
<1>5. \A o \in Flights : FlightOK(o)'
  <2> SUFFICES ASSUME NEW o \in Flights PROVE FlightOK(o)'
    OBVIOUS
  <2>1. FlightOK(o) /\ FlightOK(f)
    BY DEF ChecksInv
  <2>2. o # f => flight'[o] = flight[o]
    BY <1>1
  <2>3. flight[o].of \in Subjects => ScopeOf[flight[o].of] \in Scopes
    BY DEF Scopes
  <2>4. CASE o = f
    BY <1>1, <2>1, <2>4 DEF FlightOK, Replaced
  <2>5. CASE o # f
    <3>1. flight[o].pc \in Going => flight[o].of \in Subjects
      BY <2>1 DEF FlightOK, Going
    <3> QED
      BY <1>2, <2>1, <2>2, <2>3, <2>5, <3>1 DEF FlightOK, Replaced
  <2> QED
    BY <2>4, <2>5
<1>6. KnownOK'
  <2> SUFFICES ASSUME NEW s \in Scopes, flights'[s] # None
               PROVE  flight'[flights'[s]].pc \in Going /\ ScopeOf[flight'[flights'[s]].of] = s
    BY DEF KnownOK
  <2>1. /\ flights'[s] = flights[s] /\ flights[s] \in Flights
        /\ flight[flights[s]].pc \in Going /\ ScopeOf[flight[flights[s]].of] = s
    BY <1>2 DEF ChecksInv, ChecksType, KnownOK
  <2>2. flights[s] = f => r.pc \in Going
    BY <1>2, <2>1
  <2> QED
    BY <1>1, <2>1, <2>2
<1>7. \A c \in Callers : ClientOK(caller[c])'
  <2> SUFFICES ASSUME NEW c \in Callers PROVE ClientOK(caller[c])'
    OBVIOUS
  <2>1. ClientOK(caller[c]) /\ caller[c] \in ClientRecord /\ caller'[c] = caller[c]
    BY DEF ChecksInv, ChecksType
  <2>2. caller[c].on \in Flights /\ flight[caller[c].on].pc # "free" =>
           /\ flight'[caller[c].on].pc # "free"
           /\ flight'[caller[c].on].of = flight[caller[c].on].of
    BY <1>1
  <2> QED
    BY <2>1, <2>2 DEF ClientOK, ClientRecord
<1> QED
  BY <1>4, <1>5, <1>6, <1>7 DEF ChecksInv

LEMMA FlightSteps ==
    ASSUME ChecksInv, NEW f \in Flights, Ends(f) \/ Put(f) \/ Land(f)
    PROVE  ChecksInv'
<1>1. caller' = caller /\ flight[f] \in FlightRecord /\ FlightOK(f)
  BY DEF Ends, Put, Land, ChecksInv, ChecksType
<1>2. ASSUME Ends(f) PROVE ChecksInv'
  <2>1. PICK outcome \in {"report", IF flight[f].by = None THEN "failed" ELSE "superseded"} :
          flight' = [flight EXCEPT ![f].pc = "ended", ![f].outcome = outcome]
    BY <1>2 DEF Ends
  <2> DEFINE r == [flight[f] EXCEPT !.pc = "ended", !.outcome = outcome]
  <2>2. /\ r \in FlightRecord /\ r.of = flight[f].of /\ r.by = flight[f].by /\ r.pc = "ended"
        /\ r.outcome = outcome
    BY <1>1 DEF FlightRecord, Outcomes
  <2>3. flight' = [flight EXCEPT ![f] = r]
    BY <2>1 DEF ChecksInv, ChecksType
  <2> HIDE DEF r
  <2>4. CacheOK /\ flights' = flights /\ flight[f].pc = "running"
    BY <1>2 DEF Ends, ChecksInv, ChecksType, CacheOK
  <2> QED
    BY <1>1, <2>2, <2>3, <2>4, FlightMoves DEF Going
<1>3. ASSUME Put(f) PROVE ChecksInv'
  <2> DEFINE r == [flight[f] EXCEPT !.pc = "cached"]
  <2>1. /\ r \in FlightRecord /\ r.of = flight[f].of /\ r.by = flight[f].by /\ r.pc = "cached"
        /\ r.outcome = flight[f].outcome
    BY <1>1 DEF FlightRecord
  <2>2. flight' = [flight EXCEPT ![f] = r] /\ flights' = flights /\ flight[f].pc = "ended"
    BY <1>3 DEF Put, ChecksInv, ChecksType
  <2> HIDE DEF r
  <2>3. KeyOf[flight[f].of] \in CheckKeys
    BY <1>1, <2>2 DEF FlightOK, CheckKeys
  <2>4. CacheOK
    BY <1>3, <2>3, CacheStores DEF Put, ChecksInv, ChecksType, CacheOK
  <2> QED
    BY <1>1, <2>1, <2>2, <2>4, FlightMoves DEF FlightOK, Going
<1>4. ASSUME Land(f) PROVE ChecksInv'
  <2> DEFINE r == [flight[f] EXCEPT !.pc = "done"]
  <2>1. /\ r \in FlightRecord /\ r.of = flight[f].of /\ r.by = flight[f].by /\ r.pc = "done"
        /\ r.outcome = flight[f].outcome
    BY <1>1 DEF FlightRecord
  <2>2. /\ flight' = [flight EXCEPT ![f] = r] /\ flight[f].pc = "cached"
        /\ flights' = [s \in Scopes |-> IF flights[s] = f THEN None ELSE flights[s]]
    BY <1>4 DEF Land, ChecksInv, ChecksType
  <2> HIDE DEF r
  <2>3. CacheOK
    BY <1>4 DEF Land, ChecksInv, ChecksType, CacheOK
  <2> QED
    BY <1>1, <2>1, <2>2, <2>3, FlightMoves DEF FlightOK, Going
<1> QED
  BY <1>2, <1>3, <1>4

LEMMA CollectStep ==
    ASSUME ChecksInv, NEW f \in Flights, Collect(f)
    PROVE  ChecksInv'
<1>1. /\ flight' = [flight EXCEPT ![f] = Landed] /\ UNCHANGED <<cache, flights, caller>>
      /\ flight[f].pc = "done" /\ \A c \in Callers : caller[c].on # f
  BY DEF Collect
<1>2. Landed \in FlightRecord /\ Landed.pc = "free" /\ Landed.by = None /\ Landed.outcome = "none"
  BY DEF Landed, FlightRecord, Outcomes
<1>3. \A o \in Flights : flight'[o] = IF o = f THEN Landed ELSE flight[o]
  BY <1>1 DEF ChecksInv, ChecksType
<1>4. ChecksType'
  BY <1>1, <1>2 DEF ChecksInv, ChecksType
<1>5. \A o \in Flights : FlightOK(o)'
  BY <1>1, <1>2, <1>3 DEF ChecksInv, FlightOK, Replaced, Going
<1>6. KnownOK'
  BY <1>1, <1>3 DEF ChecksInv, ChecksType, KnownOK, Going
<1>7. \A c \in Callers : ClientOK(caller[c])'
  <2> SUFFICES ASSUME NEW c \in Callers PROVE ClientOK(caller[c])'
    OBVIOUS
  <2>1. ClientOK(caller[c]) /\ caller[c] \in ClientRecord /\ caller'[c] = caller[c] /\ caller[c].on # f
    BY <1>1 DEF ChecksInv, ChecksType
  <2>2. caller[c].on \in Flights => flight'[caller[c].on] = flight[caller[c].on]
    BY <1>3, <2>1
  <2> QED
    BY <2>1, <2>2 DEF ClientOK, ClientRecord
<1> QED
  BY <1>4, <1>5, <1>6, <1>7 DEF ChecksInv

LEMMA ChecksStep ==
    ASSUME ChecksInv, [Next]_vars PROVE ChecksInv'
<1>1. CASE UNCHANGED vars
  BY <1>1 DEF vars, ChecksInv, ChecksType, FlightOK, Replaced, KnownOK, ClientOK
<1> QED
  BY <1>1, AskStep, WaitingSteps, WakeStep, JoinCachedStep, JoinStartStep, FlightSteps, CollectStep
     DEF Next, Turn, Work, CheckVersion, CheckResult

LEMMA ChecksStart == ASSUME Init PROVE ChecksInv
<1>1. Landed \in FlightRecord /\ Landed.pc = "free" /\ Landed.by = None /\ Landed.outcome = "none"
  BY DEF Landed, FlightRecord, Outcomes
<1>2. Idle \in ClientRecord /\ ClientOK(Idle)
  BY DEF Idle, ClientRecord, ClientOK, Outcomes
<1>3. ChecksType
  BY <1>1, <1>2, ChecksAssumption DEF Init, ChecksType
<1>4. \A f \in Flights : FlightOK(f)
  BY <1>1 DEF Init, FlightOK, Going
<1> QED
  BY <1>2, <1>3, <1>4 DEF Init, ChecksInv, KnownOK

\* Callers of one scope share one check that nothing cancelled, the node is not
\* asked again for a report on its way to the cache, and whoever is answered gets
\* the report of what was asked or the true reason why not, whichever requests,
\* checks and answers of the node overlap (Service.Check, join, run, cache.put).
THEOREM ScopeSharedTheorem == Spec => []ScopeShared
<1>1. ChecksInv => OwnReport
  BY DEF ChecksInv, ChecksType, ClientOK, OwnReport
<1>2. ChecksInv => OneFlight /\ NoRepeat
  BY DEF ChecksInv, FlightOK, Going, OneFlight, NoRepeat
<1>3. ChecksInv => SupersededHonest
  BY DEF ChecksInv, FlightOK, Replaced, ClientOK, SupersededHonest
<1>4. ChecksInv => ScopeShared
  BY <1>1, <1>2, <1>3 DEF ScopeShared
<1> QED
  BY <1>4, ChecksStart, ChecksStep, PTL DEF Spec
=============================================================================
