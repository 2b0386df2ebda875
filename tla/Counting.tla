------------------------------ MODULE Counting ------------------------------
(***************************************************************************)
(* What the proofs about the models count with: how many elements a set    *)
(* has when it grows by one, how many places of a sequence hold a value,   *)
(* and induction over numbers and finite sets.  Induction is stated over   *)
(* the set of what has the property; its ground is that a finite set has   *)
(* no endless chain of smaller subsets.                                    *)
(***************************************************************************)
EXTENDS FiniteSetTheorems, SequenceTheorems, TLAPS

-----------------------------------------------------------------------------
(* Induction.                                                               *)

\* A set of natural numbers has a least element.
LEMMA LeastNatural ==
    ASSUME NEW S, S \subseteq Nat, S # {}
    PROVE  \E m \in S : \A k \in S : m <= k
<1> DEFINE R == StrictSubsetOrdering(Nat)
           Initial == {0 .. m : m \in S}
<1>1. IsWellFoundedOn(R, FiniteSubsetsOf(Nat))
  BY FS_StrictSubsetOrderingWellFounded
<1>2. \A T, U \in SUBSET Nat : <<T, U>> \in R <=> T \subseteq U /\ T # U
  BY DEF StrictSubsetOrdering
<1>3. Initial \subseteq FiniteSubsetsOf(Nat) /\ Initial # {}
  <2>1. ASSUME NEW m \in S PROVE 0 .. m \in SUBSET Nat /\ IsFiniteSet(0 .. m)
    BY FS_Interval
  <2> QED
    BY <2>1 DEF FiniteSubsetsOf
<1> HIDE DEF R
<1>4. PICK T \in Initial : \A U \in Initial : <<U, T>> \notin R
  <2> HIDE DEF Initial
  <2> QED
    BY <1>1, <1>3, WFMin
<1>5. PICK m \in S : T = 0 .. m
  BY <1>4
<1>6. ASSUME NEW k \in S, k < m
      PROVE  FALSE
  <2>1. 0 .. k \in Initial /\ 0 .. k \subseteq 0 .. m /\ m \in 0 .. m /\ m \notin 0 .. k
    BY <1>6
  <2>2. 0 .. k # 0 .. m
    BY <2>1
  <2>3. <<0 .. k, T>> \in R
    <3>1. 0 .. k \in SUBSET Nat /\ 0 .. m \in SUBSET Nat
      OBVIOUS
    <3> QED
      BY <1>2, <1>5, <2>1, <2>2, <3>1
  <2> QED
    BY <1>4, <2>1, <2>3
<1> QED
  BY <1>6

\* A set with 0, and with the number after each it has, has them all.
LEMMA SetInduction ==
    ASSUME NEW S, 0 \in S, \A n \in Nat : n \in S => n + 1 \in S
    PROVE  Nat \subseteq S
<1> SUFFICES ASSUME NEW x \in Nat \ S PROVE FALSE
  OBVIOUS
<1>1. PICK m \in Nat \ S : \A k \in Nat \ S : m <= k
  BY LeastNatural
<1>2. m # 0 /\ m - 1 \in Nat /\ m = (m - 1) + 1
  BY <1>1
<1>3. m - 1 \in S
  BY <1>1, <1>2
<1> QED
  BY <1>1, <1>2, <1>3

-----------------------------------------------------------------------------
(* Sets that grow by one.                                                   *)

LEMMA Grows ==
    ASSUME NEW S, IsFiniteSet(S), NEW T, NEW x
    PROVE  /\ T \subseteq S => IsFiniteSet(T) /\ Cardinality(T) <= Cardinality(S)
           /\ T \subseteq S \cup {x} =>
                 IsFiniteSet(T) /\ Cardinality(T) <= Cardinality(S) + 1
           /\ Cardinality(S) \in Nat
           /\ T \subseteq S \cup {x} => Cardinality(T) \in Nat
<1>1. /\ IsFiniteSet(S \cup {x})
      /\ Cardinality(S \cup {x}) <= Cardinality(S) + 1
      /\ Cardinality(S) \in Nat /\ Cardinality(S \cup {x}) \in Nat
  BY FS_AddElement, FS_CardinalityType
<1>2. ASSUME T \subseteq S
      PROVE  IsFiniteSet(T) /\ Cardinality(T) <= Cardinality(S)
  BY <1>2, FS_Subset
<1>3. ASSUME T \subseteq S \cup {x}
      PROVE  IsFiniteSet(T) /\ Cardinality(T) <= Cardinality(S \cup {x})
  BY <1>1, <1>3, FS_Subset
<1>4. T \subseteq S \cup {x} => Cardinality(T) \in Nat
  BY <1>3, FS_CardinalityType
<1> QED
  BY <1>1, <1>2, <1>3, <1>4

-----------------------------------------------------------------------------
(* The places of a sequence that hold a value of A.                         *)

Places(s, A) == {i \in DOMAIN s : s[i] \in A}

HowMany(s, A) == Cardinality(Places(s, A))

LEMMA HowManyType ==
    ASSUME NEW S, NEW s \in Seq(S), NEW A
    PROVE  /\ IsFiniteSet(Places(s, A))
           /\ HowMany(s, A) \in Nat
           /\ HowMany(s, A) = 0 <=> \A i \in DOMAIN s : s[i] \notin A
<1>1. IsFiniteSet(1 .. Len(s)) /\ Places(s, A) \subseteq 1 .. Len(s)
  BY FS_Interval DEF Places
<1>2. IsFiniteSet(Places(s, A))
  BY <1>1, FS_Subset
<1>3. HowMany(s, A) = 0 <=> Places(s, A) = {}
  BY <1>2, FS_EmptySet DEF HowMany
<1> QED
  BY <1>2, <1>3, FS_CardinalityType DEF HowMany, Places

LEMMA HowManyEmpty ==
    ASSUME NEW A
    PROVE  HowMany(<<>>, A) = 0
<1>1. Places(<<>>, A) = {}
  BY DEF Places
<1> QED
  BY <1>1, FS_EmptySet DEF HowMany

LEMMA HowManyAppend ==
    ASSUME NEW S, NEW s \in Seq(S), NEW x \in S, NEW A
    PROVE  HowMany(Append(s, x), A) = HowMany(s, A) + (IF x \in A THEN 1 ELSE 0)
<1>1. /\ DOMAIN Append(s, x) = 1 .. Len(s) + 1 /\ DOMAIN s = 1 .. Len(s)
      /\ \A i \in 1 .. Len(s) : Append(s, x)[i] = s[i]
      /\ Append(s, x)[Len(s) + 1] = x /\ Len(s) \in Nat
  BY AppendProperties, LenProperties
<1>2. Places(Append(s, x), A)
         = IF x \in A THEN Places(s, A) \cup {Len(s) + 1} ELSE Places(s, A)
  BY <1>1 DEF Places
<1>3. Len(s) + 1 \notin Places(s, A)
  BY <1>1 DEF Places
<1>4. IsFiniteSet(Places(s, A)) /\ HowMany(s, A) \in Nat
  BY HowManyType
<1>5. CASE x \in A
  BY <1>2, <1>3, <1>4, <1>5, FS_AddElement DEF HowMany
<1>6. CASE x \notin A
  BY <1>2, <1>4, <1>6 DEF HowMany
<1> QED
  BY <1>5, <1>6

LEMMA HowManyTail ==
    ASSUME NEW S, NEW s \in Seq(S), s # <<>>, NEW A
    PROVE  HowMany(s, A) = HowMany(Tail(s), A) + (IF Head(s) \in A THEN 1 ELSE 0)
<1> DEFINE rest == {i \in Places(s, A) : i # 1}
           shift == [i \in Places(Tail(s), A) |-> i + 1]
<1>1. /\ Tail(s) \in Seq(S) /\ Len(Tail(s)) = Len(s) - 1 /\ Len(s) \in Nat
      /\ \A i \in 1 .. Len(Tail(s)) : Tail(s)[i] = s[i + 1]
      /\ Head(s) = s[1] /\ 1 \in 1 .. Len(s)
      /\ DOMAIN s = 1 .. Len(s) /\ DOMAIN Tail(s) = 1 .. Len(Tail(s))
  BY HeadTailProperties, LenProperties, EmptySeq
<1>2. Places(s, A) = IF Head(s) \in A THEN rest \cup {1} ELSE rest
  BY <1>1 DEF Places
<1>3. ExistsBijection(Places(Tail(s), A), rest)
  <2>1. shift \in [Places(Tail(s), A) -> rest]
    BY <1>1 DEF Places
  <2>2. \A i, j \in Places(Tail(s), A) : shift[i] = shift[j] => i = j
    BY <1>1 DEF Places
  <2>3. \A j \in rest : \E i \in Places(Tail(s), A) : shift[i] = j
    <3> SUFFICES ASSUME NEW j \in rest
                 PROVE  j - 1 \in Places(Tail(s), A) /\ (j - 1) + 1 = j
      BY Zenon
    <3> QED
      BY <1>1 DEF Places
  <2> HIDE DEF shift, rest
  <2> QED
    BY <2>1, <2>2, <2>3
       DEF ExistsBijection, Bijection, Injection, Surjection, IsInjective
<1>4. /\ IsFiniteSet(rest) /\ Cardinality(rest) = HowMany(Tail(s), A)
      /\ HowMany(Tail(s), A) \in Nat
  <2> HIDE DEF rest
  <2>1. IsFiniteSet(Places(Tail(s), A)) /\ HowMany(Tail(s), A) \in Nat
    BY <1>1, HowManyType
  <2> QED
    BY <1>3, <2>1, FS_Bijection DEF HowMany
<1>5. 1 \notin rest
  OBVIOUS
<1> HIDE DEF rest
<1>6. CASE Head(s) \in A
  BY <1>2, <1>4, <1>5, <1>6, FS_AddElement DEF HowMany
<1>7. CASE Head(s) \notin A
  BY <1>2, <1>4, <1>7 DEF HowMany
<1> QED
  BY <1>6, <1>7

-----------------------------------------------------------------------------
(* Sums over a finite set, as MapThenSumSet of FiniteSetsExt has them: the   *)
(* sum of s is that of s without an element, whichever CHOOSE takes, and it. *)

Pick(s) == CHOOSE x \in s : TRUE

\* g[s] is the sum of f over s, for each part s of S.
Sums(g, f, S) ==
    g = [s \in SUBSET S |-> IF s = {} THEN 0 ELSE f[Pick(s)] + g[s \ {Pick(s)}]]

\* What is left of a set without the element picked is smaller by one.
LEMMA PickSmaller ==
    ASSUME NEW S, IsFiniteSet(S), NEW s \in SUBSET S, s # {}
    PROVE  /\ Pick(s) \in s /\ s \ {Pick(s)} \in SUBSET S
           /\ Cardinality(s) \in Nat
           /\ Cardinality(s \ {Pick(s)}) = Cardinality(s) - 1
<1>1. Pick(s) \in s
  BY DEF Pick
<1>2. IsFiniteSet(s)
  BY FS_Subset
<1> QED
  BY <1>1, <1>2, FS_RemoveElement, FS_CardinalityType

\* There are sums, of whatever is summed.
LEMMA SumsExist ==
    ASSUME NEW S, IsFiniteSet(S), NEW f
    PROVE  \E g : Sums(g, f, S)
<1> DEFINE D(n) == {s \in SUBSET S : Cardinality(s) <= n}
           Step(g, s) == IF s = {} THEN 0 ELSE f[Pick(s)] + g[s \ {Pick(s)}]
           Good == {n \in Nat : \E g : g = [s \in D(n) |-> Step(g, s)]}
<1>1. 0 \in Good
  <2> DEFINE g == [s \in D(0) |-> 0]
  <2>1. \A s \in D(0) : s = {}
    <3> SUFFICES ASSUME NEW s \in D(0), s # {} PROVE FALSE
      OBVIOUS
    <3>1. IsFiniteSet(s)
      BY FS_Subset
    <3> QED
      BY <3>1, FS_EmptySet, FS_CardinalityType
  <2>2. \A s \in D(0) : Step(g, s) = 0
    BY <2>1
  <2>3. g = [s \in D(0) |-> Step(g, s)]
    BY <2>2
  <2> QED
    BY <2>3
<1>2. ASSUME NEW n \in Nat, n \in Good
      PROVE  n + 1 \in Good
  <2>1. PICK g : g = [s \in D(n) |-> Step(g, s)]
    BY <1>2
  <2> DEFINE h == [s \in D(n + 1) |-> Step(g, s)]
  <2>2. ASSUME NEW s \in D(n + 1)
        PROVE  Step(h, s) = Step(g, s)
    <3>1. CASE s = {}
      BY <3>1
    <3>2. CASE s # {}
      <4> DEFINE r == s \ {Pick(s)}
      <4>1. r \in D(n) /\ r \in D(n + 1)
        BY <3>2, PickSmaller
      <4>2. h[r] = Step(g, r) /\ g[r] = Step(g, r)
        BY <2>1, <4>1
      <4> QED
        BY <3>2, <4>2
    <3> QED
      BY <3>1, <3>2
  <2> DEFINE Fits(k) == k = [s \in D(n + 1) |-> Step(k, s)]
  <2>3. Fits(h)
    BY <2>2
  <2>4. \E k : Fits(k)
    <3> HIDE DEF Fits, h
    <3> QED
      BY <2>3
  <2> HIDE DEF D, Step
  <2> QED
    BY <2>4
<1>3. Cardinality(S) \in Good
  <2> HIDE DEF Good
  <2>1. Nat \subseteq Good
    BY <1>1, <1>2, SetInduction
  <2> QED
    BY <2>1, FS_CardinalityType
<1>4. D(Cardinality(S)) = SUBSET S
  <2>1. \A s \in SUBSET S : Cardinality(s) <= Cardinality(S)
    BY FS_Subset
  <2> QED
    BY <2>1
<1> QED
  BY <1>3, <1>4 DEF Sums

Ints(f, S) == \A y \in S : f[y] \in Int

\* Over S, h is f with d added at x, if x is there.
Adds(h, f, S, x, d) == \A y \in S : h[y] = f[y] + (IF y = x THEN d ELSE 0)

\* When one summand changes by d, the sum does.
LEMMA SumsChange ==
    ASSUME NEW S, IsFiniteSet(S), NEW f, NEW g, NEW h, NEW k,
           Sums(g, f, S), Sums(k, h, S), Ints(f, S),
           NEW x, NEW d \in Int, Adds(h, f, S, x, d)
    PROVE  /\ g[S] \in Int
           /\ k[S] = g[S] + (IF x \in S THEN d ELSE 0)
<1> USE DEF Ints, Adds
<1> DEFINE Good == {n \in Nat : \A s \in SUBSET S : Cardinality(s) <= n =>
                         g[s] \in Int /\ k[s] = g[s] + (IF x \in s THEN d ELSE 0)}
<1>1. ASSUME NEW s \in SUBSET S, s # {}
      PROVE  g[s] = f[Pick(s)] + g[s \ {Pick(s)}] /\ k[s] = h[Pick(s)] + k[s \ {Pick(s)}]
  BY <1>1 DEF Sums
<1>2. g[{}] = 0 /\ k[{}] = 0
  BY DEF Sums
<1>3. 0 \in Good
  <2>1. ASSUME NEW s \in SUBSET S, Cardinality(s) <= 0
        PROVE  s = {}
    <3>1. IsFiniteSet(s)
      BY FS_Subset
    <3> QED
      BY <2>1, <3>1, FS_EmptySet, FS_CardinalityType
  <2> QED
    BY <1>2, <2>1
<1>4. ASSUME NEW n \in Nat, n \in Good
      PROVE  n + 1 \in Good
  <2> SUFFICES ASSUME NEW s \in SUBSET S, Cardinality(s) <= n + 1
               PROVE  g[s] \in Int /\ k[s] = g[s] + (IF x \in s THEN d ELSE 0)
    OBVIOUS
  <2>1. CASE s = {}
    BY <1>2, <2>1
  <2>2. CASE s # {}
    <3> DEFINE r == s \ {Pick(s)}
    <3>1. r \in SUBSET S /\ Cardinality(r) <= n /\ Pick(s) \in s
      BY <2>2, PickSmaller
    <3>2. g[r] \in Int /\ k[r] = g[r] + (IF x \in r THEN d ELSE 0)
      BY <1>4, <3>1
    <3>3. g[s] = f[Pick(s)] + g[r] /\ k[s] = h[Pick(s)] + k[r]
      BY <1>1, <2>2
    <3>4. f[Pick(s)] \in Int /\ h[Pick(s)] = f[Pick(s)] + (IF Pick(s) = x THEN d ELSE 0)
      BY <3>1
    <3> QED
      BY <3>1, <3>2, <3>3, <3>4
  <2> QED
    BY <2>1, <2>2
<1>5. Cardinality(S) \in Good /\ Cardinality(S) \in Nat
  <2> HIDE DEF Good
  <2>1. Nat \subseteq Good
    BY <1>3, <1>4, SetInduction
  <2> QED
    BY <2>1, FS_CardinalityType
<1> QED
  BY <1>5

\* Sums of integers are integers, and sums of the same are the same.
LEMMA SumsAgree ==
    ASSUME NEW S, IsFiniteSet(S), NEW f, NEW g, NEW h, NEW k,
           Sums(g, f, S), Sums(k, h, S), Ints(f, S), \A y \in S : h[y] = f[y]
    PROVE  g[S] \in Int /\ k[S] = g[S]
<1>1. Adds(h, f, S, S, 0)
  <2> SUFFICES ASSUME NEW y \in S PROVE h[y] = f[y] + (IF y = S THEN 0 ELSE 0)
    BY DEF Adds
  <2>1. (IF y = S THEN 0 ELSE 0) = 0
    OBVIOUS
  <2>2. h[y] = f[y] /\ f[y] \in Int
    BY DEF Ints
  <2> QED
    BY <2>1, <2>2
<1>2. g[S] \in Int /\ k[S] = g[S] + (IF S \in S THEN 0 ELSE 0)
  BY <1>1, SumsChange
<1> QED
  BY <1>2

\* The sum of nothing but zeros is zero.
LEMMA SumsOfZeros ==
    ASSUME NEW S, IsFiniteSet(S), NEW f, NEW g, Sums(g, f, S), \A y \in S : f[y] = 0
    PROVE  g[S] = 0
<1> DEFINE k == [s \in SUBSET S |-> 0]
           z == [y \in S |-> 0]
<1>1. Sums(k, z, S)
  <2>1. \A s \in SUBSET S : s # {} => z[Pick(s)] = 0 /\ k[s \ {Pick(s)}] = 0
    BY PickSmaller
  <2> QED
    BY <2>1 DEF Sums
<1>2. Ints(z, S) /\ \A y \in S : f[y] = z[y]
  BY DEF Ints
<1>3. k[S] = 0
  OBVIOUS
<1> HIDE DEF k, z
<1>4. g[S] = k[S]
  BY <1>1, <1>2, SumsAgree
<1> QED
  BY <1>3, <1>4

-----------------------------------------------------------------------------
(* Folds of a sequence from the left, as FoldLeft of SequencesExt has them:  *)
(* the fold over a set of places is that over the set without its last      *)
(* place, and then the value there.                                         *)

Largest(s) == CHOOSE x \in s : \A y \in s : x >= y

\* What is left of a set of places without the last is smaller by one.
LEMMA LargestSmaller ==
    ASSUME NEW n \in Nat, NEW s \in SUBSET (1 .. n), s # {}
    PROVE  /\ Largest(s) \in s /\ s \ {Largest(s)} \in SUBSET (1 .. n)
           /\ IsFiniteSet(s) /\ Cardinality(s) \in Nat
           /\ Cardinality(s \ {Largest(s)}) = Cardinality(s) - 1
<1> DEFINE Above == {n - x : x \in s}
<1>1. PICK m \in Above : \A k \in Above : m <= k
  <2>1. Above \subseteq Nat
    <3> SUFFICES ASSUME NEW x \in s PROVE n - x \in Nat
      OBVIOUS
    <3>1. x \in 1 .. n
      OBVIOUS
    <3> QED
      BY <3>1
  <2>2. Above # {}
    OBVIOUS
  <2> HIDE DEF Above
  <2> QED
    BY <2>1, <2>2, LeastNatural
<1>2. PICK x \in s : m = n - x
  BY <1>1
<1>3. ASSUME NEW y \in s PROVE x >= y
  <2>1. n - y \in Above /\ x \in 1 .. n /\ y \in 1 .. n
    OBVIOUS
  <2>2. n - x <= n - y
    BY <1>1, <1>2, <2>1
  <2> QED
    BY <2>1, <2>2
<1>4. Largest(s) \in s
  BY <1>3 DEF Largest
<1>5. IsFiniteSet(s)
  <2>1. IsFiniteSet(1 .. n) /\ s \subseteq 1 .. n
    BY FS_Interval
  <2> QED
    BY <2>1, FS_Subset
<1> QED
  BY <1>4, <1>5, FS_RemoveElement, FS_CardinalityType

\* The last place of the first i places is i, and the others are the first
\* i - 1 places.
LEMMA FirstPlaces ==
    ASSUME NEW n \in Nat, NEW i \in 1 .. n
    PROVE  /\ 1 .. i \in SUBSET (1 .. n) /\ 1 .. i # {}
           /\ Largest(1 .. i) = i /\ (1 .. i) \ {Largest(1 .. i)} = 1 .. i - 1
<1>1. i \in 1 .. i /\ \A y \in 1 .. i : i >= y
  OBVIOUS
<1>2. \A x \in 1 .. i : (\A y \in 1 .. i : x >= y) => x = i
  BY <1>1
<1>3. Largest(1 .. i) = i
  BY <1>1, <1>2 DEF Largest
<1> QED
  BY <1>1, <1>3

\* g[s] is the fold of op over the places s of q, in R.
Folds(g, op, base, q, R) ==
    /\ g \in [SUBSET (1 .. Len(q)) -> R]
    /\ \A s \in SUBSET (1 .. Len(q)) :
          g[s] = IF s = {} THEN base
                 ELSE op[<<g[s \ {Largest(s)}], q[Largest(s)]>>]

\* There is a fold, of whatever sequence, and it stays among the results.
LEMMA FoldsExist ==
    ASSUME NEW R, NEW T, NEW op \in [R \X T -> R], NEW base \in R, NEW q \in Seq(T)
    PROVE  \E g : Folds(g, op, base, q, R)
<1> DEFINE P == 1 .. Len(q)
           D(n) == {s \in SUBSET P : Cardinality(s) <= n}
           Step(g, s) == IF s = {} THEN base
                         ELSE op[<<g[s \ {Largest(s)}], q[Largest(s)]>>]
           Fits(g, n) == g \in [D(n) -> R] /\ \A s \in D(n) : g[s] = Step(g, s)
           Good == {n \in Nat : \E g : Fits(g, n)}
<1>q. Len(q) \in Nat /\ \A i \in P : q[i] \in T
  OBVIOUS
<1>f. IsFiniteSet(P) /\ \A s \in SUBSET P : IsFiniteSet(s)
  <2>1. IsFiniteSet(P)
    BY <1>q, FS_Interval
  <2> QED
    BY <2>1, FS_Subset
<1>1. 0 \in Good
  <2> DEFINE g == [s \in D(0) |-> base]
  <2>1. \A s \in D(0) : s = {}
    <3> SUFFICES ASSUME NEW s \in D(0), s # {} PROVE FALSE
      OBVIOUS
    <3> QED
      BY <1>f, FS_EmptySet, FS_CardinalityType
  <2>2. \A s \in D(0) : Step(g, s) = base
    BY <2>1
  <2>3. Fits(g, 0)
    BY <2>2
  <2> HIDE DEF Fits, g
  <2> QED
    BY <2>3
<1>2. ASSUME NEW n \in Nat, n \in Good
      PROVE  n + 1 \in Good
  <2>1. PICK g : Fits(g, n)
    BY <1>2
  <2> DEFINE h == [s \in D(n + 1) |-> Step(g, s)]
  <2>2. ASSUME NEW s \in D(n + 1)
        PROVE  Step(h, s) = Step(g, s) /\ Step(g, s) \in R
    <3>1. CASE s = {}
      BY <3>1
    <3>2. CASE s # {}
      <4> DEFINE r == s \ {Largest(s)}
      <4>1. /\ r \in D(n) /\ r \in D(n + 1)
            /\ Largest(s) \in P
        <5>1. /\ Largest(s) \in s /\ r \in SUBSET P /\ Cardinality(s) \in Nat
              /\ Cardinality(r) = Cardinality(s) - 1
          BY <1>q, <3>2, LargestSmaller
        <5> HIDE DEF r
        <5>2. Cardinality(s) <= n + 1 /\ s \in SUBSET P
          OBVIOUS
        <5>3. Cardinality(r) <= n /\ Cardinality(r) <= n + 1
          BY <5>1, <5>2
        <5> HIDE DEF P
        <5> QED
          BY <5>1, <5>2, <5>3
      <4>2. h[r] = Step(g, r) /\ g[r] = Step(g, r) /\ g[r] \in R
        BY <2>1, <4>1
      <4>3. q[Largest(s)] \in T
        BY <1>q, <4>1
      <4>4. Step(h, s) = op[<<h[r], q[Largest(s)]>>] /\ Step(g, s) = op[<<g[r], q[Largest(s)]>>]
        BY <3>2
      <4> HIDE DEF Step, h, r
      <4> QED
        BY <4>2, <4>3, <4>4
    <3> QED
      BY <3>1, <3>2
  <2>3. Fits(h, n + 1)
    <3> HIDE DEF Step, D
    <3> QED
      BY <2>2
  <2>4. \E k : Fits(k, n + 1)
    <3> HIDE DEF Fits, h
    <3> QED
      BY <2>3
  <2> HIDE DEF Fits
  <2> QED
    BY <2>4
<1>3. Cardinality(P) \in Good
  <2> HIDE DEF Good
  <2>1. Nat \subseteq Good
    BY <1>1, <1>2, SetInduction
  <2> QED
    BY <1>f, <2>1, FS_CardinalityType
<1>4. D(Cardinality(P)) = SUBSET P
  <2>1. \A s \in SUBSET P : Cardinality(s) <= Cardinality(P)
    BY <1>f, FS_Subset
  <2> QED
    BY <2>1
<1>5. PICK g : Fits(g, Cardinality(P))
  BY <1>3
<1>6. Folds(g, op, base, q, R)
  BY <1>4, <1>5 DEF Folds
<1> QED
  BY <1>6

=============================================================================
