------------------------------ MODULE DataLemmas ------------------------------
(***************************************************************************)
(* Facts about data that the proofs about the modules share: induction     *)
(* over the natural numbers with sets in the place of predicates, so that  *)
(* it is a first-order fact and a leaf can cite it; quotients, remainders  *)
(* and powers of two; the operators of Vectors.                            *)
(***************************************************************************)
EXTENDS Vectors, FiniteSetTheorems, WellFoundedInduction, TLAPS

-----------------------------------------------------------------------------
(* Induction *)

\* The smaller-than relation on the natural numbers.
Smaller == {pair \in Nat \X Nat : pair[1] < pair[2]}

\* No sequence of natural numbers descends for ever.
LEMMA SmallerWellFounded == IsWellFoundedOn(Smaller, Nat)
BY NatLessThanWellFounded, Zenon DEF OpToRel, Smaller

\* A set of natural numbers has a least element, unless it is empty.
LEMMA LeastElement ==
  \A T \in SUBSET Nat : T # {} => \E x \in T : \A y \in T : x <= y
<1> SUFFICES ASSUME NEW T \in SUBSET Nat, T # {} PROVE \E x \in T : \A y \in T : x <= y
  OBVIOUS
<1>1. PICK x \in T : \A y \in T : <<y, x>> \notin Smaller
  BY SmallerWellFounded, WFMin
<1>2. ASSUME NEW y \in T PROVE x <= y
  <2>1. <<y, x>> \notin Smaller /\ <<y, x>> \in Nat \X Nat
    BY <1>1
  <2>2. ~(y < x)
    BY <2>1 DEF Smaller
  <2>3. QED
    BY <2>2
<1>3. QED
  BY <1>2

\* A set that holds a number whenever it holds all smaller ones holds them all.
LEMMA CourseOfValues ==
  \A S : (\A n \in Nat : (\A m \in Nat : m < n => m \in S) => n \in S) => Nat \subseteq S
<1> SUFFICES ASSUME NEW S, \A n \in Nat : (\A m \in Nat : m < n => m \in S) => n \in S,
                    ~(Nat \subseteq S)
             PROVE  FALSE
  OBVIOUS
<1>1. PICK x \in Nat \ S : \A y \in Nat \ S : x <= y
  BY LeastElement
<1>2. QED
  BY <1>1

\* A set that holds 0, and the successor of each number it holds, holds them all.
LEMMA Successors ==
  \A S : 0 \in S /\ (\A n \in Nat : n \in S => n + 1 \in S) => Nat \subseteq S
<1> SUFFICES ASSUME NEW S, 0 \in S, \A n \in Nat : n \in S => n + 1 \in S,
                    ~(Nat \subseteq S)
             PROVE  FALSE
  OBVIOUS
<1>1. PICK x \in Nat \ S : \A y \in Nat \ S : x <= y
  BY LeastElement
<1>2. x - 1 \in Nat /\ x = (x - 1) + 1
  BY <1>1
<1>3. QED
  BY <1>1, <1>2

-----------------------------------------------------------------------------
(* Quotients and remainders *)

\* Division leaves a remainder below the divisor, of numbers ...
LEMMA DivisionFacts ==
  \A v \in Nat \ {0}, a \in Nat :
    a = v * (a \div v) + (a % v) /\ a % v \in 0 .. v - 1 /\ a \div v \in Nat
BY Z3

\* ... and of integers.
LEMMA DivisionOfIntegers ==
  \A v \in Nat \ {0}, a \in Int :
    a = v * (a \div v) + (a % v) /\ a % v \in 0 .. v - 1 /\ a \div v \in Int
BY Z3

\* A number has one quotient and one remainder.
LEMMA DivisionUnique ==
  ASSUME NEW v \in Nat \ {0}, NEW q \in Int, NEW p \in Int,
         NEW r \in 0 .. v - 1, NEW s \in 0 .. v - 1, v * q + r = v * p + s
  PROVE  q = p
<1>1. v * (q - p) = s - r /\ v * (p - q) = r - s
  BY Z3
<1>2. ~ (q - p >= 1)
  <2> SUFFICES ASSUME q - p >= 1 PROVE FALSE OBVIOUS
  <2>1. v * (q - p) >= v
    BY Z3
  <2> QED BY <1>1, <2>1, Z3
<1>3. ~ (p - q >= 1)
  <2> SUFFICES ASSUME p - q >= 1 PROVE FALSE OBVIOUS
  <2>1. v * (p - q) >= v
    BY Z3
  <2> QED BY <1>1, <2>1, Z3
<1> QED BY <1>2, <1>3, Z3

\* The remainder is the only number below the divisor that differs from a
\* dividend by a multiple.
LEMMA RemainderUnique ==
  ASSUME NEW v \in Nat \ {0}, NEW q \in Int, NEW r \in 0 .. v - 1
  PROVE  (v * q + r) % v = r /\ (v * q + r) \div v = q
<1> DEFINE a == v * q + r
<1>1. a \in Int
  BY Z3
<1>2. a = v * (a \div v) + (a % v) /\ a % v \in 0 .. v - 1 /\ a \div v \in Int
  BY <1>1, DivisionOfIntegers, Zenon
<1>3. v * q + r = v * (a \div v) + (a % v)
  BY <1>2
<1> HIDE DEF a
<1>4. q = a \div v
  BY <1>2, <1>3, DivisionUnique
<1>5. r = a % v
  <2> DEFINE x == a \div v
             y == a % v
  <2>1. v * q + r = v * x + y /\ q = x /\ y \in 0 .. v - 1
    BY <1>2, <1>3, <1>4
  <2> HIDE DEF x, y
  <2>2. v * q = v * x
    BY <2>1
  <2>3. v * q \in Int
    BY Z3
  <2>4. r = y
    BY <2>1, <2>2, <2>3, Z3
  <2> QED BY <2>4 DEF y
<1> QED BY <1>4, <1>5 DEF a

\* A multiple of the divisor more or less leaves the remainder.
LEMMA RemainderShifted ==
  ASSUME NEW v \in Nat \ {0}, NEW a \in Int, NEW k \in Int
  PROVE  (a + v * k) % v = a % v
<1> DEFINE q == a \div v
           r == a % v
<1>1. a = v * q + r /\ r \in 0 .. v - 1 /\ q \in Int
  BY DivisionOfIntegers, Zenon
<1> HIDE DEF q, r
<1>2. q + k \in Int /\ a + v * k = v * (q + k) + r
  BY <1>1, Z3
<1>3. (v * (q + k) + r) % v = r
  BY <1>1, <1>2, RemainderUnique
<1> QED BY <1>2, <1>3 DEF r

\* A remainder stands for its dividend in a sum.
LEMMA RemainderOfSum ==
  ASSUME NEW v \in Nat \ {0}, NEW a \in Int, NEW b \in Int
  PROVE  ((a % v) + b) % v = (a + b) % v
<1> DEFINE q == a \div v
           r == a % v
<1>1. a = v * q + r /\ r \in 0 .. v - 1 /\ q \in Int
  BY DivisionOfIntegers, Zenon
<1> HIDE DEF q, r
<1>2. r + b \in Int /\ a + b = (r + b) + v * q
  BY <1>1, Z3
<1>3. ((r + b) + v * q) % v = (r + b) % v
  BY <1>1, <1>2, RemainderShifted
<1> QED BY <1>2, <1>3 DEF r

-----------------------------------------------------------------------------
(* Powers of two *)

\* The subsets of a set of n elements are 2 ^ n.
LEMMA Subsets ==
  \A n \in Nat : /\ IsFiniteSet(SUBSET (1 .. n))
                 /\ Cardinality(SUBSET (1 .. n)) = 2 ^ n
<1> TAKE n \in Nat
<1>1. IsFiniteSet(1 .. n) /\ Cardinality(1 .. n) = n
  BY FS_Interval
<1> QED BY <1>1, FS_SUBSET

\* One element more doubles them.
LEMMA PowerDoubles == \A n \in Nat : 2 ^ (n + 1) = 2 * 2 ^ n
<1> TAKE n \in Nat
<1> DEFINE old  == SUBSET (1 .. n)
           new  == {s \cup {n + 1} : s \in old}
           f    == [s \in old |-> s \cup {n + 1}]
<1>1. SUBSET (1 .. n + 1) = old \cup new
  <2>1. ASSUME NEW t \in SUBSET (1 .. n + 1) PROVE t \in old \cup new
    <3>1. CASE n + 1 \in t
      <4>1. t = (t \ {n + 1}) \cup {n + 1} /\ t \ {n + 1} \in old
        BY <3>1
      <4> QED BY <4>1
    <3>2. CASE n + 1 \notin t
      BY <3>2
    <3> QED BY <3>1, <3>2
  <2>2. ASSUME NEW t \in old \cup new PROVE t \in SUBSET (1 .. n + 1)
    OBVIOUS
  <2> QED BY <2>1, <2>2
<1>2. old \cap new = {}
  OBVIOUS
<1>3. f \in Bijection(old, new)
  <2>1. ASSUME NEW s \in old, NEW t \in old, f[s] = f[t] PROVE s = t
    <3>1. s = f[s] \ {n + 1} /\ t = f[t] \ {n + 1}
      OBVIOUS
    <3> QED BY <2>1, <3>1
  <2>2. f \in [old -> new] /\ \A t \in new : \E s \in old : f[s] = t
    OBVIOUS
  <2> QED BY <2>1, <2>2, Zenon DEF Bijection, Injection, Surjection, IsInjective
<1>4. IsFiniteSet(old) /\ Cardinality(old) = 2 ^ n
  BY Subsets
<1>5. IsFiniteSet(new) /\ Cardinality(new) = 2 ^ n
  <2> HIDE DEF old, new, f
  <2>1. ExistsBijection(old, new)
    BY <1>3, Zenon DEF ExistsBijection
  <2> QED BY <2>1, <1>4, FS_Bijection
<1>6. Cardinality(old \cup new) = Cardinality(old) + Cardinality(new) - Cardinality(old \cap new)
  BY <1>4, <1>5, FS_Union
<1>7. Cardinality(old \cup new) = 2 ^ (n + 1)
  <2>1. Cardinality(SUBSET (1 .. n + 1)) = 2 ^ (n + 1)
    BY Subsets
  <2> QED BY <1>1, <2>1, Zenon
<1>8. Cardinality(old) \in Nat /\ Cardinality(old \cap new) = 0
  BY <1>2, <1>4, FS_EmptySet, FS_CardinalityType
<1> QED BY <1>4, <1>5, <1>6, <1>7, <1>8

\* Powers of two are positive numbers, and 2 ^ 0 is one.
LEMMA PowerPositive == 2 ^ 0 = 1 /\ \A n \in Nat : 2 ^ n \in Nat \ {0}
<1>1. 2 ^ 0 = 1
  OBVIOUS
<1>2. ASSUME NEW n \in Nat PROVE 2 ^ n \in Nat \ {0}
  <2>1. IsFiniteSet(SUBSET (1 .. n)) /\ SUBSET (1 .. n) # {} /\ Cardinality(SUBSET (1 .. n)) = 2 ^ n
    BY Subsets
  <2> QED BY <2>1, FS_EmptySet, FS_CardinalityType
<1> QED BY <1>1, <1>2

\* They grow, and beyond every number.
LEMMA PowersGrow == /\ \A n \in Nat : n < 2 ^ n
                    /\ \A m \in Nat, n \in Nat : m <= n => 2 ^ m <= 2 ^ n
<1>1. \A n \in Nat : 2 ^ n \in Nat \ {0} /\ 2 ^ (n + 1) = 2 * 2 ^ n
  BY PowerPositive, PowerDoubles
<1>2. Nat \subseteq {n \in Nat : n < 2 ^ n}
  <2> DEFINE S == {n \in Nat : n < 2 ^ n}
  <2>1. 0 \in S
    BY PowerPositive
  <2>2. ASSUME NEW n \in Nat, n \in S PROVE n + 1 \in S
    BY <1>1, <2>2
  <2>3. Nat \subseteq S
    <3> HIDE DEF S
    <3> QED BY <2>1, <2>2, Successors
  <2> QED BY <2>3
<1>3. ASSUME NEW m \in Nat PROVE Nat \subseteq {k \in Nat : 2 ^ m <= 2 ^ (m + k)}
  <2> DEFINE S == {k \in Nat : 2 ^ m <= 2 ^ (m + k)}
  <2>1. 0 \in S
    BY <1>1
  <2>2. ASSUME NEW k \in Nat, k \in S PROVE k + 1 \in S
    <3>1. m + k \in Nat /\ m + (k + 1) = (m + k) + 1
      OBVIOUS
    <3>2. 2 ^ (m + (k + 1)) = 2 * 2 ^ (m + k) /\ 2 ^ (m + k) \in Nat
      BY <1>1, <3>1
    <3> QED BY <1>1, <2>2, <3>2
  <2>3. Nat \subseteq S
    <3> HIDE DEF S
    <3> QED BY <2>1, <2>2, Successors
  <2> QED BY <2>3
<1>4. ASSUME NEW m \in Nat, NEW n \in Nat, m <= n PROVE 2 ^ m <= 2 ^ n
  <2>1. n - m \in Nat /\ m + (n - m) = n
    BY <1>4
  <2> QED BY <1>3, <2>1
<1> QED BY <1>2, <1>4

-----------------------------------------------------------------------------
(* Recursive functions on an interval *)

\* g is defined by recursion over 1 .. top, from b in steps F.
Recursive(top, b, F, g) == g[0] = b /\ \A n \in 1 .. top : g[n] = F[<<n, g[n - 1]>>]

\* A recursion whose steps stay in S defines a function into S.
LEMMA Recursion ==
  \A S : \A top \in Nat :
    \A b \in S, F \in [(1 .. top) \X S -> S] :
      \E g \in [0 .. top -> S] : Recursive(top, b, F, g)
<1> SUFFICES ASSUME NEW top \in Nat, NEW S, NEW b \in S, NEW F \in [(1 .. top) \X S -> S]
             PROVE  \E g \in [0 .. top -> S] : Recursive(top, b, F, g)
  OBVIOUS
<1> DEFINE Upto(m, g) == g[0] = b /\ \A n \in 1 .. m : g[n] = F[<<n, g[n - 1]>>]
           Done == {m \in Nat : m <= top => \E g \in [0 .. m -> S] : Upto(m, g)}
<1>1. 0 \in Done
  <2>1. [n \in 0 .. 0 |-> b] \in [0 .. 0 -> S] /\ Upto(0, [n \in 0 .. 0 |-> b])
    OBVIOUS
  <2> QED BY <2>1
<1>2. ASSUME NEW m \in Nat, m \in Done PROVE m + 1 \in Done
  <2> SUFFICES ASSUME m + 1 <= top PROVE \E g \in [0 .. m + 1 -> S] : Upto(m + 1, g)
    OBVIOUS
  <2>1. PICK g \in [0 .. m -> S] : Upto(m, g)
    BY <1>2
  <2> DEFINE h == [n \in 0 .. m + 1 |-> IF n = m + 1 THEN F[<<m + 1, g[m]>>] ELSE g[n]]
  <2>2. <<m + 1, g[m]>> \in (1 .. top) \X S
    BY <2>1
  <2>3. F[<<m + 1, g[m]>>] \in S
    BY <2>2
  <2>4. h \in [0 .. m + 1 -> S]
    BY <2>3, <2>1
  <2>5. h[0] = b
    BY <2>1
  <2>6. ASSUME NEW n \in 1 .. m + 1 PROVE h[n] = F[<<n, h[n - 1]>>]
    <3>1. CASE n = m + 1
      <4>1. h[n - 1] = g[m] /\ h[n] = F[<<m + 1, g[m]>>]
        BY <3>1
      <4>2. <<m + 1, g[m]>> = <<n, h[n - 1]>>
        BY <3>1, <4>1
      <4> HIDE DEF h
      <4> QED BY <4>1, <4>2
    <3>2. CASE n # m + 1
      <4>1. n \in 1 .. m /\ h[n] = g[n] /\ h[n - 1] = g[n - 1]
        BY <3>2
      <4> QED BY <2>1, <4>1
    <3> QED BY <3>1, <3>2
  <2> HIDE DEF h
  <2> QED BY <2>4, <2>5, <2>6
<1>3. Nat \subseteq Done
  <2> HIDE DEF Done
  <2> QED BY <1>1, <1>2, Successors
<1> QED BY <1>3 DEF Recursive

\* Such a function, as it is written in a definition.
WrittenOut(S, top, b, F, g) ==
  /\ g = [n \in 0 .. top |-> IF n = 0 THEN b ELSE F[<<n, g[n - 1]>>]]
  /\ \A n \in 1 .. top : g[n - 1] \in S

\* It is one that the definition allows.
LEMMA RecursiveIs ==
  \A S : \A top \in Nat : \A b \in S : \A F : \A g \in [0 .. top -> S] :
    Recursive(top, b, F, g) => WrittenOut(S, top, b, F, g)
<1> SUFFICES ASSUME NEW S, NEW top \in Nat, NEW b \in S, NEW F, NEW g \in [0 .. top -> S],
                    Recursive(top, b, F, g)
             PROVE  WrittenOut(S, top, b, F, g)
  OBVIOUS
<1> USE DEF WrittenOut
<1>1. \A n \in 1 .. top : n - 1 \in 0 .. top
  OBVIOUS
<1>2. \A n \in 0 .. top : n # 0 => n \in 1 .. top
  OBVIOUS
<1>3. g[0] = b /\ \A n \in 1 .. top : g[n] = F[<<n, g[n - 1]>>]
  BY DEF Recursive
<1>4. \A n \in 0 .. top : g[n] = IF n = 0 THEN b ELSE F[<<n, g[n - 1]>>]
  BY <1>2, <1>3
<1> QED BY <1>1, <1>4

\* As long as k is in S its steps are those of F.
StepsIn(S, top, b, F, k) ==
  k[0] = b /\ \A n \in 1 .. top : k[n - 1] \in S => k[n] = F[<<n, k[n - 1]>>]

\* Then it stays in S.
LEMMA RecursionTyped ==
  \A S : \A top \in Nat :
    \A b \in S, F \in [(1 .. top) \X S -> S] :
      \A k : StepsIn(S, top, b, F, k) => \A n \in 0 .. top : k[n] \in S
<1> SUFFICES ASSUME NEW S, NEW top \in Nat, NEW b \in S, NEW F \in [(1 .. top) \X S -> S], NEW k,
                    StepsIn(S, top, b, F, k)
             PROVE  \A n \in 0 .. top : k[n] \in S
  OBVIOUS
<1> USE DEF StepsIn
<1> DEFINE Typed == {n \in Nat : n <= top => k[n] \in S}
<1>1. 0 \in Typed
  OBVIOUS
<1>2. ASSUME NEW n \in Nat, n \in Typed PROVE n + 1 \in Typed
  <2> SUFFICES ASSUME n + 1 <= top PROVE k[n + 1] \in S
    OBVIOUS
  <2>1. n + 1 \in 1 .. top /\ (n + 1) - 1 = n /\ k[n] \in S
    BY <1>2
  <2>2. k[n + 1] = F[<<n + 1, k[n]>>]
    BY <2>1
  <2>3. <<n + 1, k[n]>> \in (1 .. top) \X S
    BY <2>1
  <2> QED BY <2>2, <2>3
<1>3. Nat \subseteq Typed
  <2> HIDE DEF Typed
  <2> QED BY <1>1, <1>2, Successors
<1> QED BY <1>3

-----------------------------------------------------------------------------
(* Finite sets *)

\* The image of a finite set is finite.
LEMMA ImageFinite ==
  ASSUME NEW S, IsFiniteSet(S), NEW f, DOMAIN f = S
  PROVE  /\ IsFiniteSet({f[x] : x \in S})
         /\ Cardinality({f[x] : x \in S}) <= Cardinality(S)
<1> DEFINE T == {f[x] : x \in S}
           g == [x \in S |-> f[x]]
<1>1. g \in Surjection(S, T)
  <2>1. g \in [S -> T] /\ \A t \in T : \E x \in S : g[x] = t
    OBVIOUS
  <2> QED BY <2>1, Zenon DEF Surjection
<1> HIDE DEF T, g
<1>2. IsFiniteSet(T) /\ Cardinality(T) <= Cardinality(S)
  BY <1>1, FS_Surjection
<1> QED BY <1>2 DEF T

\* There are at most as many elements in a sequence as it is long.
LEMMA RangeFinite ==
  ASSUME NEW A, NEW s \in Seq(A)
  PROVE  /\ IsFiniteSet(Range(s)) /\ Range(s) \subseteq A
         /\ Range(s) = {s[i] : i \in 1 .. Len(s)}
         /\ s # <<>> => Range(s) # {}
<1>1. DOMAIN s = 1 .. Len(s) /\ Len(s) \in Nat /\ \A i \in 1 .. Len(s) : s[i] \in A
  OBVIOUS
<1>2. IsFiniteSet(1 .. Len(s))
  BY <1>1, FS_Interval
<1>3. IsFiniteSet({s[i] : i \in 1 .. Len(s)})
  BY <1>1, <1>2, ImageFinite
<1>4. Range(s) = {s[i] : i \in 1 .. Len(s)}
  BY <1>1 DEF Range
<1>5. s # <<>> => 1 \in 1 .. Len(s)
  OBVIOUS
<1> QED BY <1>1, <1>3, <1>4, <1>5

\* A finite set of integers has a greatest element, unless it is empty.
LEMMA GreatestElement ==
  \A T \in SUBSET Int : IsFiniteSet(T) /\ T # {} => \E x \in T : \A y \in T : x >= y
<1> DEFINE Has(T) == \E x \in T : \A y \in T : x >= y
           S == {n \in Nat : \A T \in SUBSET Int :
                   IsFiniteSet(T) /\ T # {} /\ Cardinality(T) = n => Has(T)}
<1>1. 0 \in S
  BY FS_EmptySet
<1>2. ASSUME NEW n \in Nat, n \in S PROVE n + 1 \in S
  <2> SUFFICES ASSUME NEW T \in SUBSET Int, IsFiniteSet(T), T # {}, Cardinality(T) = n + 1
               PROVE  Has(T)
    OBVIOUS
  <2>1. PICK x \in T : TRUE
    OBVIOUS
  <2> DEFINE U == T \ {x}
  <2>2. IsFiniteSet(U) /\ Cardinality(U) = n
    BY <2>1, FS_RemoveElement
  <2>3. CASE U = {}
    <3>1. \A y \in T : x >= y
      BY <2>3
    <3> QED BY <3>1
  <2>4. CASE U # {}
    <3>1. Has(U)
      BY <1>2, <2>2, <2>4
    <3>2. PICK z \in U : \A y \in U : z >= y
      BY <3>1
    <3>3. CASE x >= z
      <4>1. \A y \in T : x >= y
        BY <3>2, <3>3
      <4> QED BY <4>1
    <3>4. CASE ~ (x >= z)
      <4>1. \A y \in T : z >= y
        BY <3>2, <3>4
      <4> QED BY <3>2, <4>1
    <3> QED BY <3>3, <3>4
  <2> QED BY <2>3, <2>4
<1>3. Nat \subseteq S
  <2> HIDE DEF S
  <2> QED BY <1>1, <1>2, Successors
<1> SUFFICES ASSUME NEW T \in SUBSET Int, IsFiniteSet(T), T # {} PROVE Has(T)
  OBVIOUS
<1>4. Cardinality(T) \in Nat
  BY FS_CardinalityType
<1> QED BY <1>3, <1>4

\* So Max is one of the elements, and none is greater.
LEMMA MaxIs ==
  ASSUME NEW T \in SUBSET Int, IsFiniteSet(T), T # {}
  PROVE  Max(T) \in T /\ \A y \in T : y <= Max(T)
<1>1. \E x \in T : \A y \in T : x >= y
  BY GreatestElement
<1>2. Max(T) \in T /\ \A y \in T : Max(T) >= y
  BY <1>1, Zenon DEF Max
<1> QED BY <1>2

\* Min is one of the elements, and none is smaller.
LEMMA MinIs ==
  ASSUME NEW T \in SUBSET Int, IsFiniteSet(T), T # {}
  PROVE  Min(T) \in T /\ \A y \in T : Min(T) <= y
<1> DEFINE f == [x \in T |-> 0 - x]
           U == {f[x] : x \in T}
<1>1. IsFiniteSet(U) /\ U \in SUBSET Int /\ U # {}
  <2>1. IsFiniteSet(U)
    BY ImageFinite
  <2>2. PICK x \in T : TRUE
    OBVIOUS
  <2>3. f[x] \in U
    OBVIOUS
  <2>4. \A y \in T : f[y] \in Int
    OBVIOUS
  <2>5. U \in SUBSET Int
    <3> HIDE DEF f
    <3> QED BY <2>4
  <2> HIDE DEF U
  <2> QED BY <2>1, <2>3, <2>5
<1>2. PICK u \in U : \A y \in U : u >= y
  <2> HIDE DEF U
  <2> QED BY <1>1, GreatestElement
<1>3. PICK x \in T : u = 0 - x
  BY <1>2
<1>4. \A y \in T : x <= y
  <2> TAKE y \in T
  <2>1. f[y] = 0 - y /\ f[y] \in U
    OBVIOUS
  <2> QED BY <1>2, <1>3, <2>1
<1>5. Min(T) \in T /\ \A y \in T : Min(T) <= y
  <2>1. \E z \in T : \A y \in T : z <= y
    BY <1>4
  <2> QED BY <2>1, Zenon DEF Min
<1> QED BY <1>5

\* The smaller of two numbers.
LEMMA MinOfTwo == \A a, b \in Int : Min({a, b}) = IF a <= b THEN a ELSE b
<1> TAKE a, b \in Int
<1> DEFINE m == IF a <= b THEN a ELSE b
<1>1. m \in {a, b} /\ \A y \in {a, b} : m <= y
  OBVIOUS
<1>2. Min({a, b}) \in {a, b} /\ \A y \in {a, b} : Min({a, b}) <= y
  <2> HIDE DEF m
  <2> QED BY <1>1, Zenon DEF Min
<1> QED BY <1>1, <1>2

-----------------------------------------------------------------------------
(* The elements of a sequence that are in a set *)

\* k[n] is what has been kept of the first n elements.
KeptBy(s, T, k) ==
  /\ Kept(s, T) = k[Len(s)]
  /\ k[0] = <<>>
  /\ \A n \in 1 .. Len(s) :
       k[n] = IF s[n] \in T THEN Append(k[n - 1], s[n]) ELSE k[n - 1]

\* Kept takes one element after the other.
LEMMA KeptSteps ==
  ASSUME NEW A, NEW s \in Seq(A), NEW T
  PROVE  \E k \in [0 .. Len(s) -> Seq(A \cap T)] : KeptBy(s, T, k)
<1> DEFINE top == Len(s)
           S == Seq(A \cap T)
           Step(n, x) == IF s[n] \in T THEN Append(x, s[n]) ELSE x
           F == [p \in (1 .. top) \X S |-> Step(p[1], p[2])]
           Eq(g) == g = [n \in 0 .. top |-> IF n = 0 THEN <<>> ELSE Step(n, g[n - 1])]
<1>1. top \in Nat /\ <<>> \in S /\ \A n \in 1 .. top : s[n] \in A
  OBVIOUS
<1>2. F \in [(1 .. top) \X S -> S]
  <2>1. ASSUME NEW n \in 1 .. top, NEW x \in S PROVE Step(n, x) \in S
    <3>1. s[n] \in T => s[n] \in A \cap T
      BY <1>1
    <3> QED BY <3>1
  <2> HIDE DEF Step
  <2> QED BY <2>1
<1>3. PICK g \in [0 .. top -> S] : Recursive(top, <<>>, F, g)
  <2> HIDE DEF F, S, top
  <2> QED BY <1>1, <1>2, Recursion, Zenon
<1>4. g[0] = <<>> /\ \A n \in 1 .. top : g[n] = Step(n, g[n - 1])
  <2> HIDE DEF Step, S
  <2> QED BY <1>1, <1>3 DEF Recursive
<1>5. Eq(g)
  <2> HIDE DEF Step, S, F
  <2> QED BY <1>1, <1>4
<1>6. Kept(s, T) = (CHOOSE h : Eq(h))[top]
  BY Zenon DEF Kept
<1> DEFINE k == CHOOSE h : Eq(h)
<1>7. Eq(k)
  <2> HIDE DEF Eq
  <2> QED BY <1>5, Zenon
<1> HIDE DEF k
<1>8. k[0] = <<>> /\ \A n \in 1 .. top : k[n] = Step(n, k[n - 1])
  <2> HIDE DEF Step
  <2>1. 0 \in 0 .. top /\ \A n \in 1 .. top : n \in 0 .. top /\ n # 0
    BY <1>1
  <2> QED BY <2>1, <1>7
<1>9. Nat \subseteq {n \in Nat : n <= top => k[n] \in S}
  <2> DEFINE Typed == {n \in Nat : n <= top => k[n] \in S}
  <2>1. 0 \in Typed
    BY <1>1, <1>8
  <2>2. ASSUME NEW n \in Nat, n \in Typed PROVE n + 1 \in Typed
    <3> SUFFICES ASSUME n + 1 <= top PROVE k[n + 1] \in S
      OBVIOUS
    <3>1. n + 1 \in 1 .. top /\ k[n] \in S /\ k[n + 1] = Step(n + 1, k[(n + 1) - 1])
      BY <1>1, <1>8, <2>2
    <3>2. F[<<n + 1, k[n]>>] = Step(n + 1, k[n]) /\ F[<<n + 1, k[n]>>] \in S
      <4> HIDE DEF Step, S
      <4> QED BY <3>1, <1>2
    <3> QED BY <3>1, <3>2
  <2>3. Nat \subseteq Typed
    <3> HIDE DEF Typed
    <3> QED BY <2>1, <2>2, Successors
  <2> QED BY <2>3
<1>10. k \in [0 .. top -> S]
  <2>1. \A n \in 0 .. top : k[n] \in S
    BY <1>1, <1>9
  <2>2. k = [n \in 0 .. top |-> k[n]]
    <3> HIDE DEF Step
    <3> QED BY <1>7
  <2> HIDE DEF S, top
  <2> QED BY <2>1, <2>2
<1>11. Kept(s, T) = k[top]
  BY <1>6 DEF k
<1>12. KeptBy(s, T, k)
  BY <1>8, <1>11 DEF KeptBy
<1> QED BY <1>10, <1>12

\* Later elements of t are later ones of the first n of s.
Embedded(s, n, t) ==
  \A i, j \in 1 .. Len(t) : i < j =>
    \E a, b \in 1 .. n : a < b /\ s[a] = t[i] /\ s[b] = t[j]

\* The elements of t are the first n of s that are in T.
Covers(s, n, T, t) ==
  /\ \A i \in 1 .. Len(t) : \E a \in 1 .. n : s[a] = t[i]
  /\ \A a \in 1 .. n : s[a] \in T => \E i \in 1 .. Len(t) : t[i] = s[a]

\* What Kept keeps, and that it keeps the order.
LEMMA KeptFacts ==
  ASSUME NEW A, NEW s \in Seq(A), NEW T
  PROVE  /\ Kept(s, T) \in Seq(A \cap T)
         /\ Len(Kept(s, T)) <= Len(s)
         /\ Covers(s, Len(s), T, Kept(s, T))
         /\ Embedded(s, Len(s), Kept(s, T))
<1>0. PICK k \in [0 .. Len(s) -> Seq(A \cap T)] : KeptBy(s, T, k)
  BY KeptSteps, Zenon
<1>1. /\ Kept(s, T) = k[Len(s)]
      /\ k[0] = <<>>
      /\ \A n \in 1 .. Len(s) :
           k[n] = IF s[n] \in T THEN Append(k[n - 1], s[n]) ELSE k[n - 1]
  BY <1>0 DEF KeptBy
<1> DEFINE Good(n) == Len(k[n]) <= n /\ Covers(s, n, T, k[n]) /\ Embedded(s, n, k[n])
           S == {n \in Nat : n <= Len(s) => Good(n)}
<1>2. 0 \in S
  <2>1. Len(k[0]) = 0
    BY <1>1
  <2> QED BY <2>1 DEF Covers, Embedded
<1>3. ASSUME NEW n \in Nat, n \in S PROVE n + 1 \in S
  <2> SUFFICES ASSUME n + 1 <= Len(s) PROVE Good(n + 1)
    OBVIOUS
  <2>1. n + 1 \in 1 .. Len(s) /\ n \in 0 .. Len(s) /\ (n + 1) - 1 = n /\ Good(n)
    BY <1>3
  <2>2. k[n + 1] = IF s[n + 1] \in T THEN Append(k[n], s[n + 1]) ELSE k[n]
    BY <1>1, <2>1
  <2>3. k[n] \in Seq(A \cap T) /\ s[n + 1] \in A
    BY <1>1, <2>1
  <2> DEFINE t == k[n]
             u == k[n + 1]
             x == s[n + 1]
  <2>4. CASE x \notin T
    <3>1. u = t
      BY <2>2, <2>4
    <3>2. Covers(s, n + 1, T, t)
      BY <2>1, <2>4 DEF Covers
    <3>3. Embedded(s, n + 1, t)
      BY <2>1 DEF Embedded
    <3> QED BY <2>1, <2>3, <3>1, <3>2, <3>3
  <2>5. CASE x \in T
    <3>1. u = Append(t, x) /\ x \in A \cap T
      BY <2>2, <2>3, <2>5
    <3> HIDE DEF u, t, x
    <3>2. Len(u) = Len(t) + 1 /\ u[Len(t) + 1] = x /\ (\A i \in 1 .. Len(t) : u[i] = t[i]) /\ Len(t) \in Nat
      BY <2>3, <3>1 DEF t
    <3>3. Covers(s, n, T, t) /\ Embedded(s, n, t) /\ Len(t) <= n
      BY <2>1 DEF t
    <3>4. Covers(s, n + 1, T, u)
      <4>1. ASSUME NEW i \in 1 .. Len(u) PROVE \E a \in 1 .. n + 1 : s[a] = u[i]
        <5>1. CASE i = Len(t) + 1
          <6>1. n + 1 \in 1 .. n + 1 /\ s[n + 1] = u[i]
            BY <3>2, <5>1 DEF x
          <6> QED BY <6>1
        <5>2. CASE i # Len(t) + 1
          <6>1. i \in 1 .. Len(t) /\ u[i] = t[i]
            BY <3>2, <5>2
          <6>2. PICK a \in 1 .. n : s[a] = t[i]
            BY <3>3, <6>1 DEF Covers
          <6> QED BY <6>1, <6>2
        <5> QED BY <5>1, <5>2
      <4>2. ASSUME NEW a \in 1 .. n + 1, s[a] \in T PROVE \E i \in 1 .. Len(u) : u[i] = s[a]
        <5>1. CASE a = n + 1
          <6>1. Len(t) + 1 \in 1 .. Len(u) /\ u[Len(t) + 1] = s[a]
            BY <3>2, <5>1 DEF x
          <6> QED BY <6>1
        <5>2. CASE a # n + 1
          <6>1. PICK i \in 1 .. Len(t) : t[i] = s[a]
            BY <3>3, <4>2, <5>2 DEF Covers
          <6>2. i \in 1 .. Len(u) /\ u[i] = s[a]
            BY <3>2, <6>1
          <6> QED BY <6>2
        <5> QED BY <5>1, <5>2
      <4> QED BY <4>1, <4>2 DEF Covers
    <3>5. Embedded(s, n + 1, u)
      <4> SUFFICES ASSUME NEW i \in 1 .. Len(u), NEW j \in 1 .. Len(u), i < j
                   PROVE  \E a, b \in 1 .. n + 1 : a < b /\ s[a] = u[i] /\ s[b] = u[j]
        BY DEF Embedded
      <4>1. i \in 1 .. Len(t) /\ u[i] = t[i]
        BY <3>2
      <4>2. CASE j = Len(t) + 1
        <5>1. PICK a \in 1 .. n : s[a] = t[i]
          BY <3>3, <4>1 DEF Covers
        <5>2. a \in 1 .. n + 1 /\ n + 1 \in 1 .. n + 1 /\ a < n + 1 /\ s[a] = u[i] /\ s[n + 1] = u[j]
          BY <3>2, <4>1, <4>2, <5>1 DEF x
        <5> QED BY <5>2
      <4>3. CASE j # Len(t) + 1
        <5>1. j \in 1 .. Len(t) /\ u[j] = t[j]
          BY <3>2, <4>3
        <5>2. \E a, b \in 1 .. n : a < b /\ s[a] = t[i] /\ s[b] = t[j]
          BY <3>3, <4>1, <5>1 DEF Embedded
        <5> QED BY <4>1, <5>1, <5>2
      <4> QED BY <4>2, <4>3
    <3> QED BY <3>2, <3>3, <3>4, <3>5 DEF u
  <2> QED BY <2>4, <2>5
<1>4. Nat \subseteq S
  <2> HIDE DEF S
  <2> QED BY <1>2, <1>3, Successors
<1>5. Len(s) \in Nat
  OBVIOUS
<1>6. Good(Len(s))
  BY <1>4, <1>5
<1> QED BY <1>1, <1>5, <1>6

\* Increasing numbers stay increasing.
Increasing(s) == \A i, j \in 1 .. Len(s) : i < j => s[i] < s[j]

\* Kept of increasing numbers increases.
LEMMA KeptIncreases ==
  ASSUME NEW A \in SUBSET Int, NEW s \in Seq(A), NEW T, Increasing(s)
  PROVE  Increasing(Kept(s, T))
<1>1. Embedded(s, Len(s), Kept(s, T))
  BY KeptFacts
<1> QED BY <1>1 DEF Embedded, Increasing

\* What Kept keeps, as a set.
LEMMA KeptRange ==
  ASSUME NEW A, NEW s \in Seq(A), NEW T
  PROVE  Range(Kept(s, T)) = Range(s) \cap T
<1>1. Kept(s, T) \in Seq(A \cap T) /\ Covers(s, Len(s), T, Kept(s, T))
  BY KeptFacts
<1> DEFINE t == Kept(s, T)
<1>2. DOMAIN s = 1 .. Len(s) /\ DOMAIN t = 1 .. Len(t) /\ \A i \in 1 .. Len(t) : t[i] \in T
  BY <1>1
<1>3. Range(s) = {s[a] : a \in 1 .. Len(s)} /\ Range(t) = {t[i] : i \in 1 .. Len(t)}
  BY <1>2 DEF Range
<1>4. Covers(s, Len(s), T, t)
  BY <1>1
<1> HIDE DEF t
<1>5. ASSUME NEW i \in 1 .. Len(t) PROVE t[i] \in Range(s) \cap T
  <2>1. PICK a \in 1 .. Len(s) : s[a] = t[i]
    BY <1>4 DEF Covers
  <2> QED BY <2>1, <1>2, <1>3
<1>6. ASSUME NEW a \in 1 .. Len(s), s[a] \in T PROVE s[a] \in Range(t)
  <2>1. PICK i \in 1 .. Len(t) : t[i] = s[a]
    BY <1>4, <1>6 DEF Covers
  <2> QED BY <2>1, <1>3
<1>7. Range(t) = Range(s) \cap T
  BY <1>3, <1>5, <1>6
<1> QED BY <1>7 DEF t

-----------------------------------------------------------------------------
(* Sums and sequences one behind the other *)

\* g are the sums of the first numbers of s.
SumsBy(s, g) == g[0] = 0 /\ \A n \in 1 .. Len(s) : g[n] = g[n - 1] + s[n]

\* Sums adds one number after the other.
LEMMA SumsSteps ==
  ASSUME NEW s \in Seq(Int)
  PROVE  Sums(s) \in [0 .. Len(s) -> Int] /\ SumsBy(s, Sums(s))
<1> DEFINE top == Len(s)
           F == [p \in (1 .. top) \X Int |-> p[2] + s[p[1]]]
           Eq(g) == g = [n \in 0 .. top |-> IF n = 0 THEN 0 ELSE g[n - 1] + s[n]]
<1>1. top \in Nat /\ 0 \in Int /\ \A n \in 1 .. top : s[n] \in Int
  OBVIOUS
<1>2. F \in [(1 .. top) \X Int -> Int]
  BY <1>1
<1>3. PICK g \in [0 .. top -> Int] : Recursive(top, 0, F, g)
  <2> HIDE DEF F, top
  <2> QED BY <1>1, <1>2, Recursion, Zenon
<1>4. g[0] = 0 /\ \A n \in 1 .. top : g[n] = g[n - 1] + s[n]
  <2>1. g[0] = 0
    BY <1>3 DEF Recursive
  <2>2. ASSUME NEW n \in 1 .. top PROVE g[n] = g[n - 1] + s[n]
    <3>1. g[n - 1] \in Int /\ g[n] = F[<<n, g[n - 1]>>]
      <4>1. n - 1 \in 0 .. top
        BY <1>1
      <4> HIDE DEF F, top
      <4>2. g[n] = F[<<n, g[n - 1]>>]
        BY <1>3, Zenon DEF Recursive
      <4> QED BY <4>1, <4>2
    <3>2. F[<<n, g[n - 1]>>] = g[n - 1] + s[n]
      BY <3>1
    <3> QED BY <3>1, <3>2
  <2> QED BY <2>1, <2>2
<1>5. Eq(g)
  <2> HIDE DEF F
  <2> QED BY <1>1, <1>4
<1>6. Sums(s) = CHOOSE h : Eq(h)
  BY Zenon DEF Sums
<1> DEFINE k == CHOOSE h : Eq(h)
<1>7. Eq(k)
  <2> HIDE DEF Eq
  <2> QED BY <1>5, Zenon
<1> HIDE DEF k
<1>8. k[0] = 0 /\ \A n \in 1 .. top : k[n] = k[n - 1] + s[n]
  <2> DEFINE Step(n, x) == x + s[n]
  <2>1. 0 \in 0 .. top /\ \A n \in 1 .. top : n \in 0 .. top /\ n # 0
    BY <1>1
  <2>2. k = [n \in 0 .. top |-> IF n = 0 THEN 0 ELSE Step(n, k[n - 1])]
    BY <1>7, Zenon
  <2> HIDE DEF Step
  <2>3. k[0] = 0 /\ \A n \in 1 .. top : k[n] = Step(n, k[n - 1])
    BY <2>1, <2>2
  <2> QED BY <2>3 DEF Step
<1>9. Nat \subseteq {n \in Nat : n <= top => k[n] \in Int}
  <2> DEFINE Typed == {n \in Nat : n <= top => k[n] \in Int}
  <2>1. 0 \in Typed
    BY <1>8
  <2>2. ASSUME NEW n \in Nat, n \in Typed PROVE n + 1 \in Typed
    <3> SUFFICES ASSUME n + 1 <= top PROVE k[n + 1] \in Int
      OBVIOUS
    <3>1. n + 1 \in 1 .. top /\ k[n] \in Int /\ k[n + 1] = k[(n + 1) - 1] + s[n + 1] /\ (n + 1) - 1 = n
      BY <1>1, <1>8, <2>2
    <3> QED BY <1>1, <3>1
  <2>3. Nat \subseteq Typed
    <3> HIDE DEF Typed
    <3> QED BY <2>1, <2>2, Successors
  <2> QED BY <2>3
<1>10. k \in [0 .. top -> Int]
  <2>1. \A n \in 0 .. top : k[n] \in Int
    BY <1>1, <1>9
  <2>2. k = [n \in 0 .. top |-> k[n]]
    BY <1>7
  <2> HIDE DEF top
  <2> QED BY <2>1, <2>2
<1>11. Sums(s) = k
  BY <1>6 DEF k
<1> QED BY <1>8, <1>10, <1>11 DEF SumsBy

\* Sums of natural numbers do not get smaller.
LEMMA SumsGrow ==
  ASSUME NEW s \in Seq(Nat)
  PROVE  /\ Sums(s) \in [0 .. Len(s) -> Nat]
         /\ \A m \in 0 .. Len(s), n \in 0 .. Len(s) : m <= n => Sums(s)[m] <= Sums(s)[n]
<1> DEFINE g == Sums(s)
<1>1. s \in Seq(Int) /\ Len(s) \in Nat /\ \A n \in 1 .. Len(s) : s[n] \in Nat
  OBVIOUS
<1>2. g \in [0 .. Len(s) -> Int] /\ g[0] = 0 /\ \A n \in 1 .. Len(s) : g[n] = g[n - 1] + s[n]
  BY <1>1, SumsSteps DEF SumsBy
<1> HIDE DEF g
<1>3. ASSUME NEW m \in 0 .. Len(s) PROVE Nat \subseteq {k \in Nat : m + k <= Len(s) => g[m] <= g[m + k]}
  <2> DEFINE S == {k \in Nat : m + k <= Len(s) => g[m] <= g[m + k]}
  <2>1. 0 \in S
    <3>1. m + 0 = m /\ g[m] \in Int /\ m <= Len(s)
      BY <1>1, <1>2
    <3> QED BY <3>1
  <2>2. ASSUME NEW k \in Nat, k \in S PROVE k + 1 \in S
    <3> SUFFICES ASSUME m + (k + 1) <= Len(s) PROVE g[m] <= g[m + (k + 1)]
      OBVIOUS
    <3>1. m + (k + 1) \in 1 .. Len(s) /\ m + k \in 0 .. Len(s) /\ (m + (k + 1)) - 1 = m + k /\ g[m] <= g[m + k]
      BY <1>1, <2>2
    <3>2. g[m + (k + 1)] = g[m + k] + s[m + (k + 1)]
      BY <1>2, <3>1
    <3>3. s[m + (k + 1)] \in Nat /\ g[m + k] \in Int /\ g[m] \in Int
      BY <1>1, <1>2, <3>1
    <3> QED BY <3>1, <3>2, <3>3
  <2>3. Nat \subseteq S
    <3> HIDE DEF S
    <3> QED BY <2>1, <2>2, Successors
  <2> QED BY <2>3
<1>4. ASSUME NEW m \in 0 .. Len(s), NEW n \in 0 .. Len(s), m <= n PROVE g[m] <= g[n]
  <2>1. n - m \in Nat /\ m + (n - m) = n /\ n <= Len(s)
    BY <1>1, <1>4
  <2> QED BY <1>3, <2>1
<1>5. \A n \in 0 .. Len(s) : g[n] \in Nat
  <2> TAKE n \in 0 .. Len(s)
  <2>1. 0 \in 0 .. Len(s) /\ 0 <= n
    BY <1>1
  <2>2. g[0] <= g[n]
    BY <1>4, <2>1
  <2> QED BY <1>2, <2>2
<1>6. g \in [0 .. Len(s) -> Nat]
  BY <1>2, <1>5
<1> QED BY <1>4, <1>6 DEF g

\* What is in t followed by x, and where.
LEMMA Concatenation ==
  ASSUME NEW A, NEW t \in Seq(A), NEW x \in Seq(A)
  PROVE  /\ t \o x \in Seq(A) /\ Len(t \o x) = Len(t) + Len(x)
         /\ \A i \in 1 .. Len(t) : (t \o x)[i] = t[i]
         /\ \A k \in 1 .. Len(x) : (t \o x)[Len(t) + k] = x[k]
OBVIOUS

\* g[n] is the first n sequences of ss one behind the other.
JoinedBy(ss, g) ==
  /\ Joined(ss) = g[Len(ss)]
  /\ g[0] = <<>>
  /\ \A n \in 1 .. Len(ss) : g[n] = g[n - 1] \o ss[n]

\* Joined appends one sequence after the other.
LEMMA JoinedSteps ==
  ASSUME NEW A, NEW ss \in Seq(Seq(A))
  PROVE  \E g \in [0 .. Len(ss) -> Seq(A)] : JoinedBy(ss, g)
<1> DEFINE top == Len(ss)
           S == Seq(A)
           Step(n, x) == x \o ss[n]
           F == [p \in (1 .. top) \X S |-> Step(p[1], p[2])]
           Eq(g) == g = [n \in 0 .. top |-> IF n = 0 THEN <<>> ELSE Step(n, g[n - 1])]
<1>1. top \in Nat /\ <<>> \in S /\ \A n \in 1 .. top : ss[n] \in S
  OBVIOUS
<1>2. F \in [(1 .. top) \X S -> S]
  <2>1. ASSUME NEW n \in 1 .. top, NEW x \in S PROVE Step(n, x) \in S
    BY <1>1, Concatenation
  <2> HIDE DEF Step, S
  <2> QED BY <2>1
<1>3. PICK g \in [0 .. top -> S] : Recursive(top, <<>>, F, g)
  <2> HIDE DEF F, S, top
  <2> QED BY <1>1, <1>2, Recursion, Zenon
<1>4. g[0] = <<>> /\ \A n \in 1 .. top : g[n] = Step(n, g[n - 1])
  <2>1. g[0] = <<>>
    BY <1>3 DEF Recursive
  <2>2. ASSUME NEW n \in 1 .. top PROVE g[n] = Step(n, g[n - 1])
    <3>1. g[n - 1] \in S /\ g[n] = F[<<n, g[n - 1]>>]
      <4>1. n - 1 \in 0 .. top
        BY <1>1
      <4> HIDE DEF F, top, S
      <4>2. g[n] = F[<<n, g[n - 1]>>]
        BY <1>3, Zenon DEF Recursive
      <4> QED BY <4>1, <4>2
    <3>2. F[<<n, g[n - 1]>>] = Step(n, g[n - 1])
      <4> HIDE DEF Step, S
      <4> QED BY <3>1
    <3> QED BY <3>1, <3>2
  <2> QED BY <2>1, <2>2
<1>5. Eq(g)
  <2> HIDE DEF Step, S, F
  <2> QED BY <1>1, <1>4
<1>6. Joined(ss) = (CHOOSE h : Eq(h))[top]
  BY Zenon DEF Joined
<1> DEFINE k == CHOOSE h : Eq(h)
<1>7. Eq(k)
  <2> HIDE DEF Eq
  <2> QED BY <1>5, Zenon
<1> HIDE DEF k
<1>8. k[0] = <<>> /\ \A n \in 1 .. top : k[n] = Step(n, k[n - 1])
  <2> HIDE DEF Step
  <2>1. 0 \in 0 .. top /\ \A n \in 1 .. top : n \in 0 .. top /\ n # 0
    BY <1>1
  <2> QED BY <2>1, <1>7
<1>9. Nat \subseteq {n \in Nat : n <= top => k[n] \in S}
  <2> DEFINE Typed == {n \in Nat : n <= top => k[n] \in S}
  <2>1. 0 \in Typed
    BY <1>1, <1>8
  <2>2. ASSUME NEW n \in Nat, n \in Typed PROVE n + 1 \in Typed
    <3> SUFFICES ASSUME n + 1 <= top PROVE k[n + 1] \in S
      OBVIOUS
    <3>1. n + 1 \in 1 .. top /\ k[n] \in S /\ k[n + 1] = Step(n + 1, k[n])
      <4>1. n + 1 \in 1 .. top /\ k[n] \in S /\ (n + 1) - 1 = n
        BY <1>1, <2>2
      <4> HIDE DEF Step
      <4> QED BY <4>1, <1>8
    <3>2. F[<<n + 1, k[n]>>] = Step(n + 1, k[n]) /\ F[<<n + 1, k[n]>>] \in S
      <4> HIDE DEF Step, S
      <4> QED BY <3>1, <1>2
    <3> QED BY <3>1, <3>2
  <2>3. Nat \subseteq Typed
    <3> HIDE DEF Typed
    <3> QED BY <2>1, <2>2, Successors
  <2> QED BY <2>3
<1>10. k \in [0 .. top -> S]
  <2>1. \A n \in 0 .. top : k[n] \in S
    BY <1>1, <1>9
  <2>2. k = [n \in 0 .. top |-> k[n]]
    <3> HIDE DEF Step
    <3> QED BY <1>7
  <2> HIDE DEF S, top
  <2> QED BY <2>1, <2>2
<1>11. Joined(ss) = k[top]
  BY <1>6 DEF k
<1>12. JoinedBy(ss, k)
  BY <1>8, <1>11 DEF JoinedBy
<1> QED BY <1>10, <1>12

\* t is the first n sequences of ss: one begins where the lengths before it end.
Tiled(ss, n, t) ==
  LET ends == Sums(LengthsOf(ss))
  IN  /\ Len(t) = ends[n]
      /\ \A l \in 1 .. n : \A k \in 1 .. Len(ss[l]) : t[ends[l - 1] + k] = ss[l][k]
      /\ \A i \in 1 .. Len(t) : \E l \in 1 .. n : i \in ends[l - 1] + 1 .. ends[l]

\* Joined lays the sequences out without gaps.
LEMMA JoinedFacts ==
  ASSUME NEW A, NEW ss \in Seq(Seq(A))
  PROVE  Joined(ss) \in Seq(A) /\ Tiled(ss, Len(ss), Joined(ss))
<1>0. PICK g \in [0 .. Len(ss) -> Seq(A)] : JoinedBy(ss, g)
  BY JoinedSteps, Zenon
<1>1. /\ Joined(ss) = g[Len(ss)]
      /\ g[0] = <<>>
      /\ \A n \in 1 .. Len(ss) : g[n] = g[n - 1] \o ss[n]
  BY <1>0 DEF JoinedBy
<1> DEFINE lens == LengthsOf(ss)
           ends == Sums(lens)
<1>2. Len(ss) \in Nat /\ \A l \in 1 .. Len(ss) : ss[l] \in Seq(A) /\ Len(ss[l]) \in Nat
  OBVIOUS
<1>3. lens \in Seq(Nat) /\ lens \in Seq(Int) /\ Len(lens) = Len(ss) /\ \A l \in 1 .. Len(ss) : lens[l] = Len(ss[l])
  BY <1>2 DEF LengthsOf
<1> HIDE DEF lens
<1>4. /\ ends \in [0 .. Len(ss) -> Nat]
      /\ \A m \in 0 .. Len(ss), n \in 0 .. Len(ss) : m <= n => ends[m] <= ends[n]
  BY <1>3, SumsGrow
<1>5. ends[0] = 0 /\ \A n \in 1 .. Len(ss) : ends[n] = ends[n - 1] + Len(ss[n])
  BY <1>3, SumsSteps DEF SumsBy
<1> HIDE DEF ends
<1> DEFINE Good(n) ==
             /\ Len(g[n]) = ends[n]
             /\ \A l \in 1 .. n : \A k \in 1 .. Len(ss[l]) : g[n][ends[l - 1] + k] = ss[l][k]
             /\ \A i \in 1 .. Len(g[n]) : \E l \in 1 .. n : i \in ends[l - 1] + 1 .. ends[l]
           S == {n \in Nat : n <= Len(ss) => Good(n)}
<1>6. 0 \in S
  BY <1>1, <1>5
<1>7. ASSUME NEW n \in Nat, n \in S PROVE n + 1 \in S
  <2> SUFFICES ASSUME n + 1 <= Len(ss) PROVE Good(n + 1)
    OBVIOUS
  <2>1. n + 1 \in 1 .. Len(ss) /\ n \in 0 .. Len(ss) /\ (n + 1) - 1 = n /\ Good(n)
    <3>1. n <= Len(ss) /\ n + 1 \in 1 .. Len(ss) /\ n \in 0 .. Len(ss) /\ (n + 1) - 1 = n
      BY <1>2
    <3> HIDE DEF Good
    <3> QED BY <1>7, <3>1
  <2> DEFINE t == g[n]
             u == g[n + 1]
             x == ss[n + 1]
  <2>2. t \in Seq(A) /\ x \in Seq(A) /\ u = t \o x
    <3>1. t \in Seq(A) /\ x \in Seq(A)
      BY <1>2, <2>1
    <3>2. g[n + 1] = g[(n + 1) - 1] \o ss[n + 1]
      BY <1>1, <2>1, Zenon
    <3> QED BY <2>1, <3>1, <3>2, Zenon
  <2>9. /\ u \in Seq(A) /\ Len(u) = Len(t) + Len(x)
        /\ \A i \in 1 .. Len(t) : u[i] = t[i]
        /\ \A k \in 1 .. Len(x) : u[Len(t) + k] = x[k]
    <3> HIDE DEF t, u, x
    <3> QED BY <2>2, Concatenation
  <2>3. /\ Len(t) = ends[n]
        /\ \A l \in 1 .. n : \A k \in 1 .. Len(ss[l]) : t[ends[l - 1] + k] = ss[l][k]
        /\ \A i \in 1 .. Len(t) : \E l \in 1 .. n : i \in ends[l - 1] + 1 .. ends[l]
    BY <2>1
  <2>4. ends[n + 1] = ends[n] + Len(x) /\ ends[n] \in Nat /\ Len(x) \in Nat
    BY <1>4, <1>5, <2>1, <1>2
  <2>5. n + 1 \in 1 .. Len(ss) /\ n \in 0 .. Len(ss) /\ (n + 1) - 1 = n
    BY <2>1
  <2> HIDE DEF t, u, x, Good, S
  <2>6. Len(u) = ends[n + 1]
    BY <2>9, <2>3, <2>4
  <2>7. ASSUME NEW l \in 1 .. n + 1, NEW k \in 1 .. Len(ss[l]) PROVE u[ends[l - 1] + k] = ss[l][k]
    <3>1. CASE l = n + 1
      <4>1. u[Len(t) + k] = x[k] /\ x = ss[l]
        BY <2>9, <3>1 DEF x
      <4> QED BY <4>1, <3>1, <2>3, <2>5
    <3>2. CASE l # n + 1
      <4>1. l \in 1 .. n /\ l \in 1 .. Len(ss) /\ l - 1 \in 0 .. Len(ss) /\ l \in 0 .. Len(ss) /\ l <= n
        BY <2>5, <3>2
      <4>2. ends[l] = ends[l - 1] + Len(ss[l]) /\ ends[l] <= ends[n] /\ ends[l - 1] \in Nat /\ Len(ss[l]) \in Nat /\ ends[l] \in Nat
        BY <1>4, <1>5, <1>2, <4>1, <2>5
      <4>3. ends[l - 1] + k \in 1 .. Len(t)
        <5> DEFINE e == ends[l - 1]
        <5>1. e \in Nat /\ k \in Nat /\ 1 <= k /\ k <= Len(ss[l]) /\ e + Len(ss[l]) <= ends[n] /\ Len(t) = ends[n]
          BY <4>2, <2>3
        <5>2. Len(ss[l]) \in Nat /\ ends[n] \in Nat
          BY <4>2, <2>4
        <5> HIDE DEF e
        <5>3. e + k \in 1 .. Len(t)
          BY <5>1, <5>2
        <5> QED BY <5>3 DEF e
      <4>4. u[ends[l - 1] + k] = t[ends[l - 1] + k]
        BY <4>3, <2>9
      <4> QED BY <4>4, <4>1, <2>3
    <3> QED BY <3>1, <3>2
  <2>8. ASSUME NEW i \in 1 .. Len(u) PROVE \E l \in 1 .. n + 1 : i \in ends[l - 1] + 1 .. ends[l]
    <3>1. CASE i <= Len(t)
      <4>1. i \in 1 .. Len(t)
        BY <3>1, <2>2, <2>4, <2>3
      <4>2. PICK l \in 1 .. n : i \in ends[l - 1] + 1 .. ends[l]
        BY <4>1, <2>3
      <4> QED BY <4>2
    <3>2. CASE ~ (i <= Len(t))
      <4>1. i \in ends[n] + 1 .. ends[n + 1]
        BY <3>2, <2>6, <2>3, <2>4, <2>9
      <4>2. n + 1 \in 1 .. n + 1 /\ i \in ends[(n + 1) - 1] + 1 .. ends[n + 1]
        BY <4>1, <2>5
      <4> QED BY <4>2
    <3> QED BY <3>1, <3>2
  <2> QED BY <2>6, <2>7, <2>8 DEF Good, u
<1>8. Nat \subseteq S
  <2> HIDE DEF S
  <2> QED BY <1>6, <1>7, Successors
<1>9. Good(Len(ss))
  <2>1. Len(ss) \in S
    BY <1>8, <1>2
  <2> HIDE DEF Good
  <2> QED BY <2>1
<1>10. Tiled(ss, Len(ss), g[Len(ss)])
  BY <1>9 DEF Tiled, ends, lens
<1>11. g[Len(ss)] \in Seq(A)
  BY <1>2
<1> QED BY <1>1, <1>10, <1>11

-----------------------------------------------------------------------------
(* Columns, vectors and exceptions *)

\* A row that is not null is stored as it is; a null is stored as some such row
\* before it, or as init.
LEMMA StoredAtIs ==
  ASSUME NEW A, NEW rows \in Seq(A), NEW null, NEW init, NEW i \in 1 .. Len(rows)
  PROVE  /\ StoredAt(rows, null, init, i) \in {init} \cup (A \ {null})
         /\ rows[i] # null => StoredAt(rows, null, init, i) = rows[i]
<1> DEFINE live == {j \in 1 .. i : rows[j] # null}
<1>1. Len(rows) \in Nat /\ \A j \in 1 .. i : j \in Int /\ rows[j] \in A
  OBVIOUS
<1>2. live \subseteq Int /\ IsFiniteSet(live)
  <2>1. IsFiniteSet(1 .. i) /\ live \in SUBSET (1 .. i)
    BY FS_Interval
  <2>2. IsFiniteSet(live)
    BY <2>1, FS_Subset
  <2> QED BY <2>2, <1>1
<1>3. StoredAt(rows, null, init, i) = IF live = {} THEN init ELSE rows[Max(live)]
  BY Zenon DEF StoredAt
<1>4. CASE live = {}
  <2>1. ~ (rows[i] # null)
    <3>1. i \in 1 .. i
      OBVIOUS
    <3> QED BY <3>1, <1>4
  <2> QED BY <1>3, <1>4, <2>1
<1>5. CASE live # {}
  <2>1. Max(live) \in live /\ \A y \in live : y <= Max(live)
    <3> HIDE DEF live
    <3> QED BY <1>2, <1>5, MaxIs
  <2>2. rows[Max(live)] \in A \ {null}
    BY <2>1, <1>1
  <2>3. rows[i] # null => Max(live) = i
    <3> SUFFICES ASSUME rows[i] # null PROVE Max(live) = i
      OBVIOUS
    <3>1. i \in live
      OBVIOUS
    <3>2. i <= Max(live) /\ Max(live) \in 1 .. i
      BY <2>1, <3>1
    <3> QED BY <3>2
  <2> HIDE DEF live
  <2> QED BY <1>3, <1>5, <2>2, <2>3
<1> QED BY <1>4, <1>5

\* d are whole vectors, with every row that is not null among them.
IsStored(d, A, rows, null, init, size) ==
  /\ d \in Seq({init} \cup (A \ {null}))
  /\ Len(d) = size * ((Len(rows) + size - 1) \div size)
  /\ Len(d) >= Len(rows)
  /\ \A i \in 1 .. Len(rows) : rows[i] # null => d[i] = rows[i]

\* A column is stored so.
LEMMA StoredAsIs ==
  ASSUME NEW A, NEW rows \in Seq(A), rows # <<>>, NEW null, NEW init, NEW size \in Nat \ {0}
  PROVE  IsStored(StoredAs(rows, null, init, size), A, rows, null, init, size)
<1> DEFINE n == Len(rows)
           q == (n + size - 1) \div size
           d == StoredAs(rows, null, init, size)
           B == {init} \cup (A \ {null})
<1>1. n \in Nat /\ n > 0
  OBVIOUS
<1>2. q \in Nat /\ size * q \in Nat /\ size * q >= n
  <2> HIDE DEF n
  <2>1. n + size - 1 \in Nat
    BY <1>1
  <2>2. n + size - 1 = size * q + ((n + size - 1) % size) /\ (n + size - 1) % size \in 0 .. size - 1 /\ q \in Nat
    BY <2>1, DivisionFacts
  <2> HIDE DEF q
  <2>3. size * q \in Nat
    BY <2>2, Z3
  <2> QED BY <1>1, <2>2, <2>3
<1>3. d = [i \in 1 .. size * q |-> StoredAt(rows, null, init, IF i <= n THEN i ELSE n)]
  BY Zenon DEF StoredAs
<1>4. \A i \in 1 .. size * q : (IF i <= n THEN i ELSE n) \in 1 .. n
  BY <1>1, <1>2
<1>5. \A i \in 1 .. n : StoredAt(rows, null, init, i) \in B /\ (rows[i] # null => StoredAt(rows, null, init, i) = rows[i])
  BY StoredAtIs
<1> DEFINE m == size * q
<1>6. m \in Nat /\ m >= n
  BY <1>2
<1>7. \A i \in 1 .. m : (IF i <= n THEN i ELSE n) \in 1 .. n
  BY <1>4
<1>8. d = [i \in 1 .. m |-> StoredAt(rows, null, init, IF i <= n THEN i ELSE n)]
  BY <1>3
<1> HIDE DEF m, q, n, d, B
<1>9. d \in [1 .. m -> B]
  BY <1>5, <1>7, <1>8
<1>10. d \in Seq(B) /\ Len(d) = m
  BY <1>6, <1>9
<1>11. ASSUME NEW i \in 1 .. n, rows[i] # null PROVE d[i] = rows[i]
  <2>1. i \in 1 .. m /\ i <= n
    BY <1>1, <1>6
  <2> QED BY <2>1, <1>5, <1>8, <1>11
<1>12. /\ d \in Seq(B) /\ Len(d) = size * ((n + size - 1) \div size) /\ Len(d) >= n
       /\ \A i \in 1 .. n : rows[i] # null => d[i] = rows[i]
  BY <1>6, <1>10, <1>11 DEF m, q
<1> QED BY <1>12 DEF n, d, B, IsStored

\* w is vector v of s.
CutOut(A, s, v, size, w) ==
  /\ w \in Seq(A) /\ Len(w) = size /\ DOMAIN w = 1 .. size
  /\ \A i \in 1 .. size : v * size + i \in 1 .. Len(s) /\ w[i] = s[v * size + i]

\* That is what VectorOf cuts out of whole vectors.
LEMMA VectorOfCuts ==
  ASSUME NEW A, NEW s \in Seq(A), NEW size \in Nat \ {0}, NEW n \in Nat, Len(s) = size * n,
         NEW v \in 0 .. n - 1
  PROVE  CutOut(A, s, v, size, VectorOf(s, v, size))
<1>1. ASSUME NEW i \in 1 .. size PROVE v * size + i \in 1 .. Len(s)
  <2> DEFINE a == v * size
             b == size * n
  <2>1. a \in Nat /\ b \in Nat /\ a + size <= b
    <3>1. v \in Nat /\ v + 1 <= n
      OBVIOUS
    <3>2. a \in Nat /\ b \in Nat
      BY <3>1, Z3
    <3>3. size * (v + 1) <= b
      BY <3>1, Z3
    <3>4. size * (v + 1) = a + size
      BY <3>1, Z3
    <3> QED BY <3>2, <3>3, <3>4
  <2>2. Len(s) = b
    OBVIOUS
  <2> HIDE DEF a, b
  <2>3. a + i \in 1 .. Len(s)
    BY <2>1, <2>2
  <2> QED BY <2>3 DEF a
<1>2. \A j \in 1 .. Len(s) : s[j] \in A
  OBVIOUS
<1>3. VectorOf(s, v, size) = [i \in 1 .. size |-> s[v * size + i]]
  BY DEF VectorOf
<1>4. ASSUME NEW i \in 1 .. size PROVE s[v * size + i] \in A
  BY <1>1, <1>2
<1> DEFINE w(i) == s[v * size + i]
<1>5. \A i \in 1 .. size : w(i) \in A
  BY <1>4
<1>6. VectorOf(s, v, size) = [i \in 1 .. size |-> w(i)]
  BY <1>3
<1> HIDE DEF w
<1>7. VectorOf(s, v, size) \in Seq(A) /\ Len(VectorOf(s, v, size)) = size
      /\ DOMAIN VectorOf(s, v, size) = 1 .. size
      /\ \A i \in 1 .. size : VectorOf(s, v, size)[i] = w(i)
  BY <1>5, <1>6
<1> QED BY <1>1, <1>7 DEF w, CutOut

\* The same, written out.
LEMMA VectorOfIs ==
  ASSUME NEW A, NEW s \in Seq(A), NEW size \in Nat \ {0}, NEW n \in Nat, Len(s) = size * n,
         NEW v \in 0 .. n - 1
  PROVE  /\ VectorOf(s, v, size) \in Seq(A)
         /\ Len(VectorOf(s, v, size)) = size
         /\ DOMAIN VectorOf(s, v, size) = 1 .. size
         /\ \A i \in 1 .. size : /\ v * size + i \in 1 .. Len(s)
                                 /\ VectorOf(s, v, size)[i] = s[v * size + i]
<1>1. CutOut(A, s, v, size, VectorOf(s, v, size))
  BY VectorOfCuts
<1> QED BY <1>1 DEF CutOut

\* A value that is patched is one of those for its position; the others stay.
LEMMA PatchedAtIs ==
  ASSUME NEW s, NEW B, NEW pos \in Seq(B), NEW vals, NEW i \in DOMAIN s
  PROVE  \/ /\ i - 1 \notin Range(pos)
            /\ PatchedAt(s, pos, vals)[i] = s[i]
         \/ \E k \in 1 .. Len(pos) : pos[k] = i - 1 /\ PatchedAt(s, pos, vals)[i] = vals[k]
<1> DEFINE at == {k \in DOMAIN pos : pos[k] = i - 1}
<1>1. PatchedAt(s, pos, vals)[i] = IF at = {} THEN s[i] ELSE vals[Max(at)]
  BY DEF PatchedAt
<1>2. DOMAIN pos = 1 .. Len(pos) /\ Len(pos) \in Nat
  OBVIOUS
<1>3. at \in SUBSET (1 .. Len(pos)) /\ IsFiniteSet(1 .. Len(pos))
  BY <1>2, FS_Interval
<1>4. IsFiniteSet(at) /\ at \subseteq Int
  BY <1>3, FS_Subset
<1>5. CASE at = {}
  <2>1. i - 1 \notin Range(pos)
    BY <1>5, Zenon DEF Range
  <2> QED BY <1>1, <1>5, <2>1
<1>6. CASE at # {}
  <2>1. Max(at) \in at
    <3> HIDE DEF at
    <3> QED BY <1>4, <1>6, MaxIs
  <2> DEFINE m == Max(at)
  <2>2. m \in 1 .. Len(pos) /\ pos[m] = i - 1 /\ PatchedAt(s, pos, vals)[i] = vals[m]
    BY <1>1, <1>2, <1>6, <2>1
  <2> HIDE DEF m
  <2> QED BY <2>2
<1> QED BY <1>5, <1>6

-----------------------------------------------------------------------------
(* Counting *)

\* Where f has one of some values.
Hits(f, X) == {k \in DOMAIN f : f[k] \in X}

\* Sets that have nothing in common are hit as often as both of them.
LEMMA HitsOfBoth ==
  ASSUME NEW f, IsFiniteSet(DOMAIN f), NEW X, NEW Y, X \cap Y = {}
  PROVE  /\ Cardinality(Hits(f, X)) \in Nat /\ Cardinality(Hits(f, Y)) \in Nat
         /\ Cardinality(Hits(f, X \cup Y)) = Cardinality(Hits(f, X)) + Cardinality(Hits(f, Y))
<1>1. Hits(f, X) \in SUBSET DOMAIN f /\ Hits(f, Y) \in SUBSET DOMAIN f
  BY DEF Hits
<1>2. IsFiniteSet(Hits(f, X)) /\ IsFiniteSet(Hits(f, Y))
  BY <1>1, FS_Subset
<1>3. Hits(f, X \cup Y) = Hits(f, X) \cup Hits(f, Y) /\ Hits(f, X) \cap Hits(f, Y) = {}
  BY DEF Hits
<1>4. /\ Cardinality(Hits(f, X)) \in Nat /\ Cardinality(Hits(f, Y)) \in Nat
      /\ Cardinality({}) = 0
  BY <1>2, FS_CardinalityType, FS_EmptySet
<1>5. Cardinality(Hits(f, X) \cup Hits(f, Y))
        = Cardinality(Hits(f, X)) + Cardinality(Hits(f, Y)) - Cardinality(Hits(f, X) \cap Hits(f, Y))
  BY <1>2, FS_Union
<1> DEFINE a == Cardinality(Hits(f, X))
           b == Cardinality(Hits(f, Y))
<1>6. a \in Nat /\ b \in Nat /\ Cardinality(Hits(f, X \cup Y)) = a + b - 0
  BY <1>3, <1>4, <1>5
<1> HIDE DEF a, b
<1>7. a + b - 0 = a + b
  BY <1>6
<1> QED BY <1>6, <1>7 DEF a, b

\* The values of X are each as frequent as those of Y.
AsFrequent(f, X, Y) ==
  \A x \in X, y \in Y : Cardinality(Hits(f, {x})) >= Cardinality(Hits(f, {y}))

\* If there are as many of them, X is hit as often.
LEMMA HitsCompared ==
  ASSUME NEW f, IsFiniteSet(DOMAIN f), NEW X, NEW Y, IsFiniteSet(X), IsFiniteSet(Y),
         Cardinality(X) = Cardinality(Y), AsFrequent(f, X, Y)
  PROVE  Cardinality(Hits(f, X)) >= Cardinality(Hits(f, Y))
<1> DEFINE U == SUBSET (X \cup Y)
           More(A, B) == Cardinality(Hits(f, A)) >= Cardinality(Hits(f, B))
           S == {n \in Nat : \A A \in SUBSET X, B \in SUBSET Y :
                   Cardinality(A) = n /\ Cardinality(B) = n => More(A, B)}
<1>1. \A A \in SUBSET X, B \in SUBSET Y : IsFiniteSet(A) /\ IsFiniteSet(B)
  BY FS_Subset
<1>2. 0 \in S
  <2> SUFFICES ASSUME NEW A \in SUBSET X, NEW B \in SUBSET Y, Cardinality(A) = 0, Cardinality(B) = 0
               PROVE  More(A, B)
    OBVIOUS
  <2>1. A = {} /\ B = {}
    BY <1>1, FS_EmptySet
  <2>2. Cardinality(Hits(f, {})) \in Nat
    BY HitsOfBoth
  <2> QED BY <2>1, <2>2
<1>3. ASSUME NEW n \in Nat, n \in S PROVE n + 1 \in S
  <2> SUFFICES ASSUME NEW A \in SUBSET X, NEW B \in SUBSET Y, Cardinality(A) = n + 1, Cardinality(B) = n + 1
               PROVE  More(A, B)
    OBVIOUS
  <2>1. A # {} /\ B # {}
    BY FS_EmptySet
  <2>2. PICK x \in A, y \in B : TRUE
    BY <2>1
  <2> DEFINE C == A \ {x}
             D == B \ {y}
  <2>3. C \in SUBSET X /\ D \in SUBSET Y /\ Cardinality(C) = n /\ Cardinality(D) = n
    <3>1. IsFiniteSet(A) /\ IsFiniteSet(B)
      BY <1>1
    <3>2. Cardinality(C) = Cardinality(A) - 1 /\ Cardinality(D) = Cardinality(B) - 1
      BY <2>2, <3>1, FS_RemoveElement
    <3>3. C \in SUBSET X /\ D \in SUBSET Y
      OBVIOUS
    <3> HIDE DEF C, D
    <3> QED BY <3>2, <3>3
  <2>4. More(C, D)
    BY <1>3, <2>3
  <2>5. A = C \cup {x} /\ B = D \cup {y} /\ C \cap {x} = {} /\ D \cap {y} = {}
    BY <2>2
  <2>6. Cardinality(Hits(f, {x})) >= Cardinality(Hits(f, {y}))
    BY <2>2 DEF AsFrequent
  <2> HIDE DEF C, D
  <2> DEFINE c == Cardinality(Hits(f, C))
             d == Cardinality(Hits(f, D))
             i == Cardinality(Hits(f, {x}))
             j == Cardinality(Hits(f, {y}))
  <2>7. /\ c \in Nat /\ d \in Nat /\ i \in Nat /\ j \in Nat
        /\ Cardinality(Hits(f, C \cup {x})) = c + i /\ Cardinality(Hits(f, D \cup {y})) = d + j
    BY <2>5, HitsOfBoth
  <2>8. c >= d /\ i >= j
    BY <2>4, <2>6
  <2> HIDE DEF c, d, i, j
  <2>9. c + i >= d + j
    BY <2>7, <2>8
  <2> QED BY <2>5, <2>7, <2>9
<1>4. Nat \subseteq S
  <2> HIDE DEF S
  <2> QED BY <1>2, <1>3, Successors
<1>5. Cardinality(X) \in Nat
  BY FS_CardinalityType
<1> QED BY <1>4, <1>5

\* With the most frequent values, no fewer than those of Y, less is missed.
LEMMA MissedLess ==
  ASSUME NEW f, IsFiniteSet(DOMAIN f), NEW X, NEW Y, IsFiniteSet(X), IsFiniteSet(Y),
         Cardinality(X) = Cardinality(Y), AsFrequent(f, X, Y \ X)
  PROVE  /\ Cardinality({k \in DOMAIN f : f[k] \notin X}) \in Nat
         /\ Cardinality({k \in DOMAIN f : f[k] \notin Y}) \in Nat
         /\ Cardinality({k \in DOMAIN f : f[k] \notin X}) <= Cardinality({k \in DOMAIN f : f[k] \notin Y})
<1> DEFINE K == DOMAIN f
           Z == X \cap Y
           A == X \ Y
           B == Y \ X
           h(T) == Cardinality(Hits(f, T))
           m(T) == Cardinality({k \in K : f[k] \notin T})
<1>1. h(A) >= h(B)
  <2>1. IsFiniteSet(A) /\ IsFiniteSet(B) /\ Cardinality(A) = Cardinality(B)
    <3>1. /\ IsFiniteSet(A) /\ Cardinality(A) = Cardinality(X) - Cardinality(X \cap Y)
          /\ IsFiniteSet(B) /\ Cardinality(B) = Cardinality(Y) - Cardinality(Y \cap X)
      BY FS_Difference
    <3>2. X \cap Y = Y \cap X
      OBVIOUS
    <3> QED BY <3>1, <3>2
  <2>2. AsFrequent(f, A, B)
    BY DEF AsFrequent
  <2> HIDE DEF A, B
  <2> QED BY <2>1, <2>2, HitsCompared
<1>2. /\ h(X) = h(Z) + h(A) /\ h(Y) = h(Z) + h(B)
      /\ h(Z) \in Nat /\ h(A) \in Nat /\ h(B) \in Nat
  <2>1. X = Z \cup A /\ Y = Z \cup B /\ Z \cap A = {} /\ Z \cap B = {}
    OBVIOUS
  <2> HIDE DEF Z, A, B
  <2> QED BY <2>1, HitsOfBoth
<1>3. ASSUME NEW T PROVE m(T) = Cardinality(K) - h(T) /\ m(T) \in Nat
  <2>1. {k \in K : f[k] \notin T} = K \ Hits(f, T) /\ K \cap Hits(f, T) = Hits(f, T)
    BY DEF Hits
  <2>2. /\ IsFiniteSet(K \ Hits(f, T))
        /\ Cardinality(K \ Hits(f, T)) = Cardinality(K) - Cardinality(K \cap Hits(f, T))
    BY FS_Difference
  <2> QED BY <2>1, <2>2, FS_CardinalityType
<1>4. Cardinality(K) \in Nat
  BY FS_CardinalityType
<1>5. m(X) \in Nat /\ m(Y) \in Nat /\ m(X) = Cardinality(K) - h(X) /\ m(Y) = Cardinality(K) - h(Y)
  BY <1>3
<1> HIDE DEF m, h
<1>6. m(X) \in Nat /\ m(Y) \in Nat /\ m(X) <= m(Y)
  BY <1>1, <1>2, <1>4, <1>5
<1> QED BY <1>6 DEF m

-----------------------------------------------------------------------------
(* Bits *)

\* n is the least number of bits that a difference fits in.
LeastBits(delta, n) == delta < 2 ^ n /\ \A m \in Nat : delta < 2 ^ m => n <= m

\* The number of bits that count_bits counts is the least.
LEMMA BitsAre ==
  ASSUME NEW delta \in Nat, NEW w \in Nat, delta < 2 ^ w, NEW k,
         k = CHOOSE n \in 0 .. w : delta < 2 ^ n /\ (n = 0 \/ delta >= 2 ^ (n - 1))
  PROVE  k \in 0 .. w /\ LeastBits(delta, k)
<1> DEFINE Fits(n) == delta < 2 ^ n /\ (n = 0 \/ delta >= 2 ^ (n - 1))
<1> DEFINE S == {n \in Nat : delta < 2 ^ n}
<1>2. PICK n \in S : \A m \in S : n <= m
  <2>1. w \in S /\ S \in SUBSET Nat
    OBVIOUS
  <2> HIDE DEF S
  <2> QED BY <2>1, LeastElement
<1>3. n \in 0 .. w /\ delta < 2 ^ n
  BY <1>2
<1>4. ASSUME n # 0 PROVE delta >= 2 ^ (n - 1)
  <2>1. n - 1 \in Nat /\ ~ (n <= n - 1)
    BY <1>2, <1>4
  <2>2. ~ (delta < 2 ^ (n - 1))
    BY <1>2, <2>1
  <2>3. 2 ^ (n - 1) \in Nat
    BY <2>1, PowerPositive
  <2> QED BY <2>2, <2>3
<1>5. Fits(n)
  BY <1>3, <1>4
<1>6. k = CHOOSE x \in 0 .. w : Fits(x)
  BY Zenon
<1>7. k \in 0 .. w /\ Fits(k)
  <2> HIDE DEF Fits
  <2> QED BY <1>3, <1>5, <1>6, Zenon
<1>8. ASSUME NEW m \in Nat, delta < 2 ^ m PROVE k <= m
  <2> SUFFICES ASSUME m < k PROVE FALSE
    BY <1>7
  <2>1. \A j \in 0 .. w : m < j => j # 0 /\ j - 1 \in Nat /\ m <= j - 1
    OBVIOUS
  <2>2. k # 0 /\ k - 1 \in Nat /\ m <= k - 1
    BY <1>7, <2>1, Zenon
  <2>3. delta >= 2 ^ (k - 1)
    BY <1>7, <2>2
  <2>4. 2 ^ m <= 2 ^ (k - 1) /\ 2 ^ m \in Nat /\ 2 ^ (k - 1) \in Nat
    BY <2>2, PowersGrow, PowerPositive
  <2> QED BY <1>8, <2>3, <2>4
<1>9. LeastBits(delta, k)
  BY <1>7, <1>8 DEF LeastBits
<1> QED BY <1>7, <1>9

-----------------------------------------------------------------------------
(* Sequences of anything *)

\* A sequence, whatever its elements are.
Sequential(s) == Len(s) \in Nat /\ s = [k \in 1 .. Len(s) |-> s[k]]

\* One element more.
LEMMA OneLonger ==
  ASSUME NEW s, Sequential(s), NEW x
  PROVE  /\ Sequential(Append(s, x)) /\ Len(Append(s, x)) = Len(s) + 1
         /\ \A k \in 1 .. Len(s) : Append(s, x)[k] = s[k]
         /\ Append(s, x)[Len(s) + 1] = x
<1> DEFINE n == Len(s)
           A == {s[k] : k \in 1 .. n} \cup {x}
           t == Append(s, x)
<1>1. n \in Nat /\ s = [k \in 1 .. n |-> s[k]] /\ x \in A
  BY DEF Sequential
<1>2. s \in Seq(A)
  <2>1. \A k \in 1 .. n : s[k] \in A
    OBVIOUS
  <2> HIDE DEF A, n
  <2> QED BY <1>1, <2>1
<1> HIDE DEF A
<1>3. t \in Seq(A) /\ Len(t) = n + 1 /\ (\A k \in 1 .. n : t[k] = s[k]) /\ t[n + 1] = x
  BY <1>1, <1>2
<1> HIDE DEF t, n
<1>4. t = [k \in 1 .. Len(t) |-> t[k]] /\ Len(t) \in Nat
  BY <1>3
<1> QED BY <1>1, <1>3, <1>4 DEF Sequential, t, n

\* t is s with x behind it.
Behind(s, x, t) ==
  /\ Sequential(t) /\ Len(t) = Len(s) + Len(x)
  /\ \A k \in 1 .. Len(s) : t[k] = s[k]
  /\ \A k \in 1 .. Len(x) : t[Len(s) + k] = x[k]

\* Two sequences, one behind the other.
LEMMA OneBehind ==
  ASSUME NEW s, Sequential(s), NEW x, Sequential(x)
  PROVE  Behind(s, x, s \o x)
<1> DEFINE m == Len(s)
           n == Len(x)
           A == {s[k] : k \in 1 .. m} \cup {x[k] : k \in 1 .. n}
           t == s \o x
<1>1. m \in Nat /\ s = [k \in 1 .. m |-> s[k]] /\ n \in Nat /\ x = [k \in 1 .. n |-> x[k]]
  BY DEF Sequential
<1>2. s \in Seq(A) /\ x \in Seq(A)
  <2>1. \A k \in 1 .. m : s[k] \in A
    OBVIOUS
  <2>2. \A k \in 1 .. n : x[k] \in A
    OBVIOUS
  <2> HIDE DEF A, m, n
  <2> QED BY <1>1, <2>1, <2>2
<1> HIDE DEF A
<1>3. /\ t \in Seq(A) /\ Len(t) = m + n
      /\ (\A k \in 1 .. m : t[k] = s[k]) /\ (\A k \in 1 .. n : t[m + k] = x[k])
  BY <1>2, Concatenation
<1> HIDE DEF t, m, n
<1>4. t = [k \in 1 .. Len(t) |-> t[k]] /\ Len(t) \in Nat
  BY <1>3
<1> QED BY <1>1, <1>3, <1>4 DEF Behind, Sequential, t, m, n

\* A power divides the greater ones.
LEMMA PowersDivide ==
  \A m, n \in Nat : m <= n => \E k \in Nat : 2 ^ n = 2 ^ m * k
<1> TAKE m \in Nat
<1> DEFINE S == {d \in Nat : \E k \in Nat : 2 ^ (m + d) = 2 ^ m * k}
<1>1. 0 \in S
  <2>1. 2 ^ m \in Nat
    BY PowerPositive
  <2>2. 2 ^ (m + 0) = 2 ^ m * 1
    <3>1. m + 0 = m
      OBVIOUS
    <3>2. 2 ^ (m + 0) = 2 ^ m
      BY <3>1
    <3> QED BY <2>1, <3>2
  <2> QED BY <2>2
<1>2. ASSUME NEW d \in Nat, d \in S PROVE d + 1 \in S
  <2>1. PICK k \in Nat : 2 ^ (m + d) = 2 ^ m * k
    BY <1>2
  <2>2. 2 ^ ((m + d) + 1) = 2 * 2 ^ (m + d)
    BY PowerDoubles
  <2> DEFINE p == 2 ^ m
             q == 2 ^ (m + d)
             r == 2 ^ (m + (d + 1))
  <2>3. p \in Nat /\ q = p * k /\ r = 2 * q
    <3>1. (m + d) + 1 = m + (d + 1)
      OBVIOUS
    <3>2. 2 ^ (m + (d + 1)) = 2 * 2 ^ (m + d)
      BY <2>2, <3>1
    <3> QED BY <2>1, <3>2, PowerPositive
  <2> HIDE DEF p, q, r
  <2>4. r = p * (2 * k) /\ 2 * k \in Nat
    BY <2>3
  <2>5. \E j \in Nat : r = p * j
    BY <2>4
  <2> QED BY <2>5 DEF p, r
<1>3. Nat \subseteq S
  <2> HIDE DEF S
  <2> QED BY <1>1, <1>2, Successors
<1> TAKE n \in Nat
<1> SUFFICES ASSUME m <= n PROVE \E k \in Nat : 2 ^ n = 2 ^ m * k
  OBVIOUS
<1>4. n - m \in S
  <2>1. n - m \in Nat
    OBVIOUS
  <2> HIDE DEF S
  <2> QED BY <1>3, <2>1
<1>5. m + (n - m) = n
  OBVIOUS
<1>6. \E k \in Nat : 2 ^ (m + (n - m)) = 2 ^ m * k
  BY <1>4
<1> QED BY <1>5, <1>6

\* Increasing numbers are as many as they say.
LEMMA IncreasingCount ==
  ASSUME NEW s \in Seq(Int), Increasing(s)
  PROVE  IsFiniteSet(Range(s)) /\ Cardinality(Range(s)) = Len(s)
<1> DEFINE n == Len(s)
<1>1. n \in Nat /\ DOMAIN s = 1 .. n /\ \A i \in 1 .. n : s[i] \in Int
  OBVIOUS
<1>2. Range(s) = {s[i] : i \in 1 .. n} /\ IsFiniteSet(Range(s))
  BY RangeFinite
<1>3. s \in Bijection(1 .. n, Range(s))
  <2>1. s \in [1 .. n -> Range(s)]
    BY <1>1, <1>2
  <2>2. \A i, j \in 1 .. n : s[i] = s[j] => i = j
    <3> SUFFICES ASSUME NEW i \in 1 .. n, NEW j \in 1 .. n, s[i] = s[j], i < j \/ j < i PROVE FALSE
      BY <1>1
    <3>1. s[i] < s[j] \/ s[j] < s[i]
      BY DEF Increasing
    <3> QED BY <1>1, <3>1
  <2>3. \A y \in Range(s) : \E i \in 1 .. n : s[i] = y
    BY <1>2
  <2> HIDE DEF n
  <2>4. s \in Injection(1 .. n, Range(s))
    BY <2>1, <2>2, Zenon DEF Injection, IsInjective
  <2>5. s \in Surjection(1 .. n, Range(s))
    BY <2>1, <2>3, Zenon DEF Surjection
  <2> QED BY <2>4, <2>5, Zenon DEF Bijection
<1>4. ExistsBijection(1 .. n, Range(s))
  BY <1>3 DEF ExistsBijection
<1> QED BY <1>1, <1>2, <1>4, FS_CountingElements

\* There is one way to put numbers in order.
LEMMA IncreasingUnique ==
  ASSUME NEW s \in Seq(Int), NEW t \in Seq(Int), Increasing(s), Increasing(t), Range(s) = Range(t)
  PROVE  s = t
<1> DEFINE m == Len(s)
           n == Len(t)
<1>1. /\ m \in Nat /\ n \in Nat /\ DOMAIN s = 1 .. m /\ DOMAIN t = 1 .. n
      /\ (\A i \in 1 .. m : s[i] \in Int) /\ (\A i \in 1 .. n : t[i] \in Int)
  OBVIOUS
<1>2. Range(s) = {s[i] : i \in 1 .. m} /\ Range(t) = {t[i] : i \in 1 .. n}
  BY RangeFinite
<1>3. m = n
  <2>1. Cardinality(Range(s)) = m /\ Cardinality(Range(t)) = n
    BY IncreasingCount
  <2> QED BY <2>1
<1> HIDE DEF m, n
<1> DEFINE S == {k \in Nat : k \in 1 .. m => s[k] = t[k]}
<1>4. ASSUME NEW k \in Nat, \A j \in Nat : j < k => j \in S PROVE k \in S
  <2> SUFFICES ASSUME k \in 1 .. m PROVE s[k] = t[k]
    OBVIOUS
  <2>1. \A j \in 1 .. k - 1 : s[j] = t[j]
    BY <1>1, <1>4
  <2>2. PICK a \in 1 .. m : s[a] = t[k]
    BY <1>2, <1>3
  <2>3. PICK b \in 1 .. m : t[b] = s[k]
    BY <1>2, <1>3
  <2>4. \A i, j \in 1 .. m : i < j => s[i] < s[j] /\ t[i] < t[j]
    BY <1>3 DEF Increasing, m, n
  <2>5. a >= k
    <3> SUFFICES ASSUME a < k PROVE FALSE
      BY <1>1
    <3>1. s[a] = t[a] /\ t[a] < t[k]
      BY <1>1, <2>1, <2>4
    <3> QED BY <1>1, <1>3, <2>2, <3>1
  <2>6. b >= k
    <3> SUFFICES ASSUME b < k PROVE FALSE
      BY <1>1
    <3>1. s[b] = t[b] /\ s[b] < s[k]
      BY <1>1, <2>1, <2>4
    <3> QED BY <1>1, <1>3, <2>3, <3>1
  <2>7. s[k] <= s[a]
    <3>1. CASE a = k
      BY <1>1, <3>1
    <3>2. CASE k < a
      BY <1>1, <1>3, <2>4, <3>2
    <3> QED BY <1>1, <2>5, <3>1, <3>2
  <2>8. t[k] <= t[b]
    <3>1. CASE b = k
      BY <1>1, <1>3, <3>1
    <3>2. CASE k < b
      BY <1>1, <1>3, <2>4, <3>2
    <3> QED BY <1>1, <2>6, <3>1, <3>2
  <2> QED BY <1>1, <1>3, <2>2, <2>3, <2>7, <2>8
<1>5. Nat \subseteq S
  <2> HIDE DEF S
  <2> QED BY <1>4, CourseOfValues
<1>6. \A k \in 1 .. m : s[k] = t[k]
  BY <1>1, <1>5
<1> QED
  <2>1. s = [k \in 1 .. m |-> s[k]] /\ t = [k \in 1 .. m |-> t[k]]
    BY <1>1, <1>3
  <2> QED BY <1>6, <2>1

\* A function on the numbers up to m is a sequence.
LEMMA FunctionsAreSequences ==
  ASSUME NEW A, NEW m \in Nat, NEW f \in [1 .. m -> A]
  PROVE  f \in Seq(A) /\ Len(f) = m
OBVIOUS

\* It does not matter which of three sequences are put together first.
Append3(a, b, c) == (a \o b) \o c = a \o (b \o c)

\* That is so for any.
LEMMA Associative ==
  ASSUME NEW A, NEW a \in Seq(A), NEW b \in Seq(A), NEW c \in Seq(A)
  PROVE  Append3(a, b, c)
<1>1. a \o b \in Seq(A) /\ b \o c \in Seq(A)
  BY Concatenation
<1> QED BY <1>1 DEF Append3

\* Joining all of them is joining some and the others.
LEMMA JoinedBoth ==
  ASSUME NEW A, NEW x \in Seq(Seq(A)), NEW y \in Seq(Seq(A))
  PROVE  /\ x \o y \in Seq(Seq(A))
         /\ Joined(x \o y) = Joined(x) \o Joined(y)
         /\ LengthsOf(x \o y) = LengthsOf(x) \o LengthsOf(y)
<1> DEFINE z == x \o y
           m == Len(x)
           n == Len(y)
<1>1. /\ m \in Nat /\ n \in Nat /\ z \in Seq(Seq(A)) /\ Len(z) = m + n
      /\ \A i \in 1 .. m : z[i] = x[i]
      /\ \A k \in 1 .. n : z[m + k] = y[k]
  <2>1. x \in Seq(Seq(A)) /\ y \in Seq(Seq(A))
    OBVIOUS
  <2> QED BY <2>1, Concatenation
<1>2. PICK gx \in [0 .. m -> Seq(A)] : JoinedBy(x, gx)
  BY JoinedSteps
<1>3. PICK gy \in [0 .. n -> Seq(A)] : JoinedBy(y, gy)
  BY JoinedSteps
<1>4. PICK gz \in [0 .. m + n -> Seq(A)] : JoinedBy(z, gz)
  <2> HIDE DEF z
  <2> QED BY <1>1, JoinedSteps
<1>5. Joined(x) = gx[m] /\ gx[0] = <<>> /\ \A i \in 1 .. m : gx[i] = gx[i - 1] \o x[i]
  BY <1>2 DEF JoinedBy
<1>6. Joined(y) = gy[n] /\ gy[0] = <<>> /\ \A i \in 1 .. n : gy[i] = gy[i - 1] \o y[i]
  BY <1>3 DEF JoinedBy
<1>7. Joined(z) = gz[m + n] /\ gz[0] = <<>> /\ \A i \in 1 .. m + n : gz[i] = gz[i - 1] \o z[i]
  <2> HIDE DEF z
  <2> QED BY <1>1, <1>4 DEF JoinedBy
<1> HIDE DEF z, m, n
<1>8. /\ \A i \in 1 .. m : x[i] \in Seq(A)
      /\ \A i \in 1 .. n : y[i] \in Seq(A)
  BY DEF m, n
<1> DEFINE S == {k \in Nat : k <= m => gz[k] = gx[k]}
           w == [k \in 0 .. n |-> gx[m] \o gy[k]]
           T == {k \in Nat : k <= n => gz[m + k] = w[k]}
<1>9. Nat \subseteq S
  <2>1. 0 \in S
    BY <1>5, <1>7
  <2>2. ASSUME NEW k \in Nat, k \in S PROVE k + 1 \in S
    <3> SUFFICES ASSUME k + 1 <= m PROVE gz[k + 1] = gx[k + 1]
      OBVIOUS
    <3>1. k + 1 \in 1 .. m /\ k + 1 \in 1 .. m + n /\ (k + 1) - 1 = k /\ gz[k] = gx[k]
      BY <1>1, <2>2
    <3>2. gz[k + 1] = gz[k] \o z[k + 1] /\ gx[k + 1] = gx[k] \o x[k + 1]
      BY <1>5, <1>7, <3>1
    <3>3. z[k + 1] = x[k + 1]
      BY <1>1, <3>1
    <3> QED BY <3>1, <3>2, <3>3, Zenon
  <2> HIDE DEF S
  <2> QED BY <2>1, <2>2, Successors
<1>10. gx[m] \in Seq(A) /\ \A k \in 0 .. n : gy[k] \in Seq(A)
  <2>1. m \in 0 .. m
    BY <1>1
  <2> QED BY <2>1
<1>11. w[0] = gx[m] /\ \A k \in 0 .. n - 1 : w[k + 1] = w[k] \o y[k + 1]
  <2>1. w[0] = gx[m]
    <3>1. gx[m] \o gy[0] = gx[m]
      BY <1>6, <1>10
    <3>2. 0 \in 0 .. n
      BY <1>1
    <3> QED BY <3>1, <3>2
  <2>2. ASSUME NEW k \in 0 .. n - 1 PROVE w[k + 1] = w[k] \o y[k + 1]
    <3>1. k + 1 \in 1 .. n /\ (k + 1) - 1 = k /\ k \in 0 .. n /\ k + 1 \in 0 .. n
      BY <1>1
    <3>2. gy[k + 1] = gy[k] \o y[k + 1]
      BY <1>6, <3>1
    <3>3. y[k + 1] \in Seq(A) /\ gy[k] \in Seq(A) /\ gx[m] \in Seq(A)
      BY <1>8, <1>10, <3>1
    <3>4. Append3(gx[m], gy[k], y[k + 1])
      BY <3>3, Associative
    <3>5. w[k] = gx[m] \o gy[k] /\ w[k + 1] = gx[m] \o gy[k + 1]
      BY <3>1, Zenon
    <3> QED BY <3>2, <3>4, <3>5, Zenon DEF Append3
  <2> QED BY <2>1, <2>2
<1>12. w[n] = gx[m] \o gy[n]
  <2>1. n \in 0 .. n
    BY <1>1
  <2> QED BY <2>1, Zenon
<1> HIDE DEF w
<1>13. Nat \subseteq T
  <2>1. 0 \in T
    <3>1. gz[m] = gx[m] /\ m + 0 = m
      BY <1>1, <1>9
    <3> QED BY <1>11, <3>1
  <2>2. ASSUME NEW k \in Nat, k \in T PROVE k + 1 \in T
    <3> SUFFICES ASSUME k + 1 <= n PROVE gz[m + (k + 1)] = w[k + 1]
      OBVIOUS
    <3>1. /\ m + (k + 1) \in 1 .. m + n /\ (m + (k + 1)) - 1 = m + k /\ gz[m + k] = w[k]
          /\ k + 1 \in 1 .. n /\ k \in 0 .. n - 1
      BY <1>1, <2>2
    <3>2. gz[m + (k + 1)] = gz[m + k] \o z[m + (k + 1)]
      BY <1>7, <3>1
    <3>3. z[m + (k + 1)] = y[k + 1]
      BY <1>1, <3>1
    <3>4. w[k + 1] = w[k] \o y[k + 1]
      BY <1>11, <3>1
    <3> QED BY <3>1, <3>2, <3>3, <3>4, Zenon
  <2> HIDE DEF T
  <2> QED BY <2>1, <2>2, Successors
<1>14. Joined(z) = Joined(x) \o Joined(y)
  <2>1. gz[m + n] = w[n]
    <3>1. n \in Nat /\ n <= n
      BY <1>1
    <3> QED BY <1>13, <3>1
  <2> QED BY <2>1, <1>5, <1>6, <1>7, <1>12, Zenon
<1>15. LengthsOf(z) = LengthsOf(x) \o LengthsOf(y)
  <2> DEFINE a == LengthsOf(x)
             b == LengthsOf(y)
             c == LengthsOf(z)
  <2>1. /\ a \in Seq(Nat) /\ Len(a) = m /\ \A i \in 1 .. m : a[i] = Len(x[i])
        /\ b \in Seq(Nat) /\ Len(b) = n /\ \A i \in 1 .. n : b[i] = Len(y[i])
    <3>1. a \in [1 .. m -> Nat] /\ b \in [1 .. n -> Nat]
      BY <1>8 DEF LengthsOf, m, n
    <3>2. (\A i \in 1 .. m : a[i] = Len(x[i])) /\ \A i \in 1 .. n : b[i] = Len(y[i])
      BY DEF LengthsOf, m, n
    <3> HIDE DEF a, b
    <3>3. a \in Seq(Nat) /\ Len(a) = m
      BY <1>1, <3>1, FunctionsAreSequences
    <3>4. b \in Seq(Nat) /\ Len(b) = n
      BY <1>1, <3>1, FunctionsAreSequences
    <3> QED BY <3>2, <3>3, <3>4
  <2>2. c = [i \in 1 .. m + n |-> Len(z[i])]
    BY <1>1 DEF LengthsOf
  <2> HIDE DEF a, b, c
  <2>3. /\ a \o b \in Seq(Nat) /\ Len(a \o b) = m + n
        /\ \A i \in 1 .. m : (a \o b)[i] = a[i]
        /\ \A k \in 1 .. n : (a \o b)[m + k] = b[k]
    <3>1. a \in Seq(Nat) /\ b \in Seq(Nat)
      BY <2>1
    <3>2. /\ a \o b \in Seq(Nat) /\ Len(a \o b) = Len(a) + Len(b)
          /\ \A i \in 1 .. Len(a) : (a \o b)[i] = a[i]
          /\ \A k \in 1 .. Len(b) : (a \o b)[Len(a) + k] = b[k]
      BY <3>1, Concatenation
    <3> QED BY <2>1, <3>2
  <2>4. \A i \in 1 .. m + n : (a \o b)[i] = Len(z[i])
    <3> TAKE i \in 1 .. m + n
    <3>1. CASE i \in 1 .. m
      BY <1>1, <2>1, <2>3, <3>1
    <3>2. CASE i \notin 1 .. m
      <4>1. i - m \in 1 .. n /\ m + (i - m) = i
        BY <1>1, <3>2
      <4>2. (a \o b)[m + (i - m)] = b[i - m] /\ b[i - m] = Len(y[i - m]) /\ z[m + (i - m)] = y[i - m]
        BY <1>1, <2>1, <2>3, <4>1
      <4> QED BY <4>1, <4>2
    <3> QED BY <3>1, <3>2
  <2> DEFINE d == a \o b
  <2>5. d = [i \in 1 .. m + n |-> d[i]]
    <3>1. d \in Seq(Nat) /\ Len(d) = m + n
      BY <2>3
    <3> HIDE DEF d
    <3> QED BY <3>1
  <2> QED BY <2>2, <2>4, <2>5 DEF a, b, c
<1> QED BY <1>1, <1>14, <1>15 DEF z
=============================================================================
