---------------------------- MODULE AlpKernelsProofs ----------------------------
(***************************************************************************)
(* Proofs about AlpKernels, for all columns, types, samples and limits:    *)
(* every build materializes what has been ingested, whatever the search    *)
(* chooses; exceptions do not widen a vector; the search loses to none of  *)
(* the combinations it is sure to try; the exceptions of a lane lie        *)
(* together; ALP-RD chooses the best cut and dictionary.                   *)
(***************************************************************************)
EXTENDS AlpKernels, DataLemmas

-----------------------------------------------------------------------------
(* Integers and bits *)

\* The integers of ST are 2 ^ Width, 0 among them.
LEMMA IntRange ==
  /\ 2 ^ Width \in Nat \ {0}
  /\ IntMin \in Int /\ IntMax \in Int /\ IntMin <= 0 /\ 0 <= IntMax
  /\ IntMax - IntMin = 2 ^ Width - 1
<1>1. Width - 1 \in Nat /\ Width = (Width - 1) + 1 /\ Width \in Nat
  BY AlpAssumption
<1>2. 2 ^ (Width - 1) \in Nat \ {0} /\ 2 ^ Width \in Nat \ {0}
  BY <1>1, PowerPositive
<1>3. 2 ^ Width = 2 * 2 ^ (Width - 1)
  <2> DEFINE w == Width - 1
  <2>1. w \in Nat /\ Width = w + 1
    BY <1>1
  <2> HIDE DEF w
  <2>2. 2 ^ (w + 1) = 2 * 2 ^ w
    BY <2>1, PowerDoubles
  <2>3. 2 ^ Width = 2 * 2 ^ w
    BY <2>1, <2>2
  <2> QED BY <2>3 DEF w
<1> DEFINE p == 2 ^ (Width - 1)
           q == 2 ^ Width
<1>4. p \in Nat \ {0} /\ q \in Nat \ {0} /\ q = 2 * p /\ IntMin = 0 - p /\ IntMax = p - 1
  BY <1>2, <1>3 DEF IntMin, IntMax
<1> HIDE DEF p, q
<1>5. /\ q \in Nat \ {0}
      /\ IntMin \in Int /\ IntMax \in Int /\ IntMin <= 0 /\ 0 <= IntMax
      /\ IntMax - IntMin = q - 1
  BY <1>4
<1> QED BY <1>5 DEF q

\* What is encoded is an integer of ST, whatever the conversion had to do.
LEMMA EncodeRange ==
  ASSUME NEW up, NEW b, NEW v, NEW c
  PROVE  EncodeValue(up, b, v, c) \in IntMin .. IntMax
<1>1. \A x : Cast(b, x) \in IntMin .. IntMax
  <2> TAKE x
  <2>1. IntMin \in IntMin .. IntMax /\ IntMax \in IntMin .. IntMax
    BY IntRange
  <2> QED BY <2>1 DEF Cast
<1> QED BY <1>1, Zenon DEF EncodeValue

\* count_bits counts them.
LEMMA CountBitsIs ==
  ASSUME NEW max \in Int, NEW min \in Int
  PROVE  CountBits(max, min) \in 0 .. Width /\ LeastBits((max - min) % 2 ^ Width, CountBits(max, min))
<1> DEFINE delta == (max - min) % 2 ^ Width
           k == CountBits(max, min)
<1>1. delta \in Nat /\ delta < 2 ^ Width /\ Width \in Nat
  <2> DEFINE q == 2 ^ Width
             d == max - min
  <2>1. q \in Nat \ {0} /\ d \in Int
    BY IntRange
  <2> HIDE DEF q, d
  <2>2. d % q \in 0 .. q - 1
    BY <2>1, DivisionOfIntegers
  <2>3. d % q \in Nat /\ d % q < q
    BY <2>1, <2>2
  <2> QED BY <2>3, AlpAssumption DEF d, q
<1>2. k = CHOOSE n \in 0 .. Width : delta < 2 ^ n /\ (n = 0 \/ delta >= 2 ^ (n - 1))
  BY Zenon DEF CountBits
<1> HIDE DEF delta, k
<1>3. k \in 0 .. Width /\ LeastBits(delta, k)
  BY <1>1, <1>2, BitsAre
<1> QED BY <1>3 DEF delta, k

\* Between two integers of ST there is no wrapping around.
LEMMA CountBitsOfRange ==
  ASSUME NEW max \in IntMin .. IntMax, NEW min \in IntMin .. IntMax, min <= max
  PROVE  CountBits(max, min) \in 0 .. Width /\ LeastBits(max - min, CountBits(max, min))
<1>1. max \in Int /\ min \in Int /\ max - min \in 0 .. 2 ^ Width - 1
  BY IntRange
<1>2. (max - min) % 2 ^ Width = max - min
  <2> DEFINE q == 2 ^ Width
             d == max - min
  <2>1. q \in Nat \ {0} /\ d \in 0 .. q - 1 /\ d \in Int
    BY IntRange, <1>1
  <2> HIDE DEF q, d
  <2>2. (q * 0 + d) % q = d
    BY <2>1, RemainderUnique
  <2>3. q * 0 + d = d
    BY <2>1
  <2> QED BY <2>2, <2>3 DEF q, d
<1> QED BY <1>1, <1>2, CountBitsIs

\* A set of integers of ST takes Width bits at most, and no more than a set
\* that includes it.
LEMMA RangeBitsGrow ==
  ASSUME NEW Y \in SUBSET (IntMin .. IntMax)
  PROVE  /\ RangeBits(Y) \in 0 .. Width
         /\ \A X \in SUBSET Y : X # {} => CountBits(Max(X), Min(X)) <= RangeBits(Y)
<1>1. /\ IntMin \in Int /\ IntMax \in Int /\ IntMin .. IntMax \subseteq Int
      /\ IsFiniteSet(IntMin .. IntMax)
  <2>1. IntMin \in Int /\ IntMax \in Int
    BY IntRange
  <2> QED BY <2>1, FS_Interval
<1>2. \A X \in SUBSET Y : X # {} =>
        /\ Max(X) \in X /\ Min(X) \in X
        /\ \A x \in X : x <= Max(X) /\ Min(X) <= x
  <2> TAKE X \in SUBSET Y
  <2> SUFFICES ASSUME X # {} PROVE /\ Max(X) \in X /\ Min(X) \in X
                                   /\ \A x \in X : x <= Max(X) /\ Min(X) <= x
    OBVIOUS
  <2>1. X \in SUBSET Int /\ X \in SUBSET (IntMin .. IntMax)
    BY <1>1
  <2>2. IsFiniteSet(X)
    BY <1>1, <2>1, FS_Subset
  <2> QED BY <2>1, <2>2, MaxIs, MinIs
<1>3. ASSUME Y = {} PROVE RangeBits(Y) \in 0 .. Width
  <2>1. CountBits(IntMin, IntMax) \in 0 .. Width
    BY <1>1, CountBitsIs
  <2> QED BY <1>3, <2>1 DEF RangeBits
<1>4. ASSUME NEW X \in SUBSET Y, X # {}
      PROVE  /\ CountBits(Max(X), Min(X)) \in 0 .. Width
             /\ LeastBits(Max(X) - Min(X), CountBits(Max(X), Min(X)))
  <2>1. Max(X) \in IntMin .. IntMax /\ Min(X) \in IntMin .. IntMax /\ Min(X) <= Max(X)
    BY <1>2, <1>4
  <2> QED BY <2>1, CountBitsOfRange
<1>5. ASSUME Y # {} PROVE RangeBits(Y) = CountBits(Max(Y), Min(Y)) /\ RangeBits(Y) \in 0 .. Width
  <2>1. Y \in SUBSET Y
    OBVIOUS
  <2>2. RangeBits(Y) = CountBits(Max(Y), Min(Y))
    BY <1>5 DEF RangeBits
  <2>3. CountBits(Max(Y), Min(Y)) \in 0 .. Width
    BY <1>4, <1>5, <2>1
  <2> QED BY <2>2, <2>3
<1>6. ASSUME NEW X \in SUBSET Y, X # {} PROVE CountBits(Max(X), Min(X)) <= RangeBits(Y)
  <2>1. Y # {} /\ Y \in SUBSET Y
    BY <1>6
  <2> DEFINE k == CountBits(Max(Y), Min(Y))
             d == Max(X) - Min(X)
             e == Max(Y) - Min(Y)
  <2>2. k \in 0 .. Width /\ LeastBits(e, k) /\ k = RangeBits(Y)
    BY <1>4, <1>5, <2>1
  <2>3. d \in Int /\ e \in Int /\ d <= e
    <3>1. Max(X) \in X /\ Min(X) \in X /\ Max(Y) \in Y /\ Min(Y) \in Y
      BY <1>2, <1>6, <2>1
    <3>2. Max(X) <= Max(Y) /\ Min(Y) <= Min(X)
      BY <1>2, <2>1, <3>1
    <3> DEFINE a == Max(X) b == Min(X) f == Max(Y) g == Min(Y)
    <3>3. a \in Int /\ b \in Int /\ f \in Int /\ g \in Int /\ a <= f /\ g <= b
      BY <1>1, <3>1, <3>2
    <3> HIDE DEF a, b, f, g
    <3>4. a - b \in Int /\ f - g \in Int /\ a - b <= f - g
      BY <3>3
    <3> QED BY <3>4 DEF a, b, f, g
  <2>4. k \in Nat /\ 2 ^ k \in Nat
    <3>1. k \in Nat
      BY <2>2, AlpAssumption
    <3> QED BY <3>1, PowerPositive
  <2>5. LeastBits(d, CountBits(Max(X), Min(X)))
    BY <1>4, <1>6
  <2> HIDE DEF k, d, e
  <2>6. d < 2 ^ k
    BY <2>2, <2>3, <2>4 DEF LeastBits
  <2> QED BY <2>2, <2>4, <2>5, <2>6 DEF LeastBits
<1> QED BY <1>3, <1>5, <1>6

-----------------------------------------------------------------------------
(* Packing *)

\* The sequences of integers that a vector is encoded into.
Ints == [1 .. VecSz -> IntMin .. IntMax]

\* The integers of a vector have a least and a greatest.
LEMMA RangeOfInts ==
  ASSUME NEW ints \in Ints
  PROVE  /\ Range(ints) \in SUBSET (IntMin .. IntMax) /\ Range(ints) # {}
         /\ \A i \in 1 .. VecSz : ints[i] \in Range(ints)
         /\ Max(Range(ints)) \in IntMin .. IntMax /\ Min(Range(ints)) \in IntMin .. IntMax
         /\ \A x \in Range(ints) : x <= Max(Range(ints)) /\ Min(Range(ints)) <= x
<1> DEFINE R == Range(ints)
<1>1. VecSz \in Nat \ {0}
  BY AlpAssumption
<1>2. R \in SUBSET (IntMin .. IntMax) /\ R # {} /\ \A i \in 1 .. VecSz : ints[i] \in R
  BY <1>1 DEF Range, Ints
<1>3. IntMin \in Int /\ IntMax \in Int
  BY IntRange
<1>4. IsFiniteSet(R) /\ R \in SUBSET Int
  <2> HIDE DEF R
  <2>1. IsFiniteSet(IntMin .. IntMax) /\ IntMin .. IntMax \subseteq Int
    BY <1>3, FS_Interval
  <2> QED BY <1>2, <2>1, FS_Subset
<1> HIDE DEF R
<1>5. /\ Max(R) \in R /\ Min(R) \in R
      /\ \A x \in R : x <= Max(R) /\ Min(R) <= x
  BY <1>2, <1>4, MaxIs, MinIs
<1> QED BY <1>2, <1>5 DEF R

\* Integers that differ by less than 2 ^ bw from a base are had back from bw bits.
LEMMA FforInverse ==
  ASSUME NEW ints \in Ints
  PROVE  Unffor(Ffor(ints)) = ints
<1> DEFINE base == Min(Range(ints))
           top == Max(Range(ints))
           bw == CountBits(top, base)
           p == 2 ^ bw
           q == 2 ^ Width
           packed == [i \in 1 .. VecSz |-> (ints[i] - base) % p]
<1>1. DOMAIN ints = 1 .. VecSz
  BY DEF Ints
<1>2. Ffor(ints) = [base |-> base, bw |-> bw, packed |-> packed]
  BY <1>1, Zenon DEF Ffor
<1>3. base \in IntMin .. IntMax /\ top \in IntMin .. IntMax /\ base <= top
  <2>1. \E x \in Range(ints) : base <= x /\ x <= top
    BY RangeOfInts, Zenon
  <2>2. base \in IntMin .. IntMax /\ top \in IntMin .. IntMax
    BY RangeOfInts, Zenon
  <2>3. \A x \in Range(ints) : x \in Int
    <3>1. Range(ints) \in SUBSET (IntMin .. IntMax)
      BY RangeOfInts, Zenon
    <3> QED BY <3>1
  <2> HIDE DEF base, top
  <2> QED BY <2>1, <2>2, <2>3
<1>4. bw \in Nat /\ top - base < p
  <2> HIDE DEF base, top
  <2>1. bw \in 0 .. Width /\ LeastBits(top - base, bw)
    BY <1>3, CountBitsOfRange
  <2>2. Width \in Nat
    BY AlpAssumption
  <2> QED BY <2>1, <2>2 DEF LeastBits
<1>5. p \in Nat \ {0} /\ q \in Nat \ {0} /\ IntMin \in Int /\ IntMax \in Int /\ IntMax - IntMin = q - 1
  BY <1>4, PowerPositive, IntRange
<1>6. ASSUME NEW i \in 1 .. VecSz
      PROVE  IntMin + ((packed[i] + base - IntMin) % q) = ints[i]
  <2> DEFINE x == ints[i]
  <2>1. x \in IntMin .. IntMax /\ base <= x /\ x <= top
    <3>1. x \in IntMin .. IntMax
      BY DEF Ints
    <3>2. base <= x /\ x <= top
      BY RangeOfInts, Zenon
    <3> QED BY <3>1, <3>2
  <2>2. packed[i] = (x - base) % p
    OBVIOUS
  <2> HIDE DEF base, top, bw, p, q, x, packed
  <2> DEFINE d == x - base
             e == x - IntMin
  <2>3. d \in 0 .. p - 1 /\ e \in 0 .. q - 1
    BY <1>3, <1>4, <1>5, <2>1
  <2>4. d % p = d
    <3> HIDE DEF d
    <3>1. (p * 0 + d) % p = d
      BY <1>5, <2>3, RemainderUnique
    <3>2. p * 0 + d = d
      BY <1>5, <2>3
    <3> QED BY <3>1, <3>2
  <2>5. e % q = e
    <3> HIDE DEF e
    <3>1. (q * 0 + e) % q = e
      BY <1>5, <2>3, RemainderUnique
    <3>2. q * 0 + e = e
      BY <1>5, <2>3
    <3> QED BY <3>1, <3>2
  <2>6. packed[i] + base - IntMin = e
    BY <1>3, <1>5, <2>1, <2>2, <2>4
  <2>7. IntMin + e = x
    BY <1>5, <2>1
  <2> HIDE DEF e
  <2>8. IntMin + ((packed[i] + base - IntMin) % q) = x
    BY <2>5, <2>6, <2>7
  <2> QED BY <2>8 DEF x
<1>7. Unffor(Ffor(ints)) = [i \in 1 .. VecSz |-> IntMin + ((packed[i] + base - IntMin) % q)]
  <2>1. Ffor(ints).packed = packed /\ Ffor(ints).base = base /\ DOMAIN packed = 1 .. VecSz
    <3> HIDE DEF base, bw
    <3> QED BY <1>2
  <2> HIDE DEF packed, base, q
  <2> QED BY <2>1, Zenon DEF Unffor, q
<1>8. ints = [i \in 1 .. VecSz |-> ints[i]]
  BY DEF Ints
<1> HIDE DEF packed, base, q
<1> QED BY <1>6, <1>7, <1>8

-----------------------------------------------------------------------------
(* Combinations *)

\* Only valid combinations are tried.
LEMMA CombinationsValid == Combinations \in Seq(ValidCombinations)
<1> DEFINE n == MaxFactor + 1
           pair(k) == <<MaxExponent - (k - 1) \div n, MaxFactor - ((k - 1) % n)>>
           len == (MaxExponent + 1) * n
           s == [k \in 1 .. len |-> pair(k)]
           A == {pair(k) : k \in 1 .. len}
<1>1. len \in Nat
  <2>1. MaxExponent \in Nat /\ n \in Nat
    BY AlpAssumption
  <2> HIDE DEF n
  <2> QED BY <2>1, Z3
<1>2. s \in Seq(A)
  <2> HIDE DEF pair, len
  <2> QED BY <1>1
<1>3. Combinations = Kept(s, ValidCombinations)
  BY Zenon DEF Combinations
<1> HIDE DEF s, A
<1>4. Kept(s, ValidCombinations) \in Seq(A \cap ValidCombinations)
  BY <1>2, KeptFacts
<1>5. Seq(A \cap ValidCombinations) \subseteq Seq(ValidCombinations)
  OBVIOUS
<1> QED BY <1>3, <1>4, <1>5

\* The combination with nothing to do is valid.
LEMMA NoShift == <<0, 0>> \in ValidCombinations
BY AlpAssumption DEF ValidCombinations

\* The best combination for a sample is a valid one.
LEMMA FoundIs ==
  ASSUME NEW up, NEW b, NEW sample
  PROVE  Found(up, b, sample).c \in ValidCombinations
<1> DEFINE tried == Combinations
           top == Len(tried)
           start == [size |-> WorstSize, c |-> <<0, 0>>]
           Sizes == {WorstSize} \cup {Estimate(up, b, sample, c) : c \in ValidCombinations}
           S == [size : Sizes, c : ValidCombinations]
           Step(n, x) == Preferred(up, b, sample, x, tried[n])
           F == [p \in (1 .. top) \X S |-> Step(p[1], p[2])]
           Eq(g) == g = [n \in 0 .. top |-> IF n = 0 THEN start ELSE Step(n, g[n - 1])]
<1>1. top \in Nat /\ \A n \in 1 .. top : tried[n] \in ValidCombinations
  BY CombinationsValid
<1>2. start \in S
  BY NoShift
<1>3. F \in [(1 .. top) \X S -> S]
  <2>1. ASSUME NEW n \in 1 .. top, NEW x \in S PROVE Step(n, x) \in S
    <3> DEFINE size == Estimate(up, b, sample, tried[n])
    <3>1. Step(n, x) \in {x, [size |-> size, c |-> tried[n]]}
      BY Zenon DEF Preferred
    <3>2. size \in Sizes /\ tried[n] \in ValidCombinations
      BY <1>1
    <3> HIDE DEF size, Step, Sizes
    <3> QED BY <3>1, <3>2
  <2> HIDE DEF Step, S
  <2> QED BY <2>1
<1>4. PICK g \in [0 .. top -> S] : Recursive(top, start, F, g)
  <2> HIDE DEF F, S, top, start
  <2> QED BY <1>1, <1>2, <1>3, Recursion, Zenon
<1>5. Eq(g)
  <2>1. /\ g = [n \in 0 .. top |-> IF n = 0 THEN start ELSE F[<<n, g[n - 1]>>]]
        /\ \A n \in 1 .. top : g[n - 1] \in S
    <3>1. WrittenOut(S, top, start, F, g)
      <4> HIDE DEF F, S, top, start
      <4> QED BY <1>1, <1>2, <1>4, RecursiveIs, Zenon
    <3> HIDE DEF F, S, top, start
    <3> QED BY <3>1 DEF WrittenOut
  <2>2. \A n \in 1 .. top : F[<<n, g[n - 1]>>] = Step(n, g[n - 1])
    <3> HIDE DEF Step, S, top
    <3> QED BY <2>1
  <2>3. \A n \in 0 .. top : n # 0 => n \in 1 .. top
    BY <1>1
  <2> HIDE DEF Step, S, F, top, start
  <2> QED BY <2>1, <2>2, <2>3
<1>6. Found(up, b, sample) = (CHOOSE h : Eq(h))[top]
  BY Zenon DEF Found
<1> DEFINE k == CHOOSE h : Eq(h)
<1>7. Eq(k)
  <2> HIDE DEF Eq
  <2> QED BY <1>5, Zenon
<1> HIDE DEF k
<1>8. StepsIn(S, top, start, F, k)
  <2>1. 0 \in 0 .. top /\ \A n \in 1 .. top : n \in 0 .. top /\ n # 0
    BY <1>1
  <2> HIDE DEF Step, S, top, start
  <2> QED BY <1>7, <2>1 DEF StepsIn
<1>9. \A n \in 0 .. top : k[n] \in S
  <2> HIDE DEF S, F, top, start
  <2> QED BY <1>1, <1>2, <1>3, <1>8, RecursionTyped, Zenon
<1>10. k[top] \in S
  <2>1. top \in 0 .. top
    BY <1>1
  <2> HIDE DEF S, top
  <2> QED BY <1>9, <2>1
<1>11. Found(up, b, sample) \in S
  BY <1>6, <1>10 DEF k
<1> QED BY <1>11

\* Of some combinations one is the first.
LEMMA FirstOfIs ==
  ASSUME NEW found, NEW n \in Nat, DOMAIN found = 1 .. n,
         NEW T \in SUBSET ValidCombinations, T # {}
  PROVE  FirstOf(found, T) \in T
<1> DEFINE J(x) == {j \in 1 .. n : found[j].c = x}
           Times(x) == Cardinality(J(x))
<1>1. \A x : Times(x) \in Nat /\ Times(x) <= n
  <2> TAKE x
  <2>1. IsFiniteSet(1 .. n) /\ Cardinality(1 .. n) = n
    BY FS_Interval
  <2>2. J(x) \in SUBSET (1 .. n)
    OBVIOUS
  <2> HIDE DEF J
  <2>3. IsFiniteSet(J(x)) /\ Cardinality(J(x)) <= n
    BY <2>1, <2>2, FS_Subset
  <2> QED BY <2>3, FS_CardinalityType
<1> HIDE DEF J
<1>2. \A x \in T : x[1] \in 0 .. MaxExponent /\ x[2] \in 0 .. MaxFactor /\ x = <<x[1], x[2]>>
  BY DEF ValidCombinations
<1>3. MaxExponent \in Nat /\ MaxFactor \in Nat
  BY AlpAssumption
<1>4. PICK x \in T : \A y \in T : Times(y) <= Times(x)
  <2> DEFINE S == {n - Times(x) : x \in T}
  <2>1. S \in SUBSET Nat /\ S # {}
    <3>1. \A x \in T : n - Times(x) \in Nat
      BY <1>1
    <3> HIDE DEF Times
    <3> QED BY <3>1
  <2>2. PICK m \in S : \A s \in S : m <= s
    <3> HIDE DEF S
    <3> QED BY <2>1, LeastElement
  <2>3. PICK x \in T : m = n - Times(x)
    BY <2>2
  <2>4. \A y \in T : Times(y) <= Times(x)
    <3> TAKE y \in T
    <3>1. n - Times(y) \in S
      OBVIOUS
    <3>2. n - Times(x) <= n - Times(y)
      BY <2>2, <2>3, <3>1
    <3> HIDE DEF Times
    <3> QED BY <1>1, <3>2
  <2> QED BY <2>4
<1> HIDE DEF Times
<1> DEFINE T1 == {y \in T : Times(y) = Times(x)}
<1>5. PICK y \in T1 : \A z \in T1 : z[1] <= y[1]
  <2> DEFINE S == {MaxExponent - z[1] : z \in T1}
  <2>1. S \in SUBSET Nat /\ S # {}
    <3>1. \A z \in T1 : MaxExponent - z[1] \in Nat
      BY <1>2, <1>3
    <3>2. x \in T1
      OBVIOUS
    <3> HIDE DEF T1
    <3> QED BY <3>1, <3>2
  <2>2. PICK m \in S : \A s \in S : m <= s
    <3> HIDE DEF S
    <3> QED BY <2>1, LeastElement
  <2>3. PICK y \in T1 : m = MaxExponent - y[1]
    BY <2>2
  <2>4. \A z \in T1 : z[1] <= y[1]
    <3> TAKE z \in T1
    <3>1. MaxExponent - z[1] \in S /\ y[1] \in 0 .. MaxExponent /\ z[1] \in 0 .. MaxExponent
      BY <1>2
    <3>2. MaxExponent - y[1] <= MaxExponent - z[1]
      BY <2>2, <2>3, <3>1
    <3> QED BY <1>3, <3>1, <3>2
  <2> QED BY <2>4
<1> DEFINE T2 == {z \in T1 : z[1] = y[1]}
<1>6. PICK c \in T2 : \A z \in T2 : z[2] <= c[2]
  <2> DEFINE S == {MaxFactor - z[2] : z \in T2}
  <2>1. S \in SUBSET Nat /\ S # {}
    <3>1. \A z \in T2 : MaxFactor - z[2] \in Nat
      BY <1>2, <1>3
    <3>2. y \in T2
      OBVIOUS
    <3> HIDE DEF T2
    <3> QED BY <3>1, <3>2
  <2>2. PICK m \in S : \A s \in S : m <= s
    <3> HIDE DEF S
    <3> QED BY <2>1, LeastElement
  <2>3. PICK c \in T2 : m = MaxFactor - c[2]
    BY <2>2
  <2>4. \A z \in T2 : z[2] <= c[2]
    <3> TAKE z \in T2
    <3>1. MaxFactor - z[2] \in S /\ c[2] \in 0 .. MaxFactor /\ z[2] \in 0 .. MaxFactor
      BY <1>2
    <3>2. MaxFactor - c[2] <= MaxFactor - z[2]
      BY <2>2, <2>3, <3>1
    <3> QED BY <1>3, <3>1, <3>2
  <2> QED BY <2>4
<1>7. ASSUME NEW d \in T \ {c} PROVE GoesBefore(found, c, d)
  <2>1. c \in T /\ Times(c) = Times(x) /\ c[1] = y[1]
    OBVIOUS
  <2>2. Times(d) <= Times(c) /\ Times(c) \in Nat /\ Times(d) \in Nat
    BY <1>1, <1>4, <2>1
  <2>3. Times(c) = Times(d) => d[1] <= c[1]
    BY <1>5, <2>1
  <2>4. Times(c) = Times(d) /\ c[1] = d[1] => d[2] <= c[2]
    BY <1>6, <2>1
  <2>5. ~ (c[1] = d[1] /\ c[2] = d[2])
    BY <1>2, <1>7, <2>1
  <2>6. c[1] \in Int /\ d[1] \in Int /\ c[2] \in Int /\ d[2] \in Int
    BY <1>2, <2>1
  <2>7. GoesBefore(found, c, d) <=>
          \/ Times(c) > Times(d)
          \/ Times(c) = Times(d) /\ c[1] > d[1]
          \/ Times(c) = Times(d) /\ c[1] = d[1] /\ c[2] > d[2]
    BY Zenon DEF GoesBefore, Times, J
  <2> QED BY <2>2, <2>3, <2>4, <2>5, <2>6, <2>7
<1>8. c \in T /\ \A d \in T \ {c} : GoesBefore(found, c, d)
  BY <1>7
<1> HIDE DEF T1, T2
<1> QED BY <1>8, Zenon DEF FirstOf

\* found[j].c are valid combinations.
ValidFinds(found, n) == DOMAIN found = 1 .. n /\ \A j \in 1 .. n : found[j].c \in ValidCombinations

\* The combinations that a column has to choose from are valid, and there is one.
LEMMA TopCombinationsAre ==
  ASSUME NEW found, NEW n \in Nat \ {0}, ValidFinds(found, n)
  PROVE  TopCombinations(found) \in Seq(ValidCombinations) /\ Len(TopCombinations(found)) > 0
<1> DEFINE all == {found[j].c : j \in DOMAIN found}
           Step(x) == x \ {FirstOf(found, x)}
           S == SUBSET all
           F == [p \in (1 .. MaxK) \X S |-> Step(p[2])]
           Eq(g) == g = [m \in 0 .. MaxK |-> IF m = 0 THEN all ELSE Step(g[m - 1])]
           max == Min({MaxK, Cardinality(all)})
<1>1. /\ MaxK \in Nat \ {0} /\ DOMAIN found = 1 .. n
      /\ all \in SUBSET ValidCombinations /\ all # {}
  <2>1. DOMAIN found = 1 .. n /\ 1 \in 1 .. n /\ \A j \in 1 .. n : found[j].c \in ValidCombinations
    BY DEF ValidFinds
  <2> QED BY <2>1, AlpAssumption
<1>2. IsFiniteSet(all) /\ Cardinality(all) \in Nat /\ Cardinality(all) # 0
  <2> DEFINE f == [j \in 1 .. n |-> found[j].c]
  <2>1. IsFiniteSet(1 .. n)
    BY FS_Interval
  <2>2. IsFiniteSet({f[j] : j \in 1 .. n})
    <3>1. DOMAIN f = 1 .. n
      OBVIOUS
    <3> HIDE DEF f
    <3> QED BY <2>1, <3>1, ImageFinite
  <2>3. all = {f[j] : j \in 1 .. n}
    BY <1>1
  <2>4. IsFiniteSet(all)
    BY <2>2, <2>3
  <2> HIDE DEF all
  <2> QED BY <1>1, <2>4, FS_CardinalityType, FS_EmptySet
<1>3. all \in S /\ F \in [(1 .. MaxK) \X S -> S]
  <2>1. \A x \in S : Step(x) \in S
    OBVIOUS
  <2> HIDE DEF Step, all
  <2> QED BY <2>1
<1>4. PICK g \in [0 .. MaxK -> S] : Recursive(MaxK, all, F, g)
  <2> HIDE DEF F, S, all
  <2> QED BY <1>1, <1>3, Recursion, Zenon
<1>5. Eq(g)
  <2>1. /\ g = [m \in 0 .. MaxK |-> IF m = 0 THEN all ELSE F[<<m, g[m - 1]>>]]
        /\ \A m \in 1 .. MaxK : g[m - 1] \in S
    <3>1. WrittenOut(S, MaxK, all, F, g)
      <4> HIDE DEF F, S, all
      <4> QED BY <1>1, <1>3, <1>4, RecursiveIs, Zenon
    <3> HIDE DEF F, S, all
    <3> QED BY <3>1 DEF WrittenOut
  <2>2. \A m \in 1 .. MaxK : F[<<m, g[m - 1]>>] = Step(g[m - 1])
    <3> HIDE DEF Step, S
    <3> QED BY <2>1
  <2>3. \A m \in 0 .. MaxK : m # 0 => m \in 1 .. MaxK
    BY <1>1
  <2> HIDE DEF Step, S, F, all
  <2> QED BY <2>1, <2>2, <2>3
<1> DEFINE k == CHOOSE h : Eq(h)
<1>6. TopCombinations(found) = [m \in 1 .. max |-> FirstOf(found, k[m - 1])]
  BY Zenon DEF TopCombinations
<1>7. Eq(k)
  <2> HIDE DEF Eq
  <2> QED BY <1>5, Zenon
<1> HIDE DEF k
<1>8. max \in 1 .. MaxK /\ max <= Cardinality(all)
  <2> DEFINE a == Cardinality(all)
  <2>1. a \in Nat \ {0} /\ MaxK \in Nat \ {0}
    BY <1>1, <1>2
  <2> HIDE DEF a
  <2>2. Min({MaxK, a}) = IF MaxK <= a THEN MaxK ELSE a
    BY <2>1, MinOfTwo
  <2>3. Min({MaxK, a}) \in 1 .. MaxK /\ Min({MaxK, a}) <= a
    BY <2>1, <2>2
  <2> QED BY <2>3 DEF a
<1>9. /\ k[0] = all
      /\ \A m \in 1 .. MaxK : k[m] = k[m - 1] \ {FirstOf(found, k[m - 1])}
  <2>1. 0 \in 0 .. MaxK /\ \A m \in 1 .. MaxK : m \in 0 .. MaxK /\ m # 0
    BY <1>1
  <2> HIDE DEF Step, all
  <2>2. k[0] = all /\ \A m \in 1 .. MaxK : k[m] = Step(k[m - 1])
    BY <1>7, <2>1
  <2> QED BY <2>2 DEF Step
<1> HIDE DEF all
<1> DEFINE Rest(m) == k[m] \in SUBSET all /\ Cardinality(k[m]) = Cardinality(all) - m
           Done == {m \in Nat : m < max => Rest(m)}
<1>10. \A m \in Nat : m < max /\ Rest(m) => FirstOf(found, k[m]) \in k[m]
  <2> TAKE m \in Nat
  <2> SUFFICES ASSUME m < max, Rest(m) PROVE FirstOf(found, k[m]) \in k[m]
    OBVIOUS
  <2>1. k[m] \in SUBSET ValidCombinations
    BY <1>1
  <2>2. Cardinality(k[m]) # 0
    BY <1>8, <1>2
  <2>3. k[m] # {}
    BY <2>2, FS_EmptySet
  <2> QED BY <1>1, <2>1, <2>3, FirstOfIs
<1>11. Nat \subseteq Done
  <2>1. 0 \in Done
    BY <1>2, <1>9
  <2>2. ASSUME NEW m \in Nat, m \in Done PROVE m + 1 \in Done
    <3> SUFFICES ASSUME m + 1 < max PROVE Rest(m + 1)
      OBVIOUS
    <3>1. m < max /\ m + 1 \in 1 .. MaxK /\ (m + 1) - 1 = m
      BY <1>1, <1>8
    <3>2. Rest(m)
      <4> HIDE DEF Rest
      <4> QED BY <2>2, <3>1
    <3>3. FirstOf(found, k[m]) \in k[m]
      <4> HIDE DEF Rest
      <4> QED BY <1>10, <3>1, <3>2
    <3>4. k[m + 1] = k[m] \ {FirstOf(found, k[m])}
      BY <1>9, <3>1
    <3>5. IsFiniteSet(k[m])
      BY <1>2, <3>2, FS_Subset
    <3>6. Cardinality(k[m + 1]) = Cardinality(k[m]) - 1
      <4> DEFINE x == k[m]
                 e == FirstOf(found, x)
      <4>1. e \in x /\ IsFiniteSet(x) /\ k[m + 1] = x \ {e}
        BY <3>3, <3>4, <3>5
      <4> HIDE DEF x, e
      <4>2. Cardinality(x \ {e}) = Cardinality(x) - 1
        BY <4>1, FS_RemoveElement
      <4> QED BY <4>1, <4>2 DEF x
    <3> QED BY <3>2, <3>4, <3>6, <1>2
  <2>3. Nat \subseteq Done
    <3> HIDE DEF Done
    <3> QED BY <2>1, <2>2, Successors
  <2> QED BY <2>3
<1>12. ASSUME NEW m \in 1 .. max PROVE FirstOf(found, k[m - 1]) \in ValidCombinations
  <2>1. m - 1 \in Nat /\ m - 1 < max
    BY <1>8
  <2>2. Rest(m - 1)
    <3>1. m - 1 \in Done
      BY <1>11, <2>1
    <3> HIDE DEF Rest
    <3> QED BY <2>1, <3>1
  <2>3. FirstOf(found, k[m - 1]) \in k[m - 1]
    <3> HIDE DEF Rest
    <3> QED BY <1>10, <2>1, <2>2
  <2> QED BY <1>1, <2>2, <2>3
<1> DEFINE G(m) == FirstOf(found, k[m - 1])
<1>13. TopCombinations(found) = [m \in 1 .. max |-> G(m)] /\ \A m \in 1 .. max : G(m) \in ValidCombinations
  BY <1>6, <1>12
<1>14. max \in Nat /\ max > 0
  BY <1>1, <1>8
<1> HIDE DEF G, max
<1> QED BY <1>13, <1>14

\* Every sampled vector finds a valid combination.
LEMMA FoundInIs ==
  ASSUME NEW up, NEW b, NEW samples, NEW n \in Nat, Len(samples) = n
  PROVE  ValidFinds(FoundIn(up, b, samples), n)
<1> DEFINE Step(m, x) == Append(x, Found(up, b, samples[m]))
           A == {Found(up, b, samples[m]) : m \in 1 .. n}
           S == Seq(A)
           F == [p \in (1 .. n) \X S |-> Step(p[1], p[2])]
           Eq(g) == g = [m \in 0 .. n |-> IF m = 0 THEN <<>> ELSE Step(m, g[m - 1])]
<1>1. <<>> \in S /\ F \in [(1 .. n) \X S -> S]
  <2>1. ASSUME NEW m \in 1 .. n, NEW x \in S PROVE Step(m, x) \in S
    <3>1. Found(up, b, samples[m]) \in A
      OBVIOUS
    <3> HIDE DEF A
    <3> QED BY <3>1
  <2>2. <<>> \in S
    OBVIOUS
  <2> HIDE DEF Step, S
  <2> QED BY <2>1, <2>2
<1>2. PICK g \in [0 .. n -> S] : Recursive(n, <<>>, F, g)
  <2> HIDE DEF F, S
  <2> QED BY <1>1, Recursion, Zenon
<1>3. Eq(g)
  <2>1. /\ g = [m \in 0 .. n |-> IF m = 0 THEN <<>> ELSE F[<<m, g[m - 1]>>]]
        /\ \A m \in 1 .. n : g[m - 1] \in S
    <3>1. WrittenOut(S, n, <<>>, F, g)
      <4> HIDE DEF F, S
      <4> QED BY <1>1, <1>2, RecursiveIs, Zenon
    <3> HIDE DEF F, S
    <3> QED BY <3>1 DEF WrittenOut
  <2>2. \A m \in 1 .. n : F[<<m, g[m - 1]>>] = Step(m, g[m - 1])
    <3> HIDE DEF Step, S
    <3> QED BY <2>1
  <2>3. \A m \in 0 .. n : m # 0 => m \in 1 .. n
    OBVIOUS
  <2> HIDE DEF Step, S, F
  <2> QED BY <2>1, <2>2, <2>3
<1> DEFINE k == CHOOSE h : Eq(h)
<1>4. FoundIn(up, b, samples) = k[n]
  BY Zenon DEF FoundIn
<1>5. Eq(k)
  <2> HIDE DEF Eq
  <2> QED BY <1>3, Zenon
<1> HIDE DEF k
<1>6. k[0] = <<>> /\ \A m \in 1 .. n : k[m] = Step(m, k[m - 1])
  <2>1. 0 \in 0 .. n /\ \A m \in 1 .. n : m \in 0 .. n /\ m # 0
    OBVIOUS
  <2> HIDE DEF Step
  <2> QED BY <1>5, <2>1
<1> DEFINE Done == {m \in Nat : m <= n => k[m] \in S /\ Len(k[m]) = m}
<1>7. Nat \subseteq Done
  <2>1. 0 \in Done
    BY <1>1, <1>6
  <2>2. ASSUME NEW m \in Nat, m \in Done PROVE m + 1 \in Done
    <3> SUFFICES ASSUME m + 1 <= n PROVE k[m + 1] \in S /\ Len(k[m + 1]) = m + 1
      OBVIOUS
    <3>1. m + 1 \in 1 .. n /\ (m + 1) - 1 = m /\ k[m] \in S /\ Len(k[m]) = m
      BY <2>2
    <3>2. k[m + 1] = Append(k[m], Found(up, b, samples[m + 1]))
      BY <1>6, <3>1
    <3>3. Found(up, b, samples[m + 1]) \in A
      BY <3>1
    <3> HIDE DEF A
    <3> QED BY <3>1, <3>2, <3>3
  <2>3. Nat \subseteq Done
    <3> HIDE DEF Done
    <3> QED BY <2>1, <2>2, Successors
  <2> QED BY <2>3
<1>8. k[n] \in S /\ Len(k[n]) = n
  BY <1>7
<1>9. \A a \in A : a.c \in ValidCombinations
  BY FoundIs
<1> HIDE DEF A
<1>10. DOMAIN k[n] = 1 .. n /\ \A j \in 1 .. n : k[n][j] \in A
  BY <1>8
<1> QED BY <1>4, <1>9, <1>10 DEF ValidFinds

-----------------------------------------------------------------------------
(* The search for the combination of a vector *)

\* A sample has an estimate for every combination.
LEMMA EstimateIs ==
  ASSUME NEW up, NEW b, NEW sample, DOMAIN sample = 1 .. Len(sample), Len(sample) \in Nat, NEW c
  PROVE  Estimate(up, b, sample, c) \in Int
<1> DEFINE ok == ExactOnes(up, b, sample, c)
           ints == {EncodeValue(up, b, sample[k], c) : k \in ok}
<1>1. ints \in SUBSET (IntMin .. IntMax)
  <2>1. \A k \in ok : EncodeValue(up, b, sample[k], c) \in IntMin .. IntMax
    BY EncodeRange
  <2> HIDE DEF ok
  <2> QED BY <2>1
<1>2. RangeBits(ints) \in 0 .. Width
  <2> HIDE DEF ints
  <2> QED BY <1>1, RangeBitsGrow
<1>3. Cardinality(ok) \in Nat
  <2>1. IsFiniteSet(1 .. Len(sample)) /\ ok \in SUBSET (1 .. Len(sample))
    BY FS_Interval DEF ExactOnes
  <2> HIDE DEF ok
  <2> QED BY <2>1, FS_Subset, FS_CardinalityType
<1>4. SamplesPerVector \in Int /\ Width \in Nat
  <2>1. VecSz \in Nat /\ Increment \in Nat \ {0} /\ Width \in Nat
    BY AlpAssumption
  <2> QED BY <2>1, DivisionFacts DEF SamplesPerVector
<1>5. Estimate(up, b, sample, c)
        = SamplesPerVector * RangeBits(ints) + (Len(sample) - Cardinality(ok)) * (ExcSize + PosSize)
  BY Zenon DEF Estimate
<1> DEFINE w == SamplesPerVector
           x == RangeBits(ints)
           y == Len(sample) - Cardinality(ok)
           z == ExcSize + PosSize
<1>6. w \in Int /\ x \in Int /\ y \in Int /\ z \in Int
  <2>1. ExcSize \in Nat /\ PosSize \in Nat
    BY AlpAssumption
  <2> HIDE DEF ok, ints
  <2> QED BY <1>2, <1>3, <1>4, <2>1
<1>7. Estimate(up, b, sample, c) = w * x + y * z
  BY <1>5
<1> HIDE DEF w, x, y, z
<1> QED BY <1>6, <1>7, Z3

\* The combination that the search ends with is no worse than the first
\* EarlyExit + 1: so many are tried however bad they are.
LEMMA BestOfIs ==
  ASSUME NEW up, NEW b, NEW sample, DOMAIN sample = 1 .. Len(sample), Len(sample) \in Nat,
         NEW top \in Seq(ValidCombinations), Len(top) > 0
  PROVE  /\ BestOf(up, b, sample, top) \in ValidCombinations
         /\ \A j \in 1 .. Len(top) : j <= EarlyExit + 1 =>
              Estimate(up, b, sample, BestOf(up, b, sample, top)) <= Estimate(up, b, sample, top[j])
<1> DEFINE E(c) == Estimate(up, b, sample, c)
           last == Len(top) - 1
           start == [size |-> Estimate(up, b, sample, top[1]), c |-> top[1], worse |-> 0]
           S == {x \in [size : Int, c : ValidCombinations, worse : Nat] : x.size = E(x.c)}
           Step(n, x) == Searched(up, b, sample, x, top[n + 1])
           F == [p \in (1 .. last) \X S |-> Step(p[1], p[2])]
           Eq(g) == g = [n \in 0 .. last |-> IF n = 0 THEN start ELSE Step(n, g[n - 1])]
<1>1. last \in Nat /\ \A n \in 0 .. last : n + 1 \in 1 .. Len(top) /\ top[n + 1] \in ValidCombinations
  OBVIOUS
<1>2. \A c : E(c) \in Int
  BY EstimateIs
<1>3. start \in S
  <2>1. top[1] \in ValidCombinations /\ start.size = E(start.c)
    BY <1>1
  <2>2. E(top[1]) \in Int
    BY <1>2
  <2> QED BY <2>1, <2>2
\* What a step does: a search that has not been given up takes what is better.
<1>4. ASSUME NEW n \in 1 .. last, NEW x \in S
      PROVE  /\ Step(n, x) \in S /\ Step(n, x).size <= x.size /\ Step(n, x).worse <= x.worse + 1
             /\ x.worse # EarlyExit => Step(n, x).size <= E(top[n + 1])
  <2> DEFINE c == top[n + 1]
             size == Estimate(up, b, sample, c)
  <2>1. c \in ValidCombinations /\ size \in Int /\ size = E(c)
    BY <1>1, <1>2
  <2>2. Step(n, x) = IF x.worse = EarlyExit THEN x
                     ELSE IF size >= x.size THEN [x EXCEPT !.worse = @ + 1]
                     ELSE [size |-> size, c |-> c, worse |-> 0]
    BY Zenon DEF Searched, Better
  <2> HIDE DEF size, c, Step
  <2>3. x \in [size : Int, c : ValidCombinations, worse : Nat] /\ x.size = E(x.c)
    OBVIOUS
  <2> HIDE DEF E
  <2>4. CASE x.worse = EarlyExit
    BY <2>2, <2>3, <2>4
  <2>5. CASE x.worse # EarlyExit /\ size >= x.size
    <3> DEFINE y == [x EXCEPT !.worse = @ + 1]
    <3>1. y.size = x.size /\ y.c = x.c /\ y.worse = x.worse + 1 /\ y \in [size : Int, c : ValidCombinations, worse : Nat]
      BY <2>3
    <3>2. Step(n, x) = y
      BY <2>2, <2>5
    <3> HIDE DEF y
    <3> QED BY <2>1, <2>3, <2>5, <3>1, <3>2 DEF c
  <2>6. CASE x.worse # EarlyExit /\ ~ (size >= x.size)
    <3> DEFINE y == [size |-> size, c |-> c, worse |-> 0]
    <3>1. y.size = size /\ y.c = c /\ y.worse = 0 /\ y \in [size : Int, c : ValidCombinations, worse : Nat]
      BY <2>1
    <3>2. Step(n, x) = y
      BY <2>2, <2>6
    <3> HIDE DEF y
    <3> QED BY <2>1, <2>3, <2>6, <3>1, <3>2 DEF c
  <2> QED BY <2>4, <2>5, <2>6
<1>5. F \in [(1 .. last) \X S -> S]
  <2> HIDE DEF Step, S, last
  <2> QED BY <1>4
<1>6. PICK g \in [0 .. last -> S] : Recursive(last, start, F, g)
  <2> HIDE DEF F, S, last, start
  <2> QED BY <1>1, <1>3, <1>5, Recursion, Zenon
<1>7. Eq(g)
  <2>1. /\ g = [n \in 0 .. last |-> IF n = 0 THEN start ELSE F[<<n, g[n - 1]>>]]
        /\ \A n \in 1 .. last : g[n - 1] \in S
    <3>1. WrittenOut(S, last, start, F, g)
      <4> HIDE DEF F, S, last, start
      <4> QED BY <1>1, <1>3, <1>6, RecursiveIs, Zenon
    <3> HIDE DEF F, S, last, start
    <3> QED BY <3>1 DEF WrittenOut
  <2>2. \A n \in 1 .. last : F[<<n, g[n - 1]>>] = Step(n, g[n - 1])
    <3> HIDE DEF Step, S, last
    <3> QED BY <2>1
  <2>3. \A n \in 0 .. last : n # 0 => n \in 1 .. last
    BY <1>1
  <2> HIDE DEF Step, S, F, last, start
  <2> QED BY <2>1, <2>2, <2>3
<1> DEFINE k == CHOOSE h : Eq(h)
<1>8. BestOf(up, b, sample, top) = k[last].c
  BY Zenon DEF BestOf
<1>9. Eq(k)
  <2> HIDE DEF Eq
  <2> QED BY <1>7, Zenon
<1> HIDE DEF k
<1>10. k[0] = start /\ \A n \in 1 .. last : k[n] = Step(n, k[n - 1])
  <2>1. 0 \in 0 .. last /\ \A n \in 1 .. last : n \in 0 .. last /\ n # 0
    BY <1>1
  <2> HIDE DEF Step, last, start
  <2> QED BY <1>9, <2>1
<1> DEFINE Good(n) == /\ k[n] \in S /\ k[n].worse <= n
                      /\ \A j \in 1 .. Len(top) : j <= n + 1 /\ j <= EarlyExit + 1 => k[n].size <= E(top[j])
           Done == {n \in Nat : n <= last => Good(n)}
<1>11. 0 \in Done
  <2>1. k[0] \in S /\ k[0].worse = 0 /\ k[0].size = E(top[1]) /\ E(top[1]) \in Int
    BY <1>2, <1>3, <1>10
  <2>2. \A j \in 1 .. Len(top) : j <= 0 + 1 => j = 1
    OBVIOUS
  <2> HIDE DEF S, E
  <2> QED BY <2>1, <2>2
<1>12. ASSUME NEW n \in Nat, n \in Done PROVE n + 1 \in Done
  <2> SUFFICES ASSUME n + 1 <= last PROVE Good(n + 1)
    OBVIOUS
  <2>1. n + 1 \in 1 .. last /\ (n + 1) - 1 = n /\ n <= last
    BY <1>1
  <2>2. Good(n)
    <3> HIDE DEF Good
    <3> QED BY <1>12, <2>1
  <2> DEFINE x == k[n]
             y == k[n + 1]
  <2>3. x \in S /\ x.worse <= n
    BY <2>2
  <2>4. y = Step(n + 1, x)
    <3> HIDE DEF Step, last
    <3> QED BY <1>10, <2>1
  <2>5. /\ y \in S /\ y.size <= x.size /\ y.worse <= x.worse + 1
        /\ x.worse # EarlyExit => y.size <= E(top[(n + 1) + 1])
    <3> HIDE DEF Step, S, last, E, x, y
    <3> QED BY <1>4, <2>1, <2>3, <2>4
  <2>6. x.size \in Int /\ y.size \in Int /\ x.worse \in Nat /\ y.worse \in Nat
    BY <2>3, <2>5
  <2>7. ASSUME NEW j \in 1 .. Len(top), j <= (n + 1) + 1, j <= EarlyExit + 1 PROVE y.size <= E(top[j])
    <3>1. EarlyExit \in Nat /\ E(top[j]) \in Int
      BY <1>2, AlpAssumption
    <3>2. CASE j <= n + 1
      <4>1. x.size <= E(top[j])
        BY <2>2, <2>7, <3>2
      <4> HIDE DEF E, x, y
      <4> QED BY <2>5, <2>6, <3>1, <4>1
    <3>3. CASE ~ (j <= n + 1)
      <4>1. j = (n + 1) + 1 /\ n < EarlyExit
        BY <2>7, <3>1, <3>3
      <4>2. x.worse # EarlyExit
        <5> HIDE DEF x
        <5> QED BY <2>3, <2>6, <3>1, <4>1
      <4> HIDE DEF E, x, y
      <4> QED BY <2>5, <4>1, <4>2
    <3> QED BY <3>2, <3>3
  <2>8. y.worse <= n + 1
    <3> HIDE DEF x, y, S
    <3> QED BY <2>3, <2>5, <2>6
  <2> HIDE DEF S, E
  <2> QED BY <2>5, <2>7, <2>8
<1>13. Nat \subseteq Done
  <2> HIDE DEF Done
  <2> QED BY <1>11, <1>12, Successors
<1>14. Good(last)
  <2>1. last \in Done /\ last <= last
    BY <1>1, <1>13
  <2> HIDE DEF Good, last
  <2> QED BY <2>1
<1> DEFINE z == k[last]
<1>15. z \in S /\ \A j \in 1 .. Len(top) : j <= EarlyExit + 1 => z.size <= E(top[j])
  <2>1. \A j \in 1 .. Len(top) : j <= last + 1
    OBVIOUS
  <2> HIDE DEF S, E, last
  <2> QED BY <1>14, <2>1
<1>16. z.c \in ValidCombinations /\ z.size = E(z.c) /\ BestOf(up, b, sample, top) = z.c
  BY <1>8, <1>15
<1> HIDE DEF z
<1> QED BY <1>15, <1>16

-----------------------------------------------------------------------------
(* The column *)

\* What Init chooses for good: the column and the build.
Column ==
  /\ expr \in Exprs /\ build \in Builds
  /\ upper \in {input.upper : input \in Inputs} /\ upper \in Int
  /\ cells \in Seq(CellsOf(expr)) /\ cells # <<>>
  /\ data = Stored(cells)
  /\ nulls \in Seq(BOOLEAN) /\ Len(nulls) = Len(data)
  /\ \A i \in 1 .. Len(cells) : nulls[i] = (cells[i] = Null)

\* What is stored for a cell.
StoredOf(e) == {0} \cup (CellsOf(e) \ {Null})

\* The column is stored in whole vectors, with every cell that is not null.
LEMMA ColumnFacts ==
  ASSUME Column
  PROVE  /\ data \in Seq(StoredOf(expr))
         /\ NumVecs \in Nat \ {0} /\ Len(data) = VecSz * NumVecs
         /\ Len(data) >= Len(cells)
         /\ \A i \in 1 .. Len(cells) : cells[i] # Null => data[i] = cells[i]
<1>1. cells \in Seq(CellsOf(expr)) /\ cells # <<>> /\ data = StoredAs(cells, Null, 0, VecSz) /\ VecSz \in Nat \ {0}
  BY AlpAssumption DEF Column, Stored
<1> DEFINE q == (Len(cells) + VecSz - 1) \div VecSz
<1>2. /\ data \in Seq({0} \cup (CellsOf(expr) \ {Null}))
      /\ Len(data) = VecSz * q
      /\ Len(data) >= Len(cells)
      /\ \A i \in 1 .. Len(cells) : cells[i] # Null => data[i] = cells[i]
  <2>1. IsStored(data, CellsOf(expr), cells, Null, 0, VecSz)
    BY <1>1, StoredAsIs
  <2> QED BY <2>1 DEF IsStored
<1>3. q \in Nat
  <2>1. Len(cells) + VecSz - 1 \in Nat
    BY <1>1
  <2> QED BY <1>1, <2>1, DivisionFacts
<1> HIDE DEF q
<1>4. NumVecs = q
  <2>1. (VecSz * q + 0) \div VecSz = q
    BY <1>1, <1>3, RemainderUnique
  <2>2. VecSz * q \in Int
    BY <1>1, <1>3, Z3
  <2>3. VecSz * q + 0 = VecSz * q
    BY <2>2
  <2> QED BY <1>2, <2>1, <2>3 DEF NumVecs
<1>5. q # 0
  <2> SUFFICES ASSUME q = 0 PROVE FALSE
    OBVIOUS
  <2>1. Len(data) = 0
    BY <1>1, <1>2
  <2> QED BY <1>1, <1>2, <2>1
<1> QED BY <1>2, <1>3, <1>4, <1>5 DEF StoredOf

\* A vector is VecSz values of the column.
LEMMA VecOfIs ==
  ASSUME Column, NEW v \in 0 .. NumVecs - 1
  PROVE  /\ VecOf(data, v) \in Seq(StoredOf(expr))
         /\ DOMAIN VecOf(data, v) = 1 .. VecSz
         /\ \A i \in 1 .. VecSz : /\ v * VecSz + i \in 1 .. Len(data)
                                /\ VecOf(data, v)[i] = data[v * VecSz + i]
                                /\ VecOf(nulls, v)[i] = nulls[v * VecSz + i]
<1>1. VecSz \in Nat \ {0}
  BY AlpAssumption
<1>2. data \in Seq(StoredOf(expr)) /\ NumVecs \in Nat /\ Len(data) = VecSz * NumVecs
  BY ColumnFacts
<1>3. /\ VectorOf(data, v, VecSz) \in Seq(StoredOf(expr))
      /\ DOMAIN VectorOf(data, v, VecSz) = 1 .. VecSz
      /\ \A i \in 1 .. VecSz : /\ v * VecSz + i \in 1 .. Len(data)
                             /\ VectorOf(data, v, VecSz)[i] = data[v * VecSz + i]
  BY <1>1, <1>2, VectorOfIs
<1>4. \A i \in 1 .. VecSz : VectorOf(nulls, v, VecSz)[i] = nulls[v * VecSz + i]
  BY DEF VectorOf
<1> QED BY <1>3, <1>4 DEF VecOf

\* A vector is sampled, at least at its first value.
LEMMA SampleIs ==
  ASSUME NEW s
  PROVE  /\ SamplesPerVector \in Nat \ {0}
         /\ DOMAIN SampleOf(s) = 1 .. SamplesPerVector /\ Len(SampleOf(s)) = SamplesPerVector
         /\ \A k \in 1 .. SamplesPerVector : /\ (k - 1) * Increment + 1 \in 1 .. VecSz
                                           /\ SampleOf(s)[k] = s[(k - 1) * Increment + 1]
<1> DEFINE n == SamplesPerVector
<1>1. VecSz \in Nat \ {0} /\ Increment \in 1 .. VecSz /\ Increment \in Nat \ {0} /\ VecSz % Increment = 0
  BY AlpAssumption
<1>2. VecSz = Increment * n /\ n \in Nat
  <2>1. VecSz = Increment * n + (VecSz % Increment) /\ n \in Nat
    BY <1>1, DivisionFacts DEF SamplesPerVector
  <2>2. Increment * n \in Int
    BY <1>1, <2>1, Z3
  <2> QED BY <1>1, <2>1, <2>2
<1>3. n # 0
  <2> HIDE DEF n
  <2> QED BY <1>1, <1>2
<1>4. ASSUME NEW k \in 1 .. n PROVE (k - 1) * Increment + 1 \in 1 .. VecSz
  <2> HIDE DEF n
  <2> DEFINE a == (k - 1) * Increment
  <2>1. k - 1 \in Nat /\ k <= n
    BY <1>2
  <2>2. a \in Nat /\ a + Increment = Increment * k /\ Increment * k <= Increment * n
    BY <1>1, <1>2, <2>1, Z3
  <2> HIDE DEF a
  <2>3. a + 1 \in 1 .. VecSz
    <3>1. a + Increment <= VecSz
      BY <1>2, <2>2
    <3> QED BY <1>1, <2>2, <3>1
  <2> QED BY <2>3 DEF a
<1>5. SampleOf(s) = [k \in 1 .. n |-> s[(k - 1) * Increment + 1]]
  BY DEF SampleOf
<1> HIDE DEF n
<1>6. DOMAIN SampleOf(s) = 1 .. n /\ \A k \in 1 .. n : SampleOf(s)[k] = s[(k - 1) * Increment + 1]
  BY <1>5
<1>7. Len(SampleOf(s)) = n
  <2> DEFINE t(k) == s[(k - 1) * Increment + 1]
  <2>1. SampleOf(s) = [k \in 1 .. n |-> t(k)]
    BY <1>5
  <2> HIDE DEF t
  <2> QED BY <1>2, <2>1
<1> QED BY <1>2, <1>3, <1>4, <1>6, <1>7 DEF n

\* The first vector of every Jump is sampled, the first of the column among them.
LEMMA FirstLevelSampleIs ==
  ASSUME Column
  PROVE  /\ Len(FirstLevelSample) \in Nat \ {0}
         /\ DOMAIN FirstLevelSample = 1 .. Len(FirstLevelSample)
         /\ \A j \in 1 .. Len(FirstLevelSample) :
              /\ (j - 1) * Jump \in 0 .. NumVecs - 1
              /\ FirstLevelSample[j] = SampleOf(VecOf(data, (j - 1) * Jump))
<1> DEFINE n == Min({MaxSampled, NumVecs})
           q == (n + Jump - 1) \div Jump
           t(j) == SampleOf(VecOf(data, (j - 1) * Jump))
<1>1. Jump \in Nat \ {0} /\ n \in Nat \ {0} /\ NumVecs \in Nat \ {0} /\ n <= NumVecs
  <2>1. Jump \in Nat \ {0} /\ MaxSampled \in Nat \ {0} /\ NumVecs \in Nat \ {0}
    BY AlpAssumption, ColumnFacts
  <2>2. n = IF MaxSampled <= NumVecs THEN MaxSampled ELSE NumVecs
    BY <2>1, MinOfTwo
  <2> QED BY <2>1, <2>2
<1> HIDE DEF n
<1> DEFINE r == (n + Jump - 1) % Jump
<1>2. n + Jump - 1 = Jump * q + r /\ r \in 0 .. Jump - 1 /\ q \in Nat
  <2>1. n + Jump - 1 \in Nat
    BY <1>1
  <2> QED BY <1>1, <2>1, DivisionFacts
<1> HIDE DEF q, r
<1>3. q # 0
  <2> SUFFICES ASSUME q = 0 PROVE FALSE
    OBVIOUS
  <2>1. Jump * q = 0
    BY <1>1
  <2> QED BY <1>1, <1>2, <2>1
<1>4. ASSUME NEW j \in 1 .. q PROVE (j - 1) * Jump \in 0 .. NumVecs - 1
  <2> DEFINE a == (j - 1) * Jump
             b == Jump * q
  <2>1. j - 1 \in Nat /\ j <= q
    BY <1>2
  <2>2. a \in Nat /\ a + Jump = Jump * j /\ Jump * j <= b /\ b \in Nat /\ Jump * j \in Nat
    BY <1>1, <1>2, <2>1, Z3
  <2>3. n + Jump - 1 = b + r
    BY <1>2
  <2> HIDE DEF a, b
  <2>4. a \in 0 .. NumVecs - 1
    BY <1>1, <1>2, <2>2, <2>3
  <2> QED BY <2>4 DEF a
<1>5. FirstLevelSample = [j \in 1 .. q |-> t(j)]
  BY DEF FirstLevelSample, q, n
<1> HIDE DEF t
<1>6. Len(FirstLevelSample) = q /\ DOMAIN FirstLevelSample = 1 .. q /\ \A j \in 1 .. q : FirstLevelSample[j] = t(j)
  BY <1>2, <1>5
<1> QED BY <1>2, <1>3, <1>4, <1>6 DEF t, n

\* What init leaves for ALP: valid combinations, as many as it says, or none.
AlpState(s) ==
  /\ s.top \in Seq(ValidCombinations)
  /\ s.top # <<>> => s.k = Len(s.top)

\* The state of a column is that of its expression.
LEMMA AlpInitIs ==
  ASSUME Column, NEW up, NEW b
  PROVE  AlpState(AlpInit(up, b))
<1> DEFINE found == FoundIn(up, b, FirstLevelSample)
           top == TopCombinations(found)
           n == Len(FirstLevelSample)
<1>1. n \in Nat \ {0}
  BY FirstLevelSampleIs
<1>2. ValidFinds(found, n)
  <2> HIDE DEF n
  <2>1. Len(FirstLevelSample) = n
    BY DEF n
  <2> QED BY <1>1, <2>1, FoundInIs
<1>3. top \in Seq(ValidCombinations)
  <2> HIDE DEF n, found
  <2> QED BY <1>1, <1>2, TopCombinationsAre
<1>4. AlpInit(up, b) \in {[scheme |-> "ALP_RD", k |-> MaxK, top |-> <<>>],
                         [scheme |-> "ALP", k |-> Len(top), top |-> top]}
  BY Zenon DEF AlpInit
<1> HIDE DEF top
<1>5. AlpState([scheme |-> "ALP_RD", k |-> MaxK, top |-> <<>>])
  BY DEF AlpState
<1>6. AlpState([scheme |-> "ALP", k |-> Len(top), top |-> top])
  BY <1>3 DEF AlpState
<1> QED BY <1>4, <1>5, <1>6

\* The combination of a vector is valid, and on the vector's sample no worse
\* than those the search is sure to try.
LEMMA CombinationIs ==
  ASSUME Column, AlpState(state), state.top # <<>>, NEW v \in 0 .. NumVecs - 1
  PROVE  LET s == VecOf(data, v)
         IN  /\ Combination(s) \in ValidCombinations
             /\ \A k \in 1 .. Min({Len(state.top), EarlyExit + 1}) :
                  Estimate(upper, build, SampleOf(s), Combination(s))
                    <= Estimate(upper, build, SampleOf(s), state.top[k])
<1> DEFINE s == VecOf(data, v)
           sample == SampleOf(s)
           top == state.top
           E(c) == Estimate(upper, build, sample, c)
<1>1. DOMAIN sample = 1 .. Len(sample) /\ Len(sample) \in Nat
  BY SampleIs
<1>2. top \in Seq(ValidCombinations) /\ Len(top) > 0 /\ state.k = Len(top) /\ Len(top) \in Nat
  BY DEF AlpState
<1>3. EarlyExit \in Nat \ {0}
  BY AlpAssumption
<1>4. \A c : E(c) \in Int
  BY <1>1, EstimateIs
<1>5. ASSUME NEW k \in 1 .. Min({Len(top), EarlyExit + 1})
      PROVE  k \in 1 .. Len(top) /\ k <= EarlyExit + 1
  <2> DEFINE a == Len(top)
             b == EarlyExit + 1
  <2>1. a \in Int /\ b \in Int
    BY <1>2, <1>3
  <2> HIDE DEF a, b
  <2>2. Min({a, b}) = IF a <= b THEN a ELSE b
    BY <2>1, MinOfTwo
  <2>3. k \in 1 .. Min({a, b})
    BY DEF a, b
  <2>4. k \in 1 .. a /\ k <= b
    BY <2>1, <2>2, <2>3
  <2> QED BY <2>4 DEF a, b
<1>6. CASE state.k > 1
  <2>1. Combination(s) = BestOf(upper, build, sample, top)
    BY <1>6, Zenon DEF Combination
  <2>2. /\ BestOf(upper, build, sample, top) \in ValidCombinations
        /\ \A j \in 1 .. Len(top) : j <= EarlyExit + 1 => E(BestOf(upper, build, sample, top)) <= E(top[j])
    <3> HIDE DEF sample, top
    <3> QED BY <1>1, <1>2, BestOfIs
  <2> HIDE DEF E, top
  <2>3. /\ Combination(s) \in ValidCombinations
        /\ \A k \in 1 .. Min({Len(top), EarlyExit + 1}) : E(Combination(s)) <= E(top[k])
    BY <1>5, <2>1, <2>2
  <2> QED BY <2>3 DEF E, top
<1>7. CASE ~ (state.k > 1)
  <2>1. Combination(s) = top[1]
    BY <1>7, Zenon DEF Combination
  <2>2. Len(top) = 1 /\ top[1] \in ValidCombinations
    <3> HIDE DEF top
    <3> DEFINE m == Len(top)
               k == state.k
    <3>1. m \in Nat /\ m > 0 /\ k = m /\ ~ (k > 1)
      BY <1>2, <1>7
    <3> HIDE DEF m, k
    <3>2. m = 1
      BY <3>1
    <3>3. 1 \in 1 .. m
      BY <3>1
    <3>4. \A j \in 1 .. m : top[j] \in ValidCombinations
      BY <1>2 DEF m
    <3> QED BY <3>2, <3>3, <3>4 DEF m
  <2>3. \A k \in 1 .. Min({Len(top), EarlyExit + 1}) : k = 1
    BY <1>5, <2>2
  <2> HIDE DEF E, top
  <2>4. /\ Combination(s) \in ValidCombinations
        /\ \A k \in 1 .. Min({Len(top), EarlyExit + 1}) : E(Combination(s)) <= E(top[k])
    <3>1. E(top[1]) \in Int
      BY <1>4
    <3>2. E(top[1]) <= E(top[1])
      BY <3>1
    <3> QED BY <2>1, <2>2, <2>3, <3>2
  <2> QED BY <2>4 DEF E, top
<1> QED BY <1>6, <1>7

-----------------------------------------------------------------------------
(* Exceptions *)

\* Positions in a vector, in order.
Positions == {pos \in Seq(0 .. VecSz - 1) : Increasing(pos)}

\* What positions are.
LEMMA PositionsType ==
  ASSUME NEW pos \in Positions
  PROVE  /\ Len(pos) \in Nat /\ DOMAIN pos = 1 .. Len(pos) /\ Increasing(pos)
         /\ \A k \in 1 .. Len(pos) : pos[k] \in 0 .. VecSz - 1
<1> DEFINE A == 0 .. VecSz - 1
<1>1. pos \in Seq(A) /\ Increasing(pos)
  BY Zenon DEF Positions
<1> HIDE DEF A
<1>2. Len(pos) \in Nat /\ DOMAIN pos = 1 .. Len(pos) /\ \A k \in 1 .. Len(pos) : pos[k] \in A
  BY <1>1
<1> QED BY <1>1, <1>2 DEF A

\* Every position of a vector.
LEMMA AllPositions ==
  LET all == [i \in 1 .. VecSz |-> i - 1]
  IN  all \in Positions /\ Range(all) = 0 .. VecSz - 1
<1> DEFINE all == [i \in 1 .. VecSz |-> i - 1]
<1>1. VecSz \in Nat
  BY AlpAssumption
<1>2. \A i \in 1 .. VecSz : i - 1 \in 0 .. VecSz - 1
  BY <1>1
<1>3. all \in Seq(0 .. VecSz - 1) /\ Len(all) = VecSz
  BY <1>1, <1>2
<1>4. Increasing(all)
  BY <1>1, <1>3 DEF Increasing
<1>5. Range(all) = 0 .. VecSz - 1
  <2>1. Range(all) = {all[i] : i \in 1 .. VecSz}
    BY DEF Range
  <2>2. ASSUME NEW p \in 0 .. VecSz - 1 PROVE p \in Range(all)
    <3>1. p + 1 \in 1 .. VecSz /\ all[p + 1] = p
      BY <1>1
    <3> QED BY <2>1, <3>1
  <2>3. ASSUME NEW p \in Range(all) PROVE p \in 0 .. VecSz - 1
    BY <1>2, <2>1
  <2> QED BY <2>2, <2>3
<1> QED BY <1>3, <1>4, <1>5 DEF Positions

\* Some positions are kept in order.
LEMMA KeptPositions ==
  ASSUME NEW pos \in Positions, NEW T
  PROVE  Kept(pos, T) \in Positions /\ Range(Kept(pos, T)) = Range(pos) \cap T
<1> DEFINE A == 0 .. VecSz - 1
<1>1. pos \in Seq(A) /\ Increasing(pos) /\ A \in SUBSET Int
  BY AlpAssumption DEF Positions
<1> HIDE DEF A
<1>2. Seq(A \cap T) \subseteq Seq(A)
  OBVIOUS
<1>3. Kept(pos, T) \in Seq(A)
  BY <1>1, <1>2, KeptFacts
<1>4. Increasing(Kept(pos, T))
  BY <1>1, KeptIncreases
<1>5. Range(Kept(pos, T)) = Range(pos) \cap T
  BY <1>1, KeptRange
<1> QED BY <1>3, <1>4, <1>5 DEF Positions, A

\* The positions that a vector's exceptions have.
LEMMA ExceptionsAre ==
  ASSUME NEW s, DOMAIN s = 1 .. VecSz, NEW c
  PROVE  /\ ExceptionPositions(s, c) \in Positions
         /\ \A i \in 1 .. VecSz : i - 1 \in Range(ExceptionPositions(s, c))
                                    <=> ~ Exact(upper, build, WithoutSpecials(s)[i], c)
<1> DEFINE all == [i \in 1 .. VecSz |-> i - 1]
           w == WithoutSpecials(s)
           T == {i \in 0 .. VecSz - 1 : ~ Exact(upper, build, w[i + 1], c)}
<1>1. ExceptionPositions(s, c) = Kept(all, T)
  BY Zenon DEF ExceptionPositions
<1>2. all \in Positions /\ Range(all) = 0 .. VecSz - 1
  BY AllPositions
<1> HIDE DEF all, w
<1>3. Kept(all, T) \in Positions /\ Range(Kept(all, T)) = (0 .. VecSz - 1) \cap T
  <2> HIDE DEF T
  <2> QED BY <1>2, KeptPositions
<1>4. ASSUME NEW i \in 1 .. VecSz
      PROVE  i - 1 \in (0 .. VecSz - 1) \cap T <=> ~ Exact(upper, build, w[i], c)
  <2>1. i - 1 \in 0 .. VecSz - 1 /\ (i - 1) + 1 = i
    BY AlpAssumption
  <2> QED BY <2>1
<1> HIDE DEF T
<1> QED BY <1>1, <1>3, <1>4 DEF w

\* A value that is not an exception is decoded to itself; it is neither -0.0
\* nor NaN.
LEMMA ExactIs ==
  ASSUME Column, NEW s, DOMAIN s = 1 .. VecSz, NEW c \in ValidCombinations, NEW i \in 1 .. VecSz,
         Exact(upper, build, WithoutSpecials(s)[i], c)
  PROVE  /\ s[i] # NegZero /\ WithoutSpecials(s)[i] = s[i]
         /\ Exact(upper, build, s[i], c)
         /\ DecodeValue(EncodeValue(upper, build, s[i], c), c) = s[i]
<1>1. WithoutSpecials(s)[i] = IF s[i] = NegZero \/ (s[i] = NaN /\ IsFloat) THEN upper * Scale ELSE s[i]
  BY DEF WithoutSpecials
<1>2. ~ Exact(upper, build, upper * Scale, c)
  BY AlpAssumption, Zenon DEF UpperNeverDecodes, Column
<1>3. s[i] # NegZero /\ WithoutSpecials(s)[i] = s[i]
  BY <1>1, <1>2, Zenon
<1>4. Exact(upper, build, s[i], c)
  BY <1>3, Zenon
<1>5. DecodeValue(EncodeValue(upper, build, s[i], c), c) = s[i]
  BY <1>3, <1>4, Zenon DEF Exact, Equal
<1> QED BY <1>3, <1>4, <1>5

\* The n-th of some positions is n or more, counted from 0.
LEMMA PositionsSpread ==
  ASSUME NEW pos \in Positions
  PROVE  \A k \in 1 .. Len(pos) : pos[k] >= k - 1
<1>1. Len(pos) \in Nat /\ (\A k \in 1 .. Len(pos) : pos[k] \in 0 .. VecSz - 1) /\ Increasing(pos)
  BY PositionsType
<1>2. VecSz \in Nat
  BY AlpAssumption
<1> DEFINE S == {n \in Nat : n < Len(pos) => pos[n + 1] >= n}
<1>3. 0 \in S
  BY <1>1, <1>2
<1>4. ASSUME NEW n \in Nat, n \in S PROVE n + 1 \in S
  <2> SUFFICES ASSUME n + 1 < Len(pos) PROVE pos[(n + 1) + 1] >= n + 1
    OBVIOUS
  <2>1. n + 1 \in 1 .. Len(pos) /\ (n + 1) + 1 \in 1 .. Len(pos) /\ n + 1 < (n + 1) + 1
    BY <1>1
  <2>2. pos[n + 1] < pos[(n + 1) + 1]
    BY <1>1, <2>1 DEF Increasing
  <2>3. pos[n + 1] >= n
    BY <1>1, <1>4
  <2>4. pos[n + 1] \in Int /\ pos[(n + 1) + 1] \in Int
    BY <1>1, <2>1
  <2> QED BY <2>2, <2>3, <2>4
<1>5. Nat \subseteq S
  <2> HIDE DEF S
  <2> QED BY <1>3, <1>4, Successors
<1> TAKE k \in 1 .. Len(pos)
<1>6. k - 1 \in S /\ k - 1 < Len(pos) /\ (k - 1) + 1 = k
  BY <1>1, <1>5
<1> QED BY <1>6

\* What the array of positions holds in the end.
LEMMA TmpIndexIs ==
  ASSUME NEW pos \in Positions, tmp_index \in [0 .. VecSz - 1 -> 0 .. VecSz - 1]
  PROVE  /\ TmpIndex(pos) \in [0 .. VecSz - 1 -> 0 .. VecSz - 1]
         /\ \A k \in 1 .. Len(pos) : k - 1 \in 0 .. VecSz - 1 /\ TmpIndex(pos)[k - 1] = pos[k]
<1>1. Len(pos) \in Nat /\ (\A k \in 1 .. Len(pos) : pos[k] \in 0 .. VecSz - 1) /\ VecSz \in Nat \ {0}
  BY AlpAssumption, PositionsType
<1> DEFINE at(i) == IF i < Len(pos) THEN pos[i + 1]
                    ELSE IF i = Len(pos) /\ build # "avx512" /\ VecSz - 1 \notin Range(pos) THEN VecSz - 1
                    ELSE tmp_index[i]
<1>2. TmpIndex(pos) = [i \in 0 .. VecSz - 1 |-> at(i)]
  BY DEF TmpIndex
<1>3. ASSUME NEW i \in 0 .. VecSz - 1 PROVE at(i) \in 0 .. VecSz - 1
  <2>1. i < Len(pos) => i + 1 \in 1 .. Len(pos)
    BY <1>1
  <2>2. VecSz - 1 \in 0 .. VecSz - 1 /\ tmp_index[i] \in 0 .. VecSz - 1
    BY <1>1
  <2> QED BY <1>1, <2>1, <2>2
<1>4. ASSUME NEW k \in 1 .. Len(pos) PROVE k - 1 \in 0 .. VecSz - 1 /\ at(k - 1) = pos[k]
  <2>1. pos[k] >= k - 1 /\ pos[k] \in 0 .. VecSz - 1
    BY <1>1, PositionsSpread
  <2>2. k - 1 \in 0 .. VecSz - 1 /\ k - 1 < Len(pos) /\ (k - 1) + 1 = k
    BY <1>1, <2>1
  <2> QED BY <2>2
<1> HIDE DEF at
<1> QED BY <1>2, <1>3, <1>4

\* The value that takes the place of exceptions is not that of an exception,
\* whatever else the array of positions holds.
LEMMA FillerIs ==
  ASSUME NEW pos \in Positions, tmp_index \in [0 .. VecSz - 1 -> 0 .. VecSz - 1], NEW ints \in Ints
  PROVE  \/ Filler(ints, TmpIndex(pos)) = 0
         \/ \E i \in 1 .. VecSz : i - 1 \notin Range(pos) /\ Filler(ints, TmpIndex(pos)) = ints[i]
<1> DEFINE tmp == TmpIndex(pos)
           free == {i \in 0 .. VecSz - 1 : tmp[i] # i}
           f == Min(free)
<1>1. /\ Len(pos) \in Nat /\ (\A k \in 1 .. Len(pos) : pos[k] \in 0 .. VecSz - 1)
      /\ DOMAIN pos = 1 .. Len(pos) /\ VecSz \in Nat \ {0}
  BY AlpAssumption, PositionsType
<1>2. \A k \in 1 .. Len(pos) : k - 1 \in 0 .. VecSz - 1 /\ tmp[k - 1] = pos[k]
  BY TmpIndexIs
<1>3. Filler(ints, tmp) = IF free = {} THEN 0 ELSE ints[f + 1]
  BY Zenon DEF Filler
<1> HIDE DEF tmp
<1>4. CASE free # {}
  <2>1. f \in free /\ \A y \in free : f <= y
    <3>1. free \in SUBSET (0 .. VecSz - 1) /\ IsFiniteSet(0 .. VecSz - 1)
      BY <1>1, FS_Interval
    <3>2. IsFiniteSet(free) /\ free \in SUBSET Int
      <4>1. 0 .. VecSz - 1 \in SUBSET Int
        BY <1>1
      <4> HIDE DEF free
      <4> QED BY <3>1, <4>1, FS_Subset
    <3> HIDE DEF free
    <3> QED BY <1>4, <3>2, MinIs
  <2>2. f \in 0 .. VecSz - 1 /\ tmp[f] # f /\ \A y \in 0 .. VecSz - 1 : tmp[y] # y => f <= y
    BY <2>1
  <2>3. f + 1 \in 1 .. VecSz /\ (f + 1) - 1 = f
    BY <1>1, <2>2
  <2> HIDE DEF f, free
  <2>4. f \notin Range(pos)
    <3> SUFFICES ASSUME f \in Range(pos) PROVE FALSE
      OBVIOUS
    <3>1. PICK k \in 1 .. Len(pos) : pos[k] = f
      BY <1>1 DEF Range
    <3>2. f >= k - 1 /\ k - 1 \in 0 .. VecSz - 1 /\ tmp[k - 1] = f
      BY <1>2, <3>1, PositionsSpread
    <3>3. k - 1 # f
      BY <2>2, <3>2
    <3>4. f <= k - 1
      BY <2>2, <3>2, <3>3
    <3> QED BY <1>1, <2>2, <3>2, <3>3, <3>4
  <2> QED BY <1>3, <1>4, <2>3, <2>4 DEF tmp
<1> QED BY <1>3, <1>4 DEF tmp

\* The integers of a vector once exceptions have been filled in.
LEMMA FilledIs ==
  ASSUME NEW pos \in Positions, tmp_index \in [0 .. VecSz - 1 -> 0 .. VecSz - 1], NEW ints \in Ints
  PROVE  /\ Filled(ints, pos, TmpIndex(pos)) \in Ints
         /\ \A i \in 1 .. VecSz : i - 1 \notin Range(pos) => Filled(ints, pos, TmpIndex(pos))[i] = ints[i]
         /\ \A i \in 1 .. VecSz :
              \/ Filled(ints, pos, TmpIndex(pos))[i] = 0
              \/ \E j \in 1 .. VecSz : j - 1 \notin Range(pos) /\ Filled(ints, pos, TmpIndex(pos))[i] = ints[j]
<1> DEFINE z == Filler(ints, TmpIndex(pos))
           t == Filled(ints, pos, TmpIndex(pos))
<1>1. \/ z = 0
      \/ \E j \in 1 .. VecSz : j - 1 \notin Range(pos) /\ z = ints[j]
  BY FillerIs
<1>2. DOMAIN ints = 1 .. VecSz /\ \A i \in 1 .. VecSz : ints[i] \in IntMin .. IntMax
  BY DEF Ints
<1>3. t = [i \in 1 .. VecSz |-> IF i - 1 \in Range(pos) THEN z ELSE ints[i]]
  BY <1>2, Zenon DEF Filled
<1>4. z \in IntMin .. IntMax
  BY <1>1, <1>2, IntRange
<1> HIDE DEF z, t
<1>5. t \in Ints
  BY <1>2, <1>3, <1>4 DEF Ints
<1>6. \A i \in 1 .. VecSz : i - 1 \notin Range(pos) => t[i] = ints[i]
  BY <1>3
<1>7. ASSUME NEW i \in 1 .. VecSz
      PROVE  \/ t[i] = 0
             \/ \E j \in 1 .. VecSz : j - 1 \notin Range(pos) /\ t[i] = ints[j]
  <2>1. CASE i - 1 \in Range(pos)
    <3>1. t[i] = z
      BY <1>3, <2>1
    <3> QED BY <1>1, <3>1
  <2>2. CASE i - 1 \notin Range(pos)
    BY <1>6, <2>2
  <2> QED BY <2>1, <2>2
<1> QED BY <1>5, <1>6, <1>7 DEF t

\* A vector is encoded into integers of ST.
LEMMA EncodedIs ==
  ASSUME NEW s, DOMAIN s = 1 .. VecSz, NEW c
  PROVE  /\ Encoded(s, c) \in Ints
         /\ \A i \in 1 .. VecSz : Encoded(s, c)[i] = EncodeValue(upper, build, WithoutSpecials(s)[i], c)
<1> DEFINE w == WithoutSpecials(s)
           e(i) == EncodeValue(upper, build, w[i], c)
<1>1. Encoded(s, c) = [i \in 1 .. VecSz |-> e(i)]
  BY Zenon DEF Encoded
<1>2. \A i \in 1 .. VecSz : e(i) \in IntMin .. IntMax
  BY EncodeRange
<1>3. \A i \in 1 .. VecSz : Encoded(s, c)[i] = e(i)
  BY <1>1
<1> HIDE DEF e, w
<1>4. Encoded(s, c) \in Ints
  BY <1>1, <1>2 DEF Ints
<1> QED BY <1>3, <1>4 DEF e, w

-----------------------------------------------------------------------------
(* Lanes *)

\* The lanes of a chunk are apart: what LanesSeparate says of it.
Apart(ch) ==
  LET first == [l \in 1 .. NumLanes |-> IF l = 1 THEN 1 ELSE ch.ends[l - 1] + 1]
  IN  /\ ch.ends[NumLanes] = Len(ch.pos)
      /\ \A l \in 1 .. NumLanes :
           /\ ch.ends[l] - first[l] + 1 = ch.counts[l]
           /\ \A k \in first[l] .. ch.ends[l] : ch.pos[k] % NumLanes = l - 1
           /\ \A k \in first[l] .. ch.ends[l] - 1 : ch.pos[k] < ch.pos[k + 1]

\* The positions of one lane.
LEMMA LaneIs ==
  ASSUME NEW pos \in Positions, NEW l \in 1 .. NumLanes
  PROVE  /\ LanePositions(pos, l - 1) \in Positions
         /\ \A k \in 1 .. Len(LanePositions(pos, l - 1)) :
              /\ LanePositions(pos, l - 1)[k] \in Range(pos)
              /\ LanePositions(pos, l - 1)[k] % NumLanes = l - 1
         /\ \A p \in Range(pos) : p % NumLanes = l - 1 =>
              \E k \in 1 .. Len(LanePositions(pos, l - 1)) : LanePositions(pos, l - 1)[k] = p
<1> DEFINE T == {p \in 0 .. VecSz - 1 : p % NumLanes = l - 1}
           s == LanePositions(pos, l - 1)
<1>1. s = Kept(pos, T)
  BY Zenon DEF LanePositions
<1>2. s \in Positions /\ Range(s) = Range(pos) \cap T
  <2> HIDE DEF T, s
  <2> QED BY <1>1, KeptPositions
<1> HIDE DEF s
<1>3. DOMAIN s = 1 .. Len(s)
  BY <1>2, PositionsType
<1>4. Range(s) = {s[k] : k \in 1 .. Len(s)}
  BY <1>3 DEF Range
<1>5. \A p \in Range(pos) : p \in 0 .. VecSz - 1
  <2>1. DOMAIN pos = 1 .. Len(pos) /\ \A k \in 1 .. Len(pos) : pos[k] \in 0 .. VecSz - 1
    BY PositionsType
  <2> QED BY <2>1 DEF Range
<1>6. \A k \in 1 .. Len(s) : s[k] \in Range(pos) /\ s[k] % NumLanes = l - 1
  BY <1>2, <1>4
<1>7. ASSUME NEW p \in Range(pos), p % NumLanes = l - 1 PROVE \E k \in 1 .. Len(s) : s[k] = p
  <2>1. p \in Range(s)
    BY <1>2, <1>5, <1>7
  <2> QED BY <1>4, <2>1
<1> QED BY <1>2, <1>6, <1>7 DEF s

\* Laid out by lane the positions are the same, lane after lane.
LEMMA ByLaneIs ==
  ASSUME NEW pos \in Positions
  PROVE  /\ ByLane(pos) \in Seq(0 .. VecSz - 1)
         /\ Range(ByLane(pos)) = Range(pos)
         /\ \A ch : ch.pos = ByLane(pos) /\ ch.counts = Counts(pos) /\ ch.ends = LaneEnds(pos) => Apart(ch)
<1> DEFINE lane(l) == LanePositions(pos, l - 1)
           ls == [l \in 1 .. NumLanes |-> lane(l)]
           J == Joined(ls)
           lens == LengthsOf(ls)
           ends == Sums(lens)
           A == 0 .. VecSz - 1
<1>1. NumLanes \in Nat \ {0}
  BY AlpAssumption
<1>2. ASSUME NEW l \in 1 .. NumLanes PROVE lane(l) \in Seq(A) /\ Increasing(lane(l)) /\ Len(lane(l)) \in Nat
  <2>1. lane(l) \in Positions
    BY LaneIs
  <2> QED BY <2>1, PositionsType DEF Positions
<1>3. /\ \A l \in 1 .. NumLanes : \A k \in 1 .. Len(lane(l)) :
           lane(l)[k] \in Range(pos) /\ lane(l)[k] % NumLanes = l - 1
      /\ \A l \in 1 .. NumLanes : \A p \in Range(pos) :
           p % NumLanes = l - 1 => \E k \in 1 .. Len(lane(l)) : lane(l)[k] = p
  BY LaneIs
<1>4. ByLane(pos) = J /\ Counts(pos) = [l \in 1 .. NumLanes |-> Len(lane(l))]
  BY Zenon DEF ByLane, Counts
<1> HIDE DEF lane, A
<1>5. ls \in Seq(Seq(A)) /\ Len(ls) = NumLanes /\ \A l \in 1 .. NumLanes : ls[l] = lane(l)
  BY <1>1, <1>2
<1>6. Counts(pos) = lens /\ lens \in Seq(Nat) /\ Len(lens) = NumLanes /\ \A l \in 1 .. NumLanes : lens[l] = Len(lane(l))
  <2>1. lens = [l \in 1 .. NumLanes |-> Len(lane(l))]
    <3> HIDE DEF ls
    <3> QED BY <1>5 DEF LengthsOf
  <2> HIDE DEF lens
  <2> QED BY <1>1, <1>2, <1>4, <2>1
<1> HIDE DEF ls
<1>7. J \in Seq(A) /\ Tiled(ls, NumLanes, J)
  BY <1>5, JoinedFacts
<1>8. /\ Len(J) = ends[NumLanes]
      /\ \A l \in 1 .. NumLanes : \A k \in 1 .. Len(lane(l)) : J[ends[l - 1] + k] = lane(l)[k]
      /\ \A i \in 1 .. Len(J) : \E l \in 1 .. NumLanes : i \in ends[l - 1] + 1 .. ends[l]
  BY <1>5, <1>7 DEF Tiled
<1> HIDE DEF J, lens
<1>9. /\ ends \in [0 .. NumLanes -> Nat]
      /\ \A m \in 0 .. NumLanes, n \in 0 .. NumLanes : m <= n => ends[m] <= ends[n]
  BY <1>6, SumsGrow
<1>10. ends[0] = 0 /\ \A l \in 1 .. NumLanes : ends[l] = ends[l - 1] + Len(lane(l))
  <2>1. lens \in Seq(Int)
    BY <1>6
  <2>2. SumsBy(lens, ends)
    <3> HIDE DEF ends
    <3> QED BY <2>1, SumsSteps DEF ends
  <2> HIDE DEF ends
  <2> QED BY <1>6, <2>2 DEF SumsBy
<1>11. LaneEnds(pos) = [l \in 1 .. NumLanes |-> ends[l]]
  BY <1>6 DEF LaneEnds
<1> HIDE DEF ends
\* A position in the stretch of a lane is one of that lane.
<1>12. ASSUME NEW l \in 1 .. NumLanes
       PROVE  /\ l - 1 \in 0 .. NumLanes /\ l \in 0 .. NumLanes
              /\ ends[l - 1] \in Nat /\ ends[l] \in Nat /\ ends[l] <= ends[NumLanes]
              /\ ends[l] = ends[l - 1] + Len(lane(l)) /\ Len(lane(l)) \in Nat
  <2>1. l - 1 \in 0 .. NumLanes /\ l \in 0 .. NumLanes /\ NumLanes \in 0 .. NumLanes /\ l <= NumLanes
    BY <1>1
  <2> QED BY <1>2, <1>9, <1>10, <2>1
<1>13. ASSUME NEW l \in 1 .. NumLanes, NEW k \in ends[l - 1] + 1 .. ends[l]
       PROVE  /\ k - ends[l - 1] \in 1 .. Len(lane(l))
              /\ J[k] = lane(l)[k - ends[l - 1]]
  <2> DEFINE e == ends[l - 1]
             j == k - e
  <2>1. e \in Nat /\ ends[l] = e + Len(lane(l)) /\ Len(lane(l)) \in Nat /\ k \in e + 1 .. ends[l]
    BY <1>12
  <2> HIDE DEF e
  <2>2. j \in 1 .. Len(lane(l)) /\ e + j = k
    BY <2>1
  <2> HIDE DEF j
  <2>3. J[e + j] = lane(l)[j]
    BY <1>8, <2>2 DEF e
  <2> QED BY <2>2, <2>3 DEF e, j
<1>14. Range(J) = Range(pos)
  <2>1. DOMAIN J = 1 .. Len(J) /\ Range(J) = {J[i] : i \in 1 .. Len(J)}
    BY <1>7 DEF Range
  <2>2. ASSUME NEW i \in 1 .. Len(J) PROVE J[i] \in Range(pos)
    <3>1. PICK l \in 1 .. NumLanes : i \in ends[l - 1] + 1 .. ends[l]
      BY <1>8
    <3> DEFINE j == i - ends[l - 1]
    <3>2. j \in 1 .. Len(lane(l)) /\ J[i] = lane(l)[j]
      BY <1>13, <3>1
    <3> HIDE DEF j
    <3> QED BY <1>3, <3>2
  <2>3. ASSUME NEW p \in Range(pos) PROVE p \in Range(J)
    <3> DEFINE l == (p % NumLanes) + 1
    <3>1. l \in 1 .. NumLanes /\ p % NumLanes = l - 1
      <4>1. p \in Nat
        <5>1. DOMAIN pos = 1 .. Len(pos) /\ \A k \in 1 .. Len(pos) : pos[k] \in 0 .. VecSz - 1
          BY PositionsType
        <5>2. \A x \in 0 .. VecSz - 1 : x \in Nat
          BY AlpAssumption
        <5> QED BY <5>1, <5>2 DEF Range
      <4>2. p % NumLanes \in 0 .. NumLanes - 1
        BY <1>1, <4>1, DivisionFacts
      <4> QED BY <1>1, <4>2
    <3> HIDE DEF l
    <3>2. PICK k \in 1 .. Len(lane(l)) : lane(l)[k] = p
      BY <1>3, <3>1
    <3> DEFINE i == ends[l - 1] + k
    <3>3. J[i] = p
      BY <1>8, <3>1, <3>2
    <3>4. i \in 1 .. Len(J)
      <4> DEFINE e == ends[l - 1]
      <4>1. e \in Nat /\ e + Len(lane(l)) <= Len(J) /\ Len(lane(l)) \in Nat /\ Len(J) \in Nat
        BY <1>8, <1>12, <3>1, <1>7
      <4> HIDE DEF e
      <4>2. e + k \in 1 .. Len(J)
        BY <4>1
      <4> QED BY <4>2 DEF e
    <3> QED BY <2>1, <3>3, <3>4
  <2> QED BY <2>1, <2>2, <2>3
<1>15. ASSUME NEW ch, ch.pos = J, ch.counts = lens, ch.ends = [l \in 1 .. NumLanes |-> ends[l]]
       PROVE  Apart(ch)
  <2> DEFINE first == [l \in 1 .. NumLanes |-> IF l = 1 THEN 1 ELSE ch.ends[l - 1] + 1]
  <2>1. \A l \in 1 .. NumLanes : ch.ends[l] = ends[l]
    BY <1>15
  <2>2. ASSUME NEW l \in 1 .. NumLanes PROVE first[l] = ends[l - 1] + 1
    <3>1. CASE l = 1
      BY <1>10, <3>1
    <3>2. CASE l # 1
      <4>1. l - 1 \in 1 .. NumLanes
        BY <1>1, <3>2
      <4> QED BY <2>1, <3>2, <4>1
    <3> QED BY <3>1, <3>2
  <2> HIDE DEF first
  <2>3. ch.ends[NumLanes] = Len(ch.pos)
    BY <1>1, <1>8, <1>15, <2>1
  <2>4. ASSUME NEW l \in 1 .. NumLanes PROVE ch.ends[l] - first[l] + 1 = ch.counts[l]
    <3> DEFINE e == ends[l - 1]
    <3>1. e \in Nat /\ ends[l] = e + Len(lane(l)) /\ Len(lane(l)) \in Nat
      BY <1>12
    <3>2. first[l] = e + 1 /\ ch.ends[l] = ends[l] /\ ch.counts[l] = Len(lane(l))
      BY <1>6, <1>15, <2>1, <2>2
    <3> HIDE DEF e
    <3> QED BY <3>1, <3>2
  <2>5. ASSUME NEW l \in 1 .. NumLanes, NEW k \in first[l] .. ch.ends[l] PROVE ch.pos[k] % NumLanes = l - 1
    <3>1. k \in ends[l - 1] + 1 .. ends[l]
      BY <2>1, <2>2
    <3> DEFINE j == k - ends[l - 1]
    <3>2. j \in 1 .. Len(lane(l)) /\ ch.pos[k] = lane(l)[j]
      BY <1>13, <1>15, <3>1
    <3> HIDE DEF j
    <3> QED BY <1>3, <3>2
  <2>6. ASSUME NEW l \in 1 .. NumLanes, NEW k \in first[l] .. ch.ends[l] - 1 PROVE ch.pos[k] < ch.pos[k + 1]
    <3> DEFINE e == ends[l - 1]
               j == k - e
    <3>1. e \in Nat /\ ends[l] \in Nat /\ k \in e + 1 .. ends[l] - 1
      BY <1>12, <2>1, <2>2
    <3>2. k \in ends[l - 1] + 1 .. ends[l] /\ k + 1 \in ends[l - 1] + 1 .. ends[l]
      BY <3>1
    <3>3. /\ j \in 1 .. Len(lane(l)) /\ ch.pos[k] = lane(l)[j]
          /\ (k + 1) - e \in 1 .. Len(lane(l)) /\ ch.pos[k + 1] = lane(l)[(k + 1) - e]
      BY <1>13, <1>15, <3>2
    <3> HIDE DEF e
    <3>4. (k + 1) - e = j + 1 /\ j < j + 1 /\ j \in Int
      BY <3>1
    <3> HIDE DEF j
    <3>5. Increasing(lane(l))
      BY <1>2
    <3> QED BY <3>3, <3>4, <3>5 DEF Increasing
  <2> QED BY <2>3, <2>4, <2>5, <2>6 DEF Apart, first
<1>16. J \in Seq(0 .. VecSz - 1)
  BY <1>7 DEF A
<1> QED BY <1>4, <1>6, <1>11, <1>14, <1>15, <1>16

-----------------------------------------------------------------------------
(* A vector through ALP *)

\* A vector x is vector v of the column again, but for the nulls.
Restored(x, v) ==
  /\ x = [i \in 1 .. VecSz |-> x[i]]
  /\ \A i \in 1 .. VecSz : VecOf(nulls, v)[i] \/ x[i] = VecOf(data, v)[i]

\* What PackedRange says of chunk ch of vector v.
Packed(ch, v) ==
  LET s    == VecOf(data, v)
      kept == {EncodeValue(upper, build, s[i], ch.c) : i \in {j \in DOMAIN s :
                 s[j] # NegZero /\ Exact(upper, build, s[j], ch.c)}}
  IN  ch.ffor.bw <= RangeBits(kept \cup {0})

\* With a valid combination every vector is restored, packed with the bits that
\* its other values and 0 need, and its lanes are apart.
LEMMA AlpChunkIs ==
  ASSUME Column, tmp_index \in [0 .. VecSz - 1 -> 0 .. VecSz - 1],
         NEW v \in 0 .. NumVecs - 1, NEW c \in ValidCombinations
  PROVE  /\ AlpChunk(v, c).c = c
         /\ Len(AlpChunk(v, c).pos) = Len(AlpChunk(v, c).exc)
         /\ Restored(AlpVector(AlpChunk(v, c)), v)
         /\ Packed(AlpChunk(v, c), v)
         /\ expr = "GALP" => Apart(AlpChunk(v, c))
<1> DEFINE s == VecOf(data, v)
           w == WithoutSpecials(s)
           isNull == VecOf(nulls, v)
           all == ExceptionPositions(s, c)
           pos == NotNull(all, isNull)
           laid == IF expr = "GALP" THEN ByLane(pos) ELSE pos
           exc == [k \in DOMAIN laid |-> s[laid[k] + 1]]
           enc == Encoded(s, c)
           ints == Filled(enc, all, TmpIndex(all))
           counts == IF expr = "GALP" THEN Counts(pos) ELSE <<>>
           ends == IF expr = "GALP" THEN LaneEnds(pos) ELSE <<>>
           ch == AlpChunk(v, c)
<1>1. DOMAIN s = 1 .. VecSz
  BY VecOfIs
<1>2. /\ all \in Positions
      /\ \A i \in 1 .. VecSz : i - 1 \in Range(all) <=> ~ Exact(upper, build, w[i], c)
  <2> HIDE DEF s
  <2> QED BY <1>1, ExceptionsAre
<1>3. enc \in Ints /\ \A i \in 1 .. VecSz : enc[i] = EncodeValue(upper, build, w[i], c)
  <2> HIDE DEF s
  <2> QED BY <1>1, EncodedIs
<1>4. /\ ints \in Ints
      /\ \A i \in 1 .. VecSz : i - 1 \notin Range(all) => ints[i] = enc[i]
      /\ \A i \in 1 .. VecSz : ints[i] = 0 \/ \E j \in 1 .. VecSz : j - 1 \notin Range(all) /\ ints[i] = enc[j]
  <2> HIDE DEF enc, all
  <2> QED BY <1>2, <1>3, FilledIs
<1>5. /\ pos \in Positions
      /\ \A i \in 1 .. VecSz : i - 1 \in Range(pos) <=> i - 1 \in Range(all) /\ ~ isNull[i]
  <2> DEFINE T == {i \in 0 .. VecSz - 1 : ~ isNull[i + 1]}
  <2>1. pos = Kept(all, T)
    BY Zenon DEF NotNull
  <2> HIDE DEF pos, all, isNull
  <2>2. pos \in Positions /\ Range(pos) = Range(all) \cap T
    <3> HIDE DEF T
    <3> QED BY <1>2, <2>1, KeptPositions
  <2>3. ASSUME NEW i \in 1 .. VecSz PROVE i - 1 \in T <=> ~ isNull[i]
    <3>1. i - 1 \in 0 .. VecSz - 1 /\ (i - 1) + 1 = i
      BY AlpAssumption
    <3> QED BY <3>1
  <2> HIDE DEF T
  <2> QED BY <2>2, <2>3
<1>6. /\ laid \in Seq(0 .. VecSz - 1) /\ Range(laid) = Range(pos)
      /\ DOMAIN laid = 1 .. Len(laid) /\ Len(laid) \in Nat
      /\ \A k \in 1 .. Len(laid) : laid[k] \in 0 .. VecSz - 1
  <2> HIDE DEF pos
  <2>1. ByLane(pos) \in Seq(0 .. VecSz - 1) /\ Range(ByLane(pos)) = Range(pos)
    BY <1>5, ByLaneIs
  <2>2. pos \in Seq(0 .. VecSz - 1)
    BY <1>5 DEF Positions
  <2>3. laid \in Seq(0 .. VecSz - 1) /\ Range(laid) = Range(pos)
    BY <2>1, <2>2
  <2> DEFINE A == 0 .. VecSz - 1
  <2> HIDE DEF A, laid
  <2>4. DOMAIN laid = 1 .. Len(laid) /\ Len(laid) \in Nat /\ \A k \in 1 .. Len(laid) : laid[k] \in A
    <3>1. laid \in Seq(A)
      BY <2>3 DEF A
    <3> QED BY <3>1
  <2> QED BY <2>3, <2>4 DEF A
<1>7. ch = [c |-> c, ffor |-> Ffor(ints), pos |-> laid, exc |-> exc, counts |-> counts, ends |-> ends]
  BY Zenon DEF AlpChunk
<1>8. /\ ch.c = c /\ ch.ffor = Ffor(ints) /\ ch.pos = laid /\ ch.exc = exc
      /\ ch.counts = counts /\ ch.ends = ends
  <2> HIDE DEF ints, laid, exc, counts, ends, ch
  <2> QED BY <1>7
<1>9. Len(laid) = Len(exc)
  <2> HIDE DEF laid
  <2> QED BY <1>6
<1>10. Restored(AlpVector(ch), v)
  <2> DEFINE dec == [i \in 1 .. VecSz |-> DecodeValue(ints[i], c)]
             x == PatchedAt(dec, laid, exc)
  <2>1. Unffor(ch.ffor) = ints /\ DOMAIN ints = 1 .. VecSz
    <3> HIDE DEF ints, ch
    <3> QED BY <1>4, <1>8, FforInverse DEF Ints
  <2>2. AlpVector(ch) = x
    <3> HIDE DEF ch, ints, laid, exc
    <3> QED BY <1>8, <2>1, Zenon DEF AlpVector
  <2>3. x = [i \in 1 .. VecSz |-> x[i]]
    <3> HIDE DEF laid, exc, ints
    <3> QED BY DEF PatchedAt
  <2>4. ASSUME NEW i \in 1 .. VecSz PROVE isNull[i] \/ x[i] = s[i]
    <3>1. \/ i - 1 \notin Range(laid) /\ x[i] = dec[i]
          \/ \E k \in 1 .. Len(laid) : laid[k] = i - 1 /\ x[i] = exc[k]
      <4>1. i \in DOMAIN dec
        OBVIOUS
      <4> HIDE DEF dec, laid, exc
      <4> QED BY <1>6, <4>1, PatchedAtIs
    <3>2. ASSUME NEW k \in 1 .. Len(laid), laid[k] = i - 1, x[i] = exc[k] PROVE x[i] = s[i]
      <4>1. exc[k] = s[laid[k] + 1]
        <5> HIDE DEF laid, s
        <5> QED BY <1>6
      <4>2. laid[k] + 1 = i
        <5> HIDE DEF laid
        <5> QED BY <3>2, AlpAssumption
      <4> HIDE DEF exc, laid, x, s
      <4> QED BY <3>2, <4>1, <4>2
    <3>3. ASSUME i - 1 \notin Range(laid), x[i] = dec[i], ~ isNull[i] PROVE x[i] = s[i]
      <4>1. i - 1 \notin Range(all)
        <5> HIDE DEF laid, pos, all, isNull
        <5> QED BY <1>5, <1>6, <3>3
      <4>2. Exact(upper, build, w[i], c)
        <5> HIDE DEF all, w
        <5> QED BY <1>2, <4>1
      <4>3. w[i] = s[i] /\ DecodeValue(EncodeValue(upper, build, s[i], c), c) = s[i]
        <5> HIDE DEF s
        <5> QED BY <1>1, <4>2, ExactIs
      <4>4. dec[i] = DecodeValue(ints[i], c)
        OBVIOUS
      <4>5. ints[i] = EncodeValue(upper, build, w[i], c)
        <5> HIDE DEF ints, enc, all, w
        <5> QED BY <1>3, <1>4, <4>1
      <4> HIDE DEF x, dec, ints, w, s
      <4> QED BY <3>3, <4>3, <4>4, <4>5, Zenon
    <3> HIDE DEF x, dec, exc, laid, s, isNull
    <3> QED BY <3>1, <3>2, <3>3
  <2> HIDE DEF x, ch
  <2> QED BY <2>2, <2>3, <2>4, Zenon DEF Restored
<1>11. Packed(ch, v)
  <2> DEFINE kept == {EncodeValue(upper, build, s[i], c) : i \in {j \in DOMAIN s :
                        s[j] # NegZero /\ Exact(upper, build, s[j], c)}}
             Y == kept \cup {0}
             R == Range(ints)
  <2>1. Packed(ch, v) <=> ch.ffor.bw <= RangeBits(Y)
    <3> HIDE DEF ch
    <3> QED BY <1>8, Zenon DEF Packed
  <2>2. ch.ffor.bw = CountBits(Max(R), Min(R))
    <3> HIDE DEF ch, ints
    <3> QED BY <1>8 DEF Ffor
  <2>3. Y \in SUBSET (IntMin .. IntMax)
    <3>1. 0 \in IntMin .. IntMax
      BY IntRange
    <3>2. \A x \in kept : x \in IntMin .. IntMax
      <4> HIDE DEF s
      <4> QED BY EncodeRange
    <3> HIDE DEF kept
    <3> QED BY <3>1, <3>2
  <2>4. R # {} /\ R \subseteq Y
    <3>1. R # {}
      <4> HIDE DEF ints
      <4> QED BY <1>4, RangeOfInts
    <3>2. \A i \in 1 .. VecSz : ints[i] \in Y
      <4> TAKE i \in 1 .. VecSz
      <4>1. ASSUME NEW j \in 1 .. VecSz, j - 1 \notin Range(all) PROVE enc[j] \in kept
        <5>1. Exact(upper, build, w[j], c) /\ enc[j] = EncodeValue(upper, build, w[j], c)
          <6> HIDE DEF all, w, enc
          <6> QED BY <1>2, <1>3, <4>1
        <5>2. s[j] # NegZero /\ w[j] = s[j] /\ Exact(upper, build, s[j], c)
          <6> HIDE DEF s
          <6> QED BY <1>1, <5>1, ExactIs
        <5> HIDE DEF s, w, enc
        <5> QED BY <1>1, <5>1, <5>2
      <4> HIDE DEF kept, enc, ints, all
      <4> QED BY <1>4, <4>1
    <3>3. R = {ints[i] : i \in 1 .. VecSz}
      <4> HIDE DEF ints
      <4> QED BY <1>4 DEF Range, Ints
    <3> HIDE DEF R, Y, ints
    <3> QED BY <3>1, <3>2, <3>3
  <2> HIDE DEF R, Y
  <2>5. CountBits(Max(R), Min(R)) <= RangeBits(Y)
    BY <2>3, <2>4, RangeBitsGrow
  <2> QED BY <2>1, <2>2, <2>5
<1>12. ASSUME expr = "GALP" PROVE Apart(ch)
  <2>1. ch.pos = ByLane(pos) /\ ch.counts = Counts(pos) /\ ch.ends = LaneEnds(pos)
    <3> HIDE DEF ch, pos
    <3> QED BY <1>8, <1>12
  <2> HIDE DEF ch, pos
  <2> QED BY <1>5, <2>1, ByLaneIs
<1> HIDE DEF ch, laid, exc
<1>13. ch.c = c /\ Len(ch.pos) = Len(ch.exc)
  BY <1>8, <1>9
<1> QED BY <1>10, <1>11, <1>12, <1>13 DEF ch

-----------------------------------------------------------------------------
(* Dictionaries of ALP-RD *)

\* A column is sampled at least once.
LEMMA SampledIs ==
  ASSUME Column
  PROVE  Sampled \in Seq(StoredOf(expr)) /\ Len(Sampled) \in Nat \ {0}
<1> DEFINE A == StoredOf(expr)
           ss == FirstLevelSample
           n == Len(ss)
           ends == Sums(LengthsOf(ss))
<1>1. n \in Nat \ {0} /\ DOMAIN ss = 1 .. n
  BY FirstLevelSampleIs
<1>2. ASSUME NEW j \in 1 .. n
      PROVE  ss[j] \in Seq(A) /\ Len(ss[j]) \in Nat \ {0}
  <2> DEFINE v == (j - 1) * Jump
             s == VecOf(data, v)
             t == SampleOf(s)
  <2>1. v \in 0 .. NumVecs - 1 /\ ss[j] = t
    BY FirstLevelSampleIs
  <2> HIDE DEF v
  <2>2. s \in Seq(A) /\ DOMAIN s = 1 .. VecSz
    <3> HIDE DEF A
    <3> QED BY <2>1, VecOfIs DEF A
  <2> HIDE DEF s, A
  <2>3. /\ SamplesPerVector \in Nat \ {0} /\ Len(t) = SamplesPerVector
        /\ \A k \in 1 .. SamplesPerVector : t[k] \in A
    <3>1. \A i \in 1 .. VecSz : s[i] \in A
      <4>1. s \in Seq(A)
        BY <2>2
      <4>2. DOMAIN s = 1 .. Len(s) /\ \A i \in 1 .. Len(s) : s[i] \in A
        BY <4>1
      <4> QED BY <2>2, <4>2
    <3> QED BY <3>1, SampleIs
  <2>4. t = [k \in 1 .. SamplesPerVector |-> t[k]]
    BY DEF SampleOf
  <2> HIDE DEF t
  <2>5. t \in Seq(A)
    BY <2>3, <2>4
  <2> QED BY <2>1, <2>3, <2>5
<1>3. ss \in Seq(Seq(A))
  <2>1. ss = [j \in 1 .. n |-> ss[j]]
    BY <1>1 DEF FirstLevelSample
  <2> HIDE DEF n, ss, A
  <2> QED BY <1>1, <1>2, <2>1
<1>4. Sampled \in Seq(A) /\ Len(Sampled) = ends[n]
  <2>1. Sampled = Joined(ss)
    BY DEF Sampled
  <2> HIDE DEF A, ss
  <2> QED BY <1>3, <2>1, JoinedFacts DEF Tiled
<1>5. ends[n] \in Nat \ {0}
  <2> DEFINE lens == LengthsOf(ss)
  <2> HIDE DEF ss, n
  <2>1. lens \in Seq(Nat) /\ Len(lens) = n /\ lens[1] \in Nat \ {0}
    BY <1>1, <1>2 DEF LengthsOf, n
  <2> HIDE DEF lens
  <2>2. Sums(lens) \in [0 .. n -> Nat] /\ Sums(lens)[1] <= Sums(lens)[n]
    <3>1. 1 \in 0 .. n /\ n \in 0 .. n /\ 1 <= n
      BY <1>1
    <3> QED BY <2>1, <3>1, SumsGrow
  <2>3. Sums(lens)[1] = 0 + lens[1]
    <3>1. lens \in Seq(Int) /\ 1 \in 1 .. Len(lens) /\ 1 - 1 = 0
      BY <1>1, <2>1
    <3>2. SumsBy(lens, Sums(lens))
      BY <3>1, SumsSteps
    <3> QED BY <3>1, <3>2 DEF SumsBy
  <2>4. Sums(lens)[1] \in Nat /\ Sums(lens)[n] \in Nat
    BY <1>1, <2>2
  <2>5. Sums(lens)[n] \in Nat \ {0}
    BY <2>1, <2>2, <2>3, <2>4
  <2> QED BY <2>5 DEF lens
<1> QED BY <1>4, <1>5

\* The left parts of the sample, as a function.
LeftOf(r) == [k \in DOMAIN Sampled |-> Left(Sampled[k], r)]

\* What is said of left parts, said of this function.
LEMMA LeftOfIs ==
  ASSUME Column, NEW r
  PROVE  /\ IsFiniteSet(DOMAIN LeftOf(r)) /\ DOMAIN LeftOf(r) # {}
         /\ LeftParts(r) = {LeftOf(r)[k] : k \in DOMAIN LeftOf(r)}
         /\ \A x : Repetitions(r, x) = Cardinality(Hits(LeftOf(r), {x}))
         /\ \A X : RdEstimate(r, X) = Len(Sampled) * (r + LeftBits(Cardinality(X)))
                     + Cardinality({k \in DOMAIN LeftOf(r) : LeftOf(r)[k] \notin X}) * RdExcSize
<1>1. DOMAIN LeftOf(r) = DOMAIN Sampled /\ \A k \in DOMAIN Sampled : LeftOf(r)[k] = Left(Sampled[k], r)
  BY DEF LeftOf
<1>2. DOMAIN Sampled = 1 .. Len(Sampled) /\ Len(Sampled) \in Nat \ {0}
  BY SampledIs
<1>3. IsFiniteSet(1 .. Len(Sampled)) /\ 1 \in 1 .. Len(Sampled)
  BY <1>2, FS_Interval
<1>4. LeftParts(r) = {LeftOf(r)[k] : k \in DOMAIN LeftOf(r)}
  BY <1>1 DEF LeftParts
<1>5. ASSUME NEW x PROVE Repetitions(r, x) = Cardinality(Hits(LeftOf(r), {x}))
  <2>1. {k \in DOMAIN Sampled : Left(Sampled[k], r) = x} = Hits(LeftOf(r), {x})
    BY <1>1 DEF Hits
  <2> QED BY <2>1, Zenon DEF Repetitions
<1>6. ASSUME NEW X
      PROVE  RdEstimate(r, X) = Len(Sampled) * (r + LeftBits(Cardinality(X)))
               + Cardinality({k \in DOMAIN LeftOf(r) : LeftOf(r)[k] \notin X}) * RdExcSize
  <2>1. {k \in DOMAIN Sampled : Left(Sampled[k], r) \notin X} = {k \in DOMAIN LeftOf(r) : LeftOf(r)[k] \notin X}
    BY <1>1
  <2> QED BY <2>1, Zenon DEF RdEstimate
<1> QED BY <1>1, <1>2, <1>3, <1>4, <1>5, <1>6

\* There are left parts, and as many entries in a dictionary as there can be.
LEMMA LeftPartsAre ==
  ASSUME Column, NEW r
  PROVE  /\ IsFiniteSet(LeftParts(r)) /\ LeftParts(r) # {}
         /\ \A x : Repetitions(r, x) \in Nat
         /\ DictSize(r) \in 1 .. MaxDict /\ DictSize(r) <= Cardinality(LeftParts(r))
<1> DEFINE f == LeftOf(r)
<1>1. IsFiniteSet(DOMAIN f) /\ DOMAIN f # {} /\ LeftParts(r) = {f[k] : k \in DOMAIN f}
  BY LeftOfIs
<1>2. \A x : Repetitions(r, x) = Cardinality(Hits(f, {x}))
  BY LeftOfIs
<1> HIDE DEF f
<1>3. IsFiniteSet(LeftParts(r)) /\ LeftParts(r) # {}
  BY <1>1, ImageFinite
<1>4. ASSUME NEW x PROVE Repetitions(r, x) \in Nat
  <2>1. {x} \cap {} = {}
    OBVIOUS
  <2>2. Cardinality(Hits(f, {x})) \in Nat
    BY <1>1, <2>1, HitsOfBoth
  <2> QED BY <1>2, <2>2
<1>5. DictSize(r) \in 1 .. MaxDict /\ DictSize(r) <= Cardinality(LeftParts(r))
  <2> DEFINE n == Cardinality(LeftParts(r))
  <2>1. n \in Nat /\ n # 0
    BY <1>3, FS_CardinalityType, FS_EmptySet
  <2>2. MaxDict \in Nat \ {0}
    BY AlpAssumption
  <2>3. DictSize(r) = Min({MaxDict, n})
    BY DEF DictSize
  <2> HIDE DEF n
  <2>4. Min({MaxDict, n}) = IF MaxDict <= n THEN MaxDict ELSE n
    BY <2>1, <2>2, MinOfTwo
  <2>5. DictSize(r) \in 1 .. MaxDict /\ DictSize(r) <= n
    BY <2>1, <2>2, <2>3, <2>4
  <2> QED BY <2>5 DEF n
<1> QED BY <1>3, <1>4, <1>5

\* As many bits as the entries of a dictionary take.
LEMMA LeftBitsIs ==
  ASSUME NEW n \in Nat \ {0}
  PROVE  LeftBits(n) \in Nat /\ n <= 2 ^ LeftBits(n)
<1> DEFINE S == {b \in Nat : b >= 1 /\ 2 ^ b >= n}
           Fits(b) == 2 ^ b >= n /\ (b = 1 \/ 2 ^ (b - 1) < n)
<1>1. n \in S
  <2>1. n < 2 ^ n /\ 2 ^ n \in Nat
    BY PowersGrow, PowerPositive
  <2> QED BY <2>1
<1>2. PICK b \in S : \A m \in S : b <= m
  <2>1. S \in SUBSET Nat /\ S # {}
    BY <1>1
  <2> HIDE DEF S
  <2> QED BY <2>1, LeastElement
<1>3. b \in 1 .. n /\ 2 ^ b >= n
  BY <1>1, <1>2
<1>4. ASSUME b # 1 PROVE 2 ^ (b - 1) < n
  <2>1. b - 1 \in Nat /\ b - 1 >= 1 /\ ~ (b <= b - 1)
    BY <1>3, <1>4
  <2>2. ~ (2 ^ (b - 1) >= n)
    BY <1>2, <2>1
  <2>3. 2 ^ (b - 1) \in Nat
    BY <2>1, PowerPositive
  <2> QED BY <2>2, <2>3
<1>5. \E k \in 1 .. n : Fits(k)
  BY <1>3, <1>4
<1>6. LeftBits(n) \in 1 .. n /\ Fits(LeftBits(n))
  <2>1. LeftBits(n) = CHOOSE k \in 1 .. n : Fits(k)
    BY Zenon DEF LeftBits
  <2> HIDE DEF Fits
  <2> QED BY <1>5, <2>1, Zenon
<1>7. LeftBits(n) \in Nat
  BY <1>6
<1>8. 2 ^ LeftBits(n) \in Nat
  BY <1>7, PowerPositive
<1> QED BY <1>6, <1>7, <1>8

\* A dictionary has different left parts, and no other set of as many is
\* estimated to take less.
LEMMA DictionaryIs ==
  ASSUME Column, NEW r \in Nat, NEW d \in Dictionaries(r)
  PROVE  /\ d \in [1 .. DictSize(r) -> LeftParts(r)]
         /\ Range(d) \in kSubset(DictSize(r), LeftParts(r))
         /\ RdEstimate(r, Range(d)) \in Int
         /\ \A X \in kSubset(DictSize(r), LeftParts(r)) : RdEstimate(r, Range(d)) <= RdEstimate(r, X)
<1> DEFINE n == DictSize(r)
           L == LeftParts(r)
           D == Range(d)
           f == LeftOf(r)
<1>1. n \in Nat \ {0} /\ IsFiniteSet(L) /\ n <= Cardinality(L)
  <2>1. n \in 1 .. MaxDict /\ IsFiniteSet(L) /\ n <= Cardinality(L)
    BY LeftPartsAre
  <2> HIDE DEF n, L
  <2> QED BY <2>1, AlpAssumption
<1>2. /\ d \in [1 .. n -> L] /\ IsInjective(d)
      /\ \A i \in DOMAIN d : \A left \in L \ {d[j] : j \in 1 .. i} : Repetitions(r, d[i]) >= Repetitions(r, left)
  BY Zenon DEF Dictionaries
<1>3. D \in SUBSET L /\ D = {d[i] : i \in 1 .. n} /\ Cardinality(D) = n
  <2> HIDE DEF n, L
  <2>1. D \in SUBSET L /\ D = {d[i] : i \in 1 .. n}
    BY <1>2 DEF Range
  <2>2. d \in Surjection(1 .. n, D) /\ d \in Injection(1 .. n, D)
    <3>1. d \in [1 .. n -> D]
      BY <1>2, <2>1
    <3> HIDE DEF D
    <3>2. \A x \in D : \E i \in 1 .. n : d[i] = x
      BY <2>1
    <3> QED BY <1>2, <3>1, <3>2 DEF Surjection, Injection
  <2> HIDE DEF D
  <2>3. IsFiniteSet(1 .. n) /\ Cardinality(1 .. n) = n
    BY <1>1, FS_Interval
  <2>4. Cardinality(D) = Cardinality(1 .. n)
    BY <2>2, <2>3, FS_Surjection
  <2> QED BY <2>1, <2>3, <2>4
<1>4. /\ IsFiniteSet(DOMAIN f)
      /\ \A x : Repetitions(r, x) = Cardinality(Hits(f, {x}))
      /\ \A X : RdEstimate(r, X) = Len(Sampled) * (r + LeftBits(Cardinality(X)))
                  + Cardinality({k \in DOMAIN f : f[k] \notin X}) * RdExcSize
  BY LeftOfIs
<1>5. D \in kSubset(n, L)
  BY <1>3, Zenon DEF kSubset
<1>6. ASSUME NEW X \in kSubset(n, L)
      PROVE  RdEstimate(r, D) \in Int /\ RdEstimate(r, D) <= RdEstimate(r, X)
  <2>1. X \in SUBSET L /\ Cardinality(X) = n
    BY <1>6, Zenon DEF kSubset
  <2>2. AsFrequent(f, D, X \ D)
    <3> SUFFICES ASSUME NEW x \in D, NEW y \in X \ D
                 PROVE  Cardinality(Hits(f, {x})) >= Cardinality(Hits(f, {y}))
      BY DEF AsFrequent
    <3> HIDE DEF f, L, n, D
    <3>1. PICK i \in 1 .. n : x = d[i]
      BY <1>3
    <3>2. y \in L \ {d[j] : j \in 1 .. i} /\ i \in DOMAIN d
      <4>1. \A j \in 1 .. i : j \in 1 .. n
        BY <1>1, <3>1
      <4>2. \A j \in 1 .. i : d[j] \in D
        BY <1>3, <4>1
      <4>3. y \in L /\ y \notin D
        BY <2>1
      <4> QED BY <1>2, <4>2, <4>3
    <3>3. Repetitions(r, d[i]) >= Repetitions(r, y)
      BY <1>2, <3>2
    <3> QED BY <1>4, <3>1, <3>3
  <2> DEFINE a == Cardinality({k \in DOMAIN f : f[k] \notin D})
             b == Cardinality({k \in DOMAIN f : f[k] \notin X})
             m == Len(Sampled) * (r + LeftBits(n))
  <2>3. a \in Nat /\ b \in Nat /\ a <= b
    <3>1. IsFiniteSet(D) /\ IsFiniteSet(X) /\ Cardinality(D) = Cardinality(X)
      BY <1>1, <1>3, <2>1, FS_Subset
    <3> HIDE DEF f, D
    <3> QED BY <1>4, <2>2, <3>1, MissedLess
  <2>4. RdEstimate(r, D) = m + a * RdExcSize /\ RdEstimate(r, X) = m + b * RdExcSize
    <3> HIDE DEF f, D, n
    <3> QED BY <1>3, <1>4, <2>1
  <2>5. m \in Int
    <3> DEFINE p == Len(Sampled)
               q == LeftBits(n)
    <3>1. p \in Nat /\ q \in Nat
      <4> HIDE DEF n
      <4> QED BY <1>1, SampledIs, LeftBitsIs
    <3> HIDE DEF p, q
    <3>2. p * (r + q) \in Int
      BY <3>1
    <3> QED BY <3>2 DEF p, q
  <2>6. RdExcSize \in Nat
    BY AlpAssumption
  <2> HIDE DEF a, b, m
  <2>7. a * RdExcSize \in Int /\ b * RdExcSize \in Int
    BY <2>3, <2>6
  <2>8. a * RdExcSize <= b * RdExcSize
    BY <2>3, <2>6, Z3
  <2> QED BY <2>4, <2>5, <2>7, <2>8
<1> HIDE DEF n, L, D
<1> QED BY <1>2, <1>5, <1>6 DEF n, L, D

\* There is a dictionary for every cut.
LEMMA DictionaryExists ==
  ASSUME Column, NEW r
  PROVE  Dictionaries(r) # {}
<1> DEFINE n == DictSize(r)
           L == LeftParts(r)
           rep(x) == Repetitions(r, x)
           Good(m, d) == /\ IsInjective(d)
                         /\ \A i \in 1 .. m : \A left \in L \ {d[j] : j \in 1 .. i} : rep(d[i]) >= rep(left)
           S == {m \in Nat : m <= n => \E d \in [1 .. m -> L] : Good(m, d)}
<1>1. n \in Nat /\ IsFiniteSet(L) /\ n <= Cardinality(L) /\ \A x : rep(x) \in Nat
  <2>1. n \in 1 .. MaxDict /\ IsFiniteSet(L) /\ n <= Cardinality(L) /\ \A x : rep(x) \in Nat
    BY LeftPartsAre
  <2> HIDE DEF n, L, rep
  <2> QED BY <2>1, AlpAssumption
<1> HIDE DEF n, L, rep
<1>2. 0 \in S
  <2> DEFINE d == [i \in 1 .. 0 |-> CHOOSE x \in L : TRUE]
  <2>1. d \in [1 .. 0 -> L] /\ Good(0, d)
    BY DEF IsInjective
  <2> QED BY <2>1
<1>3. ASSUME NEW m \in Nat, m \in S PROVE m + 1 \in S
  <2> SUFFICES ASSUME m + 1 <= n PROVE \E d \in [1 .. m + 1 -> L] : Good(m + 1, d)
    OBVIOUS
  <2>1. PICK d \in [1 .. m -> L] : Good(m, d)
    BY <1>1, <1>3
  <2> DEFINE D == {d[j] : j \in 1 .. m}
             rest == L \ D
  <2>2. rest # {} /\ IsFiniteSet(rest)
    <3>1. IsFiniteSet(1 .. m) /\ Cardinality(1 .. m) = m
      BY FS_Interval
    <3>2. IsFiniteSet(D) /\ Cardinality(D) <= m
      <4>1. DOMAIN d = 1 .. m
        BY <2>1
      <4> QED BY <3>1, <4>1, ImageFinite
    <3> HIDE DEF D
    <3>3. ~ (L \subseteq D)
      <4> SUFFICES ASSUME L \subseteq D PROVE FALSE
        OBVIOUS
      <4>1. Cardinality(L) <= Cardinality(D)
        BY <3>2, FS_Subset
      <4>2. Cardinality(L) \in Nat /\ Cardinality(D) \in Nat
        BY <1>1, <3>2, FS_CardinalityType
      <4> QED BY <1>1, <3>2, <4>1, <4>2
    <3> QED BY <1>1, <3>3, FS_Difference
  <2>3. PICK x \in rest : \A y \in rest : rep(x) >= rep(y)
    <3> DEFINE g == [y \in rest |-> rep(y)]
               N == {g[y] : y \in rest}
    <3> HIDE DEF rest
    <3>1. IsFiniteSet(N) /\ N \in SUBSET Int /\ N # {}
      <4>1. IsFiniteSet(N)
        BY <2>2, ImageFinite
      <4>2. \A y \in rest : g[y] \in Int
        BY <1>1
      <4> HIDE DEF g
      <4> QED BY <2>2, <4>1, <4>2
    <3>2. PICK z \in N : \A w \in N : z >= w
      <4> HIDE DEF N
      <4> QED BY <3>1, GreatestElement
    <3>3. PICK x \in rest : z = g[x]
      BY <3>2
    <3>4. \A y \in rest : rep(x) >= rep(y)
      <4> TAKE y \in rest
      <4>1. g[y] \in N /\ g[y] = rep(y) /\ g[x] = rep(x)
        OBVIOUS
      <4> QED BY <3>2, <3>3, <4>1
    <3> QED BY <3>4
  <2> DEFINE e == [j \in 1 .. m + 1 |-> IF j <= m THEN d[j] ELSE x]
  <2>4. x \in L /\ x \notin D
    BY <2>3
  <2>5. e \in [1 .. m + 1 -> L] /\ e[m + 1] = x /\ \A j \in 1 .. m : e[j] = d[j]
    <3>1. \A j \in 1 .. m + 1 : j <= m => d[j] \in L
      BY <2>1
    <3>2. ~ (m + 1 <= m) /\ m + 1 \in 1 .. m + 1 /\ \A j \in 1 .. m : j \in 1 .. m + 1 /\ j <= m
      OBVIOUS
    <3> HIDE DEF D, rest
    <3> QED BY <2>4, <3>1, <3>2
  <2> HIDE DEF e
  <2>6. IsInjective(e)
    <3> SUFFICES ASSUME NEW a \in 1 .. m + 1, NEW b \in 1 .. m + 1, e[a] = e[b] PROVE a = b
      BY <2>5 DEF IsInjective
    <3>1. \A i, j \in 1 .. m : d[i] = d[j] => i = j
      BY <2>1 DEF IsInjective
    <3>2. \A j \in 1 .. m : d[j] # x
      BY <2>4
    <3>3. \A i \in 1 .. m + 1 : i \in 1 .. m \/ i = m + 1
      OBVIOUS
    <3> QED BY <2>5, <3>1, <3>2, <3>3
  <2>7. ASSUME NEW i \in 1 .. m + 1, NEW left \in L \ {e[j] : j \in 1 .. i} PROVE rep(e[i]) >= rep(left)
    <3>1. CASE i \in 1 .. m
      <4>1. \A j \in 1 .. i : j \in 1 .. m
        BY <3>1
      <4>2. {e[j] : j \in 1 .. i} = {d[j] : j \in 1 .. i}
        BY <2>5, <4>1
      <4> QED BY <2>1, <2>5, <2>7, <3>1, <4>2
    <3>2. CASE i = m + 1
      <4>1. \A j \in 1 .. m : j \in 1 .. i
        BY <3>2
      <4>2. left \in rest
        BY <2>5, <2>7, <4>1
      <4> QED BY <2>3, <2>5, <3>2, <4>2
    <3>3. i \in 1 .. m \/ i = m + 1
      OBVIOUS
    <3> QED BY <3>1, <3>2, <3>3
  <2> QED BY <2>5, <2>6, <2>7
<1>4. Nat \subseteq S
  <2> HIDE DEF S
  <2> QED BY <1>2, <1>3, Successors
<1>5. PICK d \in [1 .. n -> L] : Good(n, d)
  BY <1>1, <1>4
<1>6. d \in Dictionaries(r)
  BY <1>5 DEF Dictionaries, n, L, rep
<1> QED BY <1>6

\* The cut is one of those tried, and none of the others has a dictionary that
\* would be estimated to take less.
LEMMA BestCutIs ==
  ASSUME Column
  PROVE  /\ BestCut \in Nat
         /\ \A d \in Dictionaries(BestCut) : \A i \in 1 .. CuttingLimit :
              \A X \in kSubset(DictSize(RdBits - i), LeftParts(RdBits - i)) :
                RdEstimate(BestCut, Range(d)) <= RdEstimate(RdBits - i, X)
<1> DEFINE cuts == {RdBits - i : i \in 1 .. CuttingLimit}
           chosen(r) == CHOOSE d \in Dictionaries(r) : TRUE
           size == [r \in cuts |-> RdEstimate(r, Range(chosen(r)))]
           Best(r) == \A q \in cuts \ {r} : size[r] < size[q] \/ (size[r] = size[q] /\ r > q)
<1>1. RdBits \in Nat /\ CuttingLimit \in 1 .. RdBits
  BY AlpAssumption
<1>2. cuts \in SUBSET Nat /\ cuts # {} /\ IsFiniteSet(cuts)
  <2>1. \A i \in 1 .. CuttingLimit : RdBits - i \in Nat
    BY <1>1
  <2>2. 1 \in 1 .. CuttingLimit
    BY <1>1
  <2>3. IsFiniteSet(1 .. CuttingLimit)
    BY <1>1, FS_Interval
  <2> DEFINE f == [i \in 1 .. CuttingLimit |-> RdBits - i]
  <2>4. IsFiniteSet({f[i] : i \in 1 .. CuttingLimit})
    <3>1. DOMAIN f = 1 .. CuttingLimit
      OBVIOUS
    <3> HIDE DEF f
    <3> QED BY <2>3, <3>1, ImageFinite
  <2>5. cuts = {f[i] : i \in 1 .. CuttingLimit}
    OBVIOUS
  <2>6. cuts \in SUBSET Nat /\ cuts # {}
    BY <2>1, <2>2
  <2> QED BY <2>4, <2>5, <2>6
<1>3. ASSUME NEW r \in cuts
      PROVE  /\ r \in Nat /\ chosen(r) \in Dictionaries(r)
             /\ size[r] = RdEstimate(r, Range(chosen(r)))
  <2>1. r \in Nat
    BY <1>2
  <2>2. chosen(r) \in Dictionaries(r)
    <3>1. \E d : d \in Dictionaries(r)
      <4>1. Dictionaries(r) # {}
        BY DictionaryExists
      <4> HIDE DEF cuts
      <4> QED BY <4>1, Zenon
    <3> QED BY <3>1, Zenon
  <2> QED BY <2>1, <2>2
<1>4. ASSUME NEW r \in cuts, NEW d \in Dictionaries(r)
      PROVE  /\ RdEstimate(r, Range(d)) = size[r] /\ size[r] \in Int
             /\ \A X \in kSubset(DictSize(r), LeftParts(r)) : size[r] <= RdEstimate(r, X)
  <2> DEFINE c == chosen(r)
  <2>1. r \in Nat /\ c \in Dictionaries(r) /\ size[r] = RdEstimate(r, Range(c))
    BY <1>3
  <2> HIDE DEF c, size, cuts
  <2>2. /\ Range(d) \in kSubset(DictSize(r), LeftParts(r))
        /\ RdEstimate(r, Range(d)) \in Int
        /\ \A X \in kSubset(DictSize(r), LeftParts(r)) : RdEstimate(r, Range(d)) <= RdEstimate(r, X)
    BY <1>4, <2>1, DictionaryIs
  <2>3. /\ Range(c) \in kSubset(DictSize(r), LeftParts(r))
        /\ RdEstimate(r, Range(c)) \in Int
        /\ \A X \in kSubset(DictSize(r), LeftParts(r)) : RdEstimate(r, Range(c)) <= RdEstimate(r, X)
    BY <2>1, DictionaryIs
  <2> QED BY <2>1, <2>2, <2>3
<1>5. \A r \in cuts : size[r] \in Int
  <2> TAKE r \in cuts
  <2>1. chosen(r) \in Dictionaries(r)
    BY <1>3
  <2> HIDE DEF chosen, size, cuts
  <2> QED BY <1>4, <2>1
<1> HIDE DEF cuts, size
<1>6. PICK r \in cuts : Best(r)
  <2> DEFINE N == {size[r] : r \in cuts}
  <2>1. IsFiniteSet(N) /\ N \in SUBSET Int /\ N # {}
    <3>1. DOMAIN size = cuts
      BY DEF size
    <3>2. IsFiniteSet(N)
      BY <1>2, <3>1, ImageFinite
    <3> QED BY <1>2, <1>5, <3>2
  <2>2. Min(N) \in N /\ \A m \in N : Min(N) <= m
    <3> HIDE DEF N
    <3> QED BY <2>1, MinIs
  <2> DEFINE least == Min(N)
             T == {r \in cuts : size[r] = least}
  <2>3. T # {} /\ T \in SUBSET Int /\ IsFiniteSet(T)
    <3>1. IsFiniteSet(T)
      BY <1>2, FS_Subset
    <3>2. PICK z \in cuts : least = size[z]
      BY <2>2
    <3> HIDE DEF least
    <3>3. z \in T
      BY <3>2
    <3>4. T \in SUBSET Int
      <4>1. \A y \in T : y \in Int
        BY <1>2
      <4> HIDE DEF T
      <4> QED BY <4>1
    <3> HIDE DEF T
    <3> QED BY <3>1, <3>3, <3>4
  <2>4. PICK r \in T : \A q \in T : r >= q
    <3> HIDE DEF T
    <3> QED BY <2>3, GreatestElement
  <2>5. ASSUME NEW q \in cuts \ {r} PROVE size[r] < size[q] \/ (size[r] = size[q] /\ r > q)
    <3>1. size[q] \in N /\ size[r] = least /\ size[r] <= size[q]
      BY <2>2, <2>4
    <3>2. size[r] \in Int /\ size[q] \in Int /\ r \in Nat /\ q \in Nat /\ r # q
      BY <1>2, <1>5, <2>4
    <3>3. CASE size[r] = size[q]
      <4>1. q \in T
        BY <3>1, <3>3
      <4>2. r >= q
        BY <2>4, <4>1
      <4> QED BY <3>2, <3>3, <4>2
    <3>4. CASE size[r] # size[q]
      BY <3>1, <3>2, <3>4
    <3> QED BY <3>3, <3>4
  <2> QED BY <2>4, <2>5
<1>7. BestCut \in cuts /\ Best(BestCut)
  <2>1. BestCut = CHOOSE k \in cuts : Best(k)
    BY Zenon DEF BestCut, cuts, size
  <2> HIDE DEF Best
  <2> QED BY <1>6, <2>1, Zenon
<1>8. ASSUME NEW q \in cuts PROVE size[BestCut] <= size[q]
  <2>1. size[BestCut] \in Int /\ size[q] \in Int
    BY <1>5, <1>7
  <2> QED BY <1>7, <2>1
<1>9. ASSUME NEW d \in Dictionaries(BestCut), NEW i \in 1 .. CuttingLimit,
             NEW X \in kSubset(DictSize(RdBits - i), LeftParts(RdBits - i))
      PROVE  RdEstimate(BestCut, Range(d)) <= RdEstimate(RdBits - i, X)
  <2> DEFINE q == RdBits - i
             c == chosen(q)
  <2>1. q \in cuts
    BY DEF cuts
  <2>2. c \in Dictionaries(q)
    BY <1>3, <2>1
  <2> HIDE DEF c
  <2>3. X \in kSubset(DictSize(q), LeftParts(q))
    BY <1>9
  <2> HIDE DEF q, Best
  <2>4. size[q] \in Int /\ RdEstimate(q, Range(c)) = size[q] /\ size[q] <= RdEstimate(q, X)
    BY <1>4, <2>1, <2>2, <2>3
  <2>5. RdEstimate(q, X) \in Int
    <3>1. q \in Nat
      BY <1>2, <2>1
    <3> DEFINE n == Cardinality(X)
               p == Len(Sampled)
               m == Cardinality({k \in DOMAIN LeftOf(q) : LeftOf(q)[k] \notin X})
    <3>2. RdEstimate(q, X) = p * (q + LeftBits(n)) + m * RdExcSize
      BY LeftOfIs
    <3>3. n \in Nat \ {0}
      <4>1. n = DictSize(q)
        BY <2>3, Zenon DEF kSubset
      <4>2. DictSize(q) \in 1 .. MaxDict
        BY LeftPartsAre
      <4> QED BY <4>1, <4>2, AlpAssumption
    <3>4. m \in Nat
      <4>1. IsFiniteSet(DOMAIN LeftOf(q))
        BY LeftOfIs
      <4>2. {k \in DOMAIN LeftOf(q) : LeftOf(q)[k] \notin X} \in SUBSET DOMAIN LeftOf(q)
        OBVIOUS
      <4> QED BY <4>1, <4>2, FS_Subset, FS_CardinalityType
    <3>5. p \in Nat /\ RdExcSize \in Nat
      BY SampledIs, AlpAssumption
    <3> HIDE DEF n, m, p
    <3>6. LeftBits(n) \in Nat
      BY <3>3, LeftBitsIs
    <3> DEFINE b == LeftBits(n)
    <3>7. b \in Nat
      BY <3>6
    <3> HIDE DEF b
    <3>8. p * (q + b) \in Int /\ m * RdExcSize \in Int
      BY <3>1, <3>4, <3>5, <3>7
    <3>9. RdEstimate(q, X) = p * (q + b) + m * RdExcSize
      BY <3>2 DEF b
    <3> QED BY <3>8, <3>9
  <2>6. /\ RdEstimate(BestCut, Range(d)) = size[BestCut] /\ size[BestCut] \in Int
        /\ size[BestCut] <= size[q]
    BY <1>4, <1>7, <1>8, <1>9, <2>1
  <2>7. RdEstimate(BestCut, Range(d)) <= RdEstimate(q, X)
    BY <2>4, <2>5, <2>6
  <2> QED BY <2>7 DEF q
<1>10. BestCut \in Nat
  BY <1>2, <1>7
<1> QED BY <1>9, <1>10

-----------------------------------------------------------------------------
(* A vector through ALP-RD *)

\* What init leaves for ALP-RD: a dictionary whose indices take the bits that
\* are kept of them.
RdState(s) ==
  /\ s.rbw \in Nat /\ s.lbw \in Nat
  /\ DOMAIN s.dict = 1 .. Len(s.dict) /\ Len(s.dict) \in 1 .. MaxDict
  /\ Len(s.dict) <= 2 ^ s.lbw

\* No cut and dictionary would be estimated to take less.
BestState(s) ==
  \A i \in 1 .. CuttingLimit : \A entries \in kSubset(DictSize(RdBits - i), LeftParts(RdBits - i)) :
    RdEstimate(s.rbw, Range(s.dict)) <= RdEstimate(RdBits - i, entries)

\* Whatever the order of left parts that are as frequent as others, init leaves
\* such a state.
LEMMA RdInitIs ==
  ASSUME Column, NEW s \in RdInits
  PROVE  s # None /\ RdState(s) /\ BestState(s)
<1> DEFINE r == BestCut
           n == DictSize(r)
<1>1. PICK d \in Dictionaries(r) : s = [scheme |-> "ALP_RD", rbw |-> r, lbw |-> LeftBits(n), dict |-> d]
  BY Zenon DEF RdInits
<1>2. s.rbw = r /\ s.lbw = LeftBits(n) /\ s.dict = d /\ DOMAIN s = {"scheme", "rbw", "lbw", "dict"}
  <2> HIDE DEF r, n
  <2> QED BY <1>1
<1>3. r \in Nat
  BY BestCutIs
<1>4. d \in [1 .. n -> LeftParts(r)] /\ n \in 1 .. MaxDict
  <2> HIDE DEF r
  <2> QED BY <1>3, DictionaryIs, LeftPartsAre
<1>5. n \in Nat \ {0}
  <2> HIDE DEF n
  <2> QED BY <1>4, AlpAssumption
<1>6. LeftBits(n) \in Nat /\ n <= 2 ^ LeftBits(n)
  <2> HIDE DEF n
  <2> QED BY <1>5, LeftBitsIs
<1>7. Len(d) = n /\ DOMAIN d = 1 .. n
  <2> HIDE DEF n
  <2> QED BY <1>4, <1>5
<1>8. RdState(s)
  <2> HIDE DEF r, n
  <2> QED BY <1>2, <1>3, <1>4, <1>6, <1>7 DEF RdState
<1>9. BestState(s)
  <2>1. \A i \in 1 .. CuttingLimit : \A X \in kSubset(DictSize(RdBits - i), LeftParts(RdBits - i)) :
          RdEstimate(r, Range(d)) <= RdEstimate(RdBits - i, X)
    BY BestCutIs
  <2> HIDE DEF r, n
  <2> QED BY <1>2, <2>1, Zenon DEF BestState
<1>10. s # None
  <2>1. "rbw" \in DOMAIN s /\ "rbw" \notin DOMAIN None
    <3>1. DOMAIN None = {"none"}
      BY DEF None
    <3> QED BY <1>2, <3>1
  <2> QED BY <2>1
<1> QED BY <1>8, <1>9, <1>10

\* Chunk ch keeps of vector v the right parts, and of the left parts what
\* dictionary d does not have.
RdKeeps(ch, v, d) ==
  /\ ch.rbw \in Nat /\ ch.lbw \in Nat
  /\ ch.left = [i \in 1 .. VecSz |-> ch.left[i]]
  /\ ch.pos \in Positions /\ DOMAIN ch.exc = DOMAIN ch.pos /\ Len(ch.exc) = Len(ch.pos)
  /\ \A i \in 1 .. VecSz :
       /\ ch.left[i] \in 0 .. 2 ^ ch.lbw - 1
       /\ ch.right[i] \in 0 .. 2 ^ ch.rbw - 1
       /\ ch.right[i] = Right(VecOf(data, v)[i], ch.rbw)
       /\ \/ i - 1 \in Range(ch.pos)
          \/ ch.left[i] < Len(d) /\ d[ch.left[i] + 1] = Left(VecOf(data, v)[i], ch.rbw)
  /\ \A k \in 1 .. Len(ch.pos) : ch.exc[k] = Left(VecOf(data, v)[ch.pos[k] + 1], ch.rbw)

\* The bits of a number, left and right of a cut.
LEMMA CutIs ==
  ASSUME NEW x \in Nat, NEW r \in Nat
  PROVE  Right(x, r) \in 0 .. 2 ^ r - 1 /\ Left(x, r) * 2 ^ r + Right(x, r) = x
<1> DEFINE p == 2 ^ r
<1>1. p \in Nat \ {0}
  BY PowerPositive
<1>2. Right(x, r) = x % p /\ Left(x, r) = x \div p
  BY DEF Right, Left
<1> HIDE DEF p
<1> DEFINE q == x \div p
           m == x % p
<1>3. x = p * q + m /\ m \in 0 .. p - 1 /\ q \in Nat
  BY <1>1, DivisionFacts
<1> HIDE DEF q, m
<1>4. q * p = p * q
  BY <1>1, <1>3, Z3
<1>5. q * p + m = x
  BY <1>3, <1>4
<1>6. Right(x, r) \in 0 .. p - 1 /\ Left(x, r) * p + Right(x, r) = x
  BY <1>2, <1>3, <1>5 DEF q, m
<1> QED BY <1>6 DEF p

\* The values of a column are bit patterns.
LEMMA Patterns ==
  ASSUME Column, expr = "ALP_RD", NEW v \in 0 .. NumVecs - 1
  PROVE  DOMAIN VecOf(data, v) = 1 .. VecSz /\ \A i \in 1 .. VecSz : VecOf(data, v)[i] \in Nat
<1> DEFINE A == StoredOf(expr)
           s == VecOf(data, v)
<1>1. s \in Seq(A) /\ DOMAIN s = 1 .. VecSz
  BY VecOfIs
<1>2. A \subseteq Nat
  <2>1. 2 ^ RdBits \in Nat
    BY AlpAssumption, PowerPositive
  <2>2. CellsOf(expr) = {Null} \cup 0 .. 2 ^ RdBits - 1
    BY DEF CellsOf
  <2> QED BY <2>1, <2>2 DEF StoredOf
<1> HIDE DEF A, s
<1>3. DOMAIN s = 1 .. Len(s) /\ \A i \in 1 .. Len(s) : s[i] \in A
  <2>1. s \in Seq(A)
    BY <1>1
  <2> QED BY <2>1
<1>4. \A i \in 1 .. VecSz : s[i] \in A
  BY <1>1, <1>3
<1> QED BY <1>1, <1>2, <1>4 DEF s

\* What is kept of a vector.
LEMMA RdChunkIs ==
  ASSUME Column, expr = "ALP_RD", RdState(state), NEW v \in 0 .. NumVecs - 1
  PROVE  RdKeeps(RdChunk(v), v, state.dict)
<1> DEFINE s == VecOf(data, v)
           d == state.dict
           r == state.rbw
           b == state.lbw
           p == 2 ^ b
           n == Len(d)
           index == [i \in DOMAIN s |-> RdIndex(Left(s[i], r))]
           all == [i \in DOMAIN s |-> i - 1]
           T == {i \in 0 .. VecSz - 1 : IsRdException(index[i + 1])}
           pos == Kept(all, T)
           ch == RdChunk(v)
<1>1. DOMAIN s = 1 .. VecSz /\ \A i \in 1 .. VecSz : s[i] \in Nat
  BY Patterns
<1>2. r \in Nat /\ b \in Nat /\ n \in Nat /\ DOMAIN d = 1 .. n /\ n <= p /\ p \in Nat \ {0}
  <2>1. r \in Nat /\ b \in Nat /\ n \in 1 .. MaxDict /\ DOMAIN d = 1 .. n /\ n <= p
    BY DEF RdState
  <2>2. p \in Nat \ {0}
    BY <2>1, PowerPositive
  <2> HIDE DEF r, b, n, d, p
  <2> QED BY <2>1, <2>2, AlpAssumption
<1>3. ch = [lbw |-> b, rbw |-> r, left |-> [i \in DOMAIN s |-> index[i] % p],
            right |-> [i \in DOMAIN s |-> Right(s[i], r)], pos |-> pos,
            exc |-> [k \in DOMAIN pos |-> Left(s[pos[k] + 1], r)]]
  BY Zenon DEF RdChunk
<1>4. \A x : IsRdException(x) <=> x >= n
  BY DEF IsRdException
<1>5. ASSUME NEW x
      PROVE  RdIndex(x) \in Nat /\ (RdIndex(x) < n => d[RdIndex(x) + 1] = x)
  <2>1. CASE x \in Range(d)
    <3> DEFINE c == CHOOSE i \in DOMAIN d : d[i] = x
    <3>1. \E i \in DOMAIN d : d[i] = x
      BY <2>1 DEF Range
    <3>2. c \in DOMAIN d /\ d[c] = x
      BY <3>1, Zenon
    <3>3. RdIndex(x) = c - 1
      BY <2>1 DEF RdIndex
    <3> HIDE DEF c, d, n
    <3>4. c \in 1 .. n
      BY <1>2, <3>2
    <3>5. c - 1 \in Nat /\ (c - 1) + 1 = c
      BY <1>2, <3>4
    <3> QED BY <3>2, <3>3, <3>5
  <2>2. CASE x \notin Range(d)
    <3>1. RdIndex(x) = n
      BY <2>2 DEF RdIndex
    <3> HIDE DEF n
    <3> QED BY <1>2, <3>1
  <2> QED BY <2>1, <2>2
<1>6. \A i \in 1 .. VecSz : index[i] = RdIndex(Left(s[i], r))
  <2> HIDE DEF s, r
  <2> QED BY <1>1
<1>7. \A i \in 1 .. VecSz : index[i] \in Nat /\ (index[i] < n => d[index[i] + 1] = Left(s[i], r))
  <2> HIDE DEF index, s, r, d, n
  <2> QED BY <1>5, <1>6
<1>8. /\ pos \in Positions
      /\ \A i \in 1 .. VecSz : i - 1 \in Range(pos) <=> index[i] >= n
  <2>1. all \in Positions /\ Range(all) = 0 .. VecSz - 1
    <3>1. all = [i \in 1 .. VecSz |-> i - 1]
      <4> HIDE DEF s
      <4> QED BY <1>1
    <3> HIDE DEF all
    <3> QED BY <3>1, AllPositions
  <2> HIDE DEF all
  <2>2. pos \in Positions /\ Range(pos) = (0 .. VecSz - 1) \cap T
    <3> HIDE DEF T
    <3> QED BY <2>1, KeptPositions
  <2> HIDE DEF pos, index
  <2>3. ASSUME NEW i \in 1 .. VecSz PROVE i - 1 \in (0 .. VecSz - 1) \cap T <=> index[i] >= n
    <3>1. i - 1 \in 0 .. VecSz - 1 /\ (i - 1) + 1 = i
      BY AlpAssumption
    <3> HIDE DEF n
    <3> QED BY <1>4, <3>1
  <2> HIDE DEF T, n
  <2> QED BY <2>2, <2>3
<1> HIDE DEF index, pos, p
<1>9. /\ ch.lbw = b /\ ch.rbw = r /\ ch.pos = pos
      /\ ch.left = [i \in 1 .. VecSz |-> index[i] % p]
      /\ ch.right = [i \in 1 .. VecSz |-> Right(s[i], r)]
      /\ ch.exc = [k \in DOMAIN pos |-> Left(s[pos[k] + 1], r)]
  <2> HIDE DEF ch, s, r, b
  <2> QED BY <1>1, <1>3
<1> HIDE DEF ch
<1>10. DOMAIN pos = 1 .. Len(pos) /\ Len(pos) \in Nat
  BY <1>8, PositionsType
<1>11. /\ ch.rbw \in Nat /\ ch.lbw \in Nat
       /\ ch.left = [i \in 1 .. VecSz |-> ch.left[i]]
       /\ ch.pos \in Positions /\ DOMAIN ch.exc = DOMAIN ch.pos /\ Len(ch.exc) = Len(ch.pos)
  <2> HIDE DEF s, r, b
  <2> QED BY <1>2, <1>8, <1>9, <1>10
<1>12. ASSUME NEW i \in 1 .. VecSz
       PROVE  /\ ch.left[i] \in 0 .. 2 ^ ch.lbw - 1
              /\ ch.right[i] \in 0 .. 2 ^ ch.rbw - 1
              /\ ch.right[i] = Right(s[i], ch.rbw)
              /\ \/ i - 1 \in Range(ch.pos)
                 \/ ch.left[i] < Len(d) /\ d[ch.left[i] + 1] = Left(s[i], ch.rbw)
  <2> DEFINE x == index[i]
  <2>1. ch.left[i] = x % p /\ ch.right[i] = Right(s[i], r)
    <3> HIDE DEF s, r
    <3> QED BY <1>9
  <2>2. Right(s[i], r) \in 0 .. 2 ^ r - 1
    BY <1>1, <1>2, CutIs
  <2>3. x \in Nat /\ (x < n => d[x + 1] = Left(s[i], r))
    <3> HIDE DEF r, d, n, s
    <3> QED BY <1>7
  <2>4. i - 1 \in Range(pos) <=> x >= n
    <3> HIDE DEF n
    <3> QED BY <1>8
  <2> HIDE DEF x
  <2>5. x % p \in 0 .. p - 1
    BY <1>2, <2>3, DivisionFacts
  <2>6. ASSUME ~ (x >= n) PROVE x % p < n /\ d[(x % p) + 1] = Left(s[i], r)
    <3> HIDE DEF n, d, s, r
    <3>1. x \in 0 .. p - 1 /\ x < n
      BY <1>2, <2>3, <2>6
    <3>2. (p * 0 + x) % p = x
      <4>1. p \in Nat \ {0} /\ x \in 0 .. p - 1
        BY <1>2, <3>1
      <4> QED BY <4>1, RemainderUnique
    <3>3. p * 0 + x = x
      BY <1>2, <3>1
    <3> QED BY <2>3, <3>1, <3>2, <3>3
  <2>7. ch.left[i] \in 0 .. 2 ^ ch.lbw - 1
    BY <1>9, <2>1, <2>5 DEF p
  <2> HIDE DEF s, r, d
  <2>8. \/ i - 1 \in Range(ch.pos)
        \/ ch.left[i] < Len(d) /\ d[ch.left[i] + 1] = Left(s[i], ch.rbw)
    BY <1>9, <2>1, <2>4, <2>6 DEF n
  <2> QED BY <1>9, <2>1, <2>2, <2>7, <2>8
<1>13. ASSUME NEW k \in 1 .. Len(ch.pos) PROVE ch.exc[k] = Left(s[ch.pos[k] + 1], ch.rbw)
  <2> HIDE DEF s, r
  <2> QED BY <1>9, <1>10, <1>13
<1> HIDE DEF s, d
<1>14. RdKeeps(ch, v, d)
  BY <1>11, <1>12, <1>13 DEF RdKeeps, s
<1> QED BY <1>14 DEF ch, d

\* With its dictionary, everything is had back, nulls as well.
LEMMA RdVectorIs ==
  ASSUME Column, expr = "ALP_RD", NEW v \in 0 .. NumVecs - 1, NEW ch, RdKeeps(ch, v, dict)
  PROVE  Restored(RdVector(ch), v)
<1> DEFINE s == VecOf(data, v)
           r == ch.rbw
           p == 2 ^ r
           entry(i) == IF i < Len(dict) THEN dict[i + 1] ELSE 0
           dec == [i \in 1 .. VecSz |-> entry(ch.left[i]) * p + ch.right[i]]
           exc == [k \in DOMAIN ch.pos |-> ch.exc[k] * p + ch.right[ch.pos[k] + 1]]
           x == PatchedAt(dec, ch.pos, exc)
<1>1. \A i \in 1 .. VecSz : s[i] \in Nat
  BY Patterns
<1>2. /\ r \in Nat /\ DOMAIN ch.left = 1 .. VecSz
      /\ ch.pos \in Positions
      /\ \A i \in 1 .. VecSz :
           /\ ch.right[i] = Right(s[i], r)
           /\ \/ i - 1 \in Range(ch.pos)
              \/ ch.left[i] < Len(dict) /\ dict[ch.left[i] + 1] = Left(s[i], r)
      /\ \A k \in 1 .. Len(ch.pos) : ch.exc[k] = Left(s[ch.pos[k] + 1], r)
  <2>1. ch.left = [i \in 1 .. VecSz |-> ch.left[i]]
    BY DEF RdKeeps
  <2>2. DOMAIN ch.left = 1 .. VecSz
    BY <2>1
  <2> HIDE DEF s
  <2> QED BY <2>2 DEF RdKeeps, s
<1>3. RdVector(ch) = x
  <2> HIDE DEF exc
  <2>1. dec = [i \in DOMAIN ch.left |-> entry(ch.left[i]) * p + ch.right[i]]
    BY <1>2
  <2> HIDE DEF dec
  <2> QED BY <2>1, Zenon DEF RdVector, exc
<1>4. DOMAIN ch.pos = 1 .. Len(ch.pos) /\ \A k \in 1 .. Len(ch.pos) : ch.pos[k] \in 0 .. VecSz - 1
  BY <1>2, PositionsType
<1>5. \A i \in 1 .. VecSz : Left(s[i], r) * p + Right(s[i], r) = s[i]
  <2> HIDE DEF s, r
  <2> QED BY <1>1, <1>2, CutIs DEF p
<1> HIDE DEF s, p, r
<1>6. ASSUME NEW i \in 1 .. VecSz PROVE x[i] = s[i]
  <2>1. \/ i - 1 \notin Range(ch.pos) /\ x[i] = dec[i]
        \/ \E k \in 1 .. Len(ch.pos) : ch.pos[k] = i - 1 /\ x[i] = exc[k]
    <3>1. ch.pos \in Seq(0 .. VecSz - 1)
      BY <1>2 DEF Positions
    <3>2. i \in DOMAIN dec
      OBVIOUS
    <3> HIDE DEF dec, exc
    <3> QED BY <3>1, <3>2, PatchedAtIs
  <2>2. ASSUME i - 1 \notin Range(ch.pos) PROVE dec[i] = s[i]
    <3>1. dec[i] = entry(ch.left[i]) * p + ch.right[i]
      OBVIOUS
    <3>2. entry(ch.left[i]) = Left(s[i], r) /\ ch.right[i] = Right(s[i], r)
      BY <1>2, <2>2
    <3> HIDE DEF dec, entry
    <3> QED BY <1>5, <3>1, <3>2, Zenon
  <2>3. ASSUME NEW k \in 1 .. Len(ch.pos), ch.pos[k] = i - 1 PROVE exc[k] = s[i]
    <3>1. ch.pos[k] + 1 = i
      BY <2>3
    <3>2. exc[k] = ch.exc[k] * p + ch.right[ch.pos[k] + 1]
      BY <1>4
    <3>3. ch.exc[k] = Left(s[i], r) /\ ch.right[ch.pos[k] + 1] = Right(s[i], r)
      BY <1>2, <3>1
    <3> HIDE DEF exc
    <3> QED BY <1>5, <3>2, <3>3, Zenon
  <2> HIDE DEF x, dec, exc
  <2> QED BY <2>1, <2>2, <2>3
<1>7. x = [i \in 1 .. VecSz |-> x[i]]
  <2> HIDE DEF exc
  <2> QED BY DEF PatchedAt
<1> HIDE DEF x
<1> QED BY <1>3, <1>6, <1>7, Zenon DEF Restored, s

-----------------------------------------------------------------------------
(* The invariant *)

\* What SearchFindsBest says of chunk ch of vector v.
LeastTried(ch, v) ==
  LET sample == SampleOf(VecOf(data, v))
  IN  \A k \in 1 .. Min({Len(state.top), EarlyExit + 1}) :
        Estimate(upper, build, sample, ch.c) <= Estimate(upper, build, sample, state.top[k])

\* A chunk holds its vector.
ChunkOf(ch, v) ==
  IF expr = "ALP_RD" THEN RdKeeps(ch, v, state.dict)
  ELSE /\ Len(ch.pos) = Len(ch.exc)
       /\ Restored(AlpVector(ch), v)
       /\ Packed(ch, v)
       /\ LeastTried(ch, v)
       /\ expr = "GALP" => Apart(ch)

\* The state is what init leaves for the expression.
StateOf(s) == IF expr = "ALP_RD" THEN RdState(s) /\ BestState(s) ELSE AlpState(s)

\* The inductive invariant: every chunk holds its vector, the dictionary is that
\* of the state, and what has been materialized is the column.
AlpInv ==
  /\ Column
  /\ tmp_index \in [0 .. VecSz - 1 -> 0 .. VecSz - 1]
  /\ Sequential(chunks) /\ Len(chunks) <= NumVecs
  /\ state = None => chunks = <<>> /\ dict = <<>>
  /\ state # None => StateOf(state)
  /\ \A k \in 1 .. Len(chunks) : ChunkOf(chunks[k], k - 1)
  /\ dict # <<>> => expr = "ALP_RD" /\ dict = state.dict
  /\ Sequential(out) /\ Decoded \in 0 .. NumVecs /\ Len(out) = VecSz * Decoded
  /\ \A i \in 1 .. Len(out) : nulls[i] \/ out[i] = data[i]

\* Init chooses a column.
LEMMA InitColumn ==
  ASSUME Init
  PROVE  Column /\ tmp_index \in [0 .. VecSz - 1 -> 0 .. VecSz - 1]
<1>1. PICK input \in Inputs :
        /\ expr = input.expr /\ cells = input.cells /\ data = Stored(input.cells)
        /\ upper = input.upper /\ build = input.build
        /\ tmp_index = input.tmp
        /\ \E behind \in [1 .. Len(data) - Len(cells) -> BOOLEAN] :
             nulls = [i \in DOMAIN cells |-> cells[i] = Null] \o behind
  BY DEF Init
<1>2. /\ input.expr \in Exprs /\ input.build \in Builds /\ input.upper \in Int
      /\ input.cells \in Seq(CellsOf(input.expr)) /\ input.cells # <<>>
      /\ input.tmp \in [0 .. VecSz - 1 -> 0 .. VecSz - 1]
  BY AlpAssumption DEF InputTypes
<1>3. cells \in Seq(CellsOf(expr)) /\ cells # <<>> /\ data = Stored(cells)
  BY <1>1, <1>2
<1> DEFINE A == CellsOf(expr)
           m == Len(cells)
           n == Len(data)
<1>4. m \in Nat /\ n \in Nat /\ m <= n /\ DOMAIN cells = 1 .. m
  <2>1. IsStored(data, A, cells, Null, 0, VecSz)
    <3>1. data = StoredAs(cells, Null, 0, VecSz) /\ VecSz \in Nat \ {0} /\ cells \in Seq(A)
      BY <1>3, AlpAssumption DEF Stored
    <3> HIDE DEF A
    <3> QED BY <1>3, <3>1, StoredAsIs
  <2> DEFINE B == {0} \cup (A \ {Null})
  <2>2. data \in Seq(B) /\ m <= n
    <3> HIDE DEF A
    <3> QED BY <2>1, Zenon DEF IsStored
  <2>3. n \in Nat
    <3> HIDE DEF B
    <3> QED BY <2>2
  <2>4. cells \in Seq(A)
    BY <1>3
  <2>5. m \in Nat /\ DOMAIN cells = 1 .. m
    <3> HIDE DEF A
    <3> QED BY <2>4
  <2> QED BY <2>2, <2>3, <2>5
<1>5. PICK behind \in [1 .. n - m -> BOOLEAN] : nulls = [i \in 1 .. m |-> cells[i] = Null] \o behind
  <2> HIDE DEF n, m
  <2> QED BY <1>1, <1>4 DEF n, m
<1> HIDE DEF n, m
<1> DEFINE front == [i \in 1 .. m |-> cells[i] = Null]
<1>6. front \in Seq(BOOLEAN) /\ Len(front) = m /\ behind \in Seq(BOOLEAN) /\ Len(behind) = n - m
  BY <1>4, <1>5
<1>7. nulls \in Seq(BOOLEAN) /\ Len(nulls) = m + (n - m) /\ \A i \in 1 .. m : nulls[i] = front[i]
  <2>1. nulls = front \o behind
    BY <1>5
  <2> HIDE DEF front
  <2> QED BY <1>6, <2>1, Concatenation
<1>8. m + (n - m) = n
  BY <1>4
<1>9. \A i \in 1 .. m : nulls[i] = (cells[i] = Null)
  BY <1>7
<1> QED BY <1>1, <1>2, <1>3, <1>7, <1>8, <1>9 DEF Column, m, n

\* Init starts with nothing encoded.
LEMMA AlpInvInit == Init => AlpInv
<1> SUFFICES ASSUME Init PROVE AlpInv
  OBVIOUS
<1>1. Column /\ tmp_index \in [0 .. VecSz - 1 -> 0 .. VecSz - 1]
  BY InitColumn
<1>2. state = None /\ chunks = <<>> /\ dict = <<>> /\ out = <<>>
  BY DEF Init
<1>3. Sequential(<<>>) /\ Len(<<>>) = 0
  BY DEF Sequential
<1>4. NumVecs \in Nat
  BY <1>1, ColumnFacts
<1>5. Decoded = 0 /\ VecSz * 0 = 0
  <2>1. VecSz \in Nat \ {0}
    BY AlpAssumption
  <2>2. VecSz * 0 + 0 = 0 /\ 0 \in 0 .. VecSz - 1
    BY <2>1
  <2>3. (VecSz * 0 + 0) \div VecSz = 0
    BY <2>1, <2>2, RemainderUnique
  <2>4. Decoded = 0 \div VecSz
    BY <1>2, <1>3 DEF Decoded
  <2> QED BY <2>1, <2>2, <2>3, <2>4
<1>6. 0 <= NumVecs /\ 0 \in 0 .. NumVecs
  BY <1>4
<1> HIDE DEF NumVecs
<1> QED BY <1>1, <1>2, <1>3, <1>5, <1>6 DEF AlpInv

\* What the column and its build decide stays as it is.
Fixed == UNCHANGED <<expr, cells, data, nulls, upper, build>>

\* Every step leaves the column alone.
LEMMA ColumnStays ==
  ASSUME Fixed
  PROVE  /\ Column => Column'
         /\ NumVecs' = NumVecs
         /\ Sampled' = Sampled
         /\ \A s : BestState(s) => BestState(s)'
         /\ state' = state => \A ch, v : ChunkOf(ch, v) => ChunkOf(ch, v)'
<1>1. expr' = expr /\ cells' = cells /\ data' = data /\ nulls' = nulls /\ upper' = upper /\ build' = build
  BY DEF Fixed
<1>2. Column => Column'
  BY <1>1 DEF Column
<1>3. NumVecs' = NumVecs
  BY <1>1 DEF NumVecs
<1>4. Sampled' = Sampled
  <2>1. FirstLevelSample' = FirstLevelSample
    BY <1>1, <1>3 DEF FirstLevelSample
  <2> QED BY <2>1 DEF Sampled
<1>5. ASSUME NEW s, BestState(s) PROVE BestState(s)'
  <2>1. ASSUME NEW r PROVE LeftParts(r)' = LeftParts(r)
    BY <1>4 DEF LeftParts
  <2>2. ASSUME NEW r PROVE DictSize(r)' = DictSize(r)
    BY <2>1 DEF DictSize
  <2>3. ASSUME NEW r, NEW X PROVE RdEstimate(r, X)' = RdEstimate(r, X)
    BY <1>4 DEF RdEstimate
  <2> QED BY <1>5, <2>1, <2>2, <2>3 DEF BestState
<1>6. ASSUME state' = state, NEW ch, NEW v, ChunkOf(ch, v) PROVE ChunkOf(ch, v)'
  <2>1. RdKeeps(ch, v, state.dict) => RdKeeps(ch, v, state.dict)'
    BY <1>1, <1>6 DEF RdKeeps
  <2>2. Restored(AlpVector(ch), v) => Restored(AlpVector(ch), v)'
    BY <1>1 DEF Restored
  <2>3. Packed(ch, v) => Packed(ch, v)'
    BY <1>1 DEF Packed
  <2>4. LeastTried(ch, v) => LeastTried(ch, v)'
    BY <1>1, <1>6 DEF LeastTried
  <2> QED BY <1>1, <1>6, <2>1, <2>2, <2>3, <2>4 DEF ChunkOf
<1> QED BY <1>2, <1>3, <1>4, <1>5, <1>6

\* Making the operator chooses the state.
LEMMA ConstructKeeps ==
  ASSUME AlpInv, Construct
  PROVE  AlpInv'
<1>1. /\ state = None /\ tmp_index' = tmp_index /\ chunks' = chunks /\ dict' = dict /\ out' = out
      /\ Fixed
  BY DEF Construct, Fixed
<1>2. expr' = expr /\ nulls' = nulls /\ data' = data
  BY <1>1 DEF Fixed
<1>3. chunks = <<>> /\ dict = <<>> /\ Column
  BY <1>1 DEF AlpInv
<1>4. Column' /\ NumVecs' = NumVecs /\ Decoded' = Decoded
  <2>1. Decoded' = Decoded
    BY <1>1 DEF Decoded
  <2> QED BY <1>1, <1>3, <2>1, ColumnStays
<1>5. state' # None /\ StateOf(state)'
  <2>1. CASE expr = "ALP_RD"
    <3>1. PICK s \in RdInits : state' = s
      BY <2>1 DEF Construct
    <3>2. s # None /\ RdState(s) /\ BestState(s)
      BY <1>3, RdInitIs
    <3>3. BestState(s)'
      BY <1>1, <3>2, ColumnStays
    <3>4. BestState(state)'
      BY <3>1, <3>3 DEF BestState
    <3>5. RdState(state)'
      BY <3>1, <3>2 DEF RdState
    <3> QED BY <1>2, <2>1, <3>1, <3>2, <3>4, <3>5 DEF StateOf, None
  <2>2. CASE expr # "ALP_RD"
    <3> DEFINE s == AlpInit(upper, build)
    <3>1. state' = s
      BY <2>2 DEF Construct
    <3>2. AlpState(s) /\ s # None
      <4>1. AlpState(s)
        BY <1>3, AlpInitIs
      <4>2. \E f, g, h : s = [scheme |-> f, k |-> g, top |-> h]
        BY Zenon DEF AlpInit
      <4> HIDE DEF s
      <4>3. "top" \in DOMAIN s /\ DOMAIN None = {"none"}
        BY <4>2 DEF None
      <4> QED BY <4>1, <4>3
    <3> HIDE DEF s
    <3>3. AlpState(state)'
      BY <3>1, <3>2 DEF AlpState
    <3> QED BY <1>2, <2>2, <3>1, <3>2, <3>3 DEF StateOf, None
  <2> QED BY <2>1, <2>2
<1>6. Len(chunks') = 0
  BY <1>1, <1>3
<1> HIDE DEF Construct
<1>7. /\ tmp_index' \in [0 .. VecSz - 1 -> 0 .. VecSz - 1]
      /\ Sequential(chunks') /\ Len(chunks') <= NumVecs'
      /\ \A k \in 1 .. Len(chunks') : ChunkOf(chunks[k], k - 1)'
      /\ dict' = <<>>
      /\ Sequential(out') /\ Decoded' \in 0 .. NumVecs' /\ Len(out') = VecSz * Decoded'
      /\ \A i \in 1 .. Len(out') : nulls'[i] \/ out'[i] = data'[i]
  <2>1. \A k \in 1 .. Len(chunks') : FALSE
    BY <1>6
  <2> QED BY <1>1, <1>2, <1>3, <1>4, <2>1 DEF AlpInv
<1> QED BY <1>4, <1>5, <1>7 DEF AlpInv, None

\* A vector is encoded into one more chunk.
LEMMA ChunkAdded ==
  ASSUME AlpInv, Encoding, Fixed, state' = state, dict' = dict, out' = out,
         tmp_index' \in [0 .. VecSz - 1 -> 0 .. VecSz - 1],
         NEW ch, ChunkOf(ch, Len(chunks)), chunks' = Append(chunks, ch)
  PROVE  AlpInv'
<1> DEFINE n == Len(chunks)
<1>1. expr' = expr /\ nulls' = nulls /\ data' = data
  BY DEF Fixed
<1>2. Column' /\ NumVecs' = NumVecs /\ Decoded' = Decoded /\ StateOf(state)' /\ state # None
  <2>1. Decoded' = Decoded
    BY DEF Decoded
  <2>2. Column /\ state # None /\ StateOf(state)
    BY DEF AlpInv, Encoding
  <2>3. BestState(state) => BestState(state)'
    <3>1. PICK s : s = state
      OBVIOUS
    <3>2. BestState(s) => BestState(s)'
      BY ColumnStays
    <3> QED BY <3>1, <3>2 DEF BestState
  <2>4. StateOf(state)'
    BY <1>1, <2>2, <2>3 DEF StateOf, RdState, AlpState
  <2> QED BY <2>1, <2>2, <2>4, ColumnStays
<1>3. Sequential(chunks) /\ n \in Nat /\ n < NumVecs /\ NumVecs \in Nat
  <2>1. Column
    BY DEF AlpInv
  <2>2. NumVecs \in Nat
    BY <2>1, ColumnFacts
  <2> QED BY <2>2 DEF AlpInv, Encoding, Sequential
<1>4. /\ Sequential(chunks') /\ Len(chunks') = n + 1
      /\ \A k \in 1 .. n : chunks'[k] = chunks[k]
      /\ chunks'[n + 1] = ch
  BY <1>3, OneLonger
<1>5. \A x, v : ChunkOf(x, v) => ChunkOf(x, v)'
  BY ColumnStays
<1>6. ASSUME NEW k \in 1 .. n + 1 PROVE ChunkOf(chunks[k], k - 1)'
  <2>1. PICK x : x = chunks'[k]
    OBVIOUS
  <2>2. ChunkOf(x, k - 1)
    <3>1. CASE k = n + 1
      <4>1. x = ch /\ k - 1 = n
        BY <1>3, <1>4, <2>1, <3>1
      <4> QED BY <4>1
    <3>2. CASE k # n + 1
      <4>1. k \in 1 .. n
        BY <1>3, <3>2
      <4>2. x = chunks[k]
        BY <1>4, <2>1, <4>1
      <4> QED BY <4>1, <4>2 DEF AlpInv
    <3> QED BY <3>1, <3>2
  <2>3. ChunkOf(x, k - 1)'
    BY <1>5, <2>2
  <2> QED BY <2>1, <2>3
<1> HIDE DEF n
<1>7. /\ Len(chunks') <= NumVecs'
      /\ \A k \in 1 .. Len(chunks') : ChunkOf(chunks[k], k - 1)'
  BY <1>2, <1>3, <1>4, <1>6
<1>8. /\ dict' # <<>> => expr' = "ALP_RD" /\ dict' = state'.dict
      /\ Sequential(out') /\ Decoded' \in 0 .. NumVecs' /\ Len(out') = VecSz * Decoded'
      /\ \A i \in 1 .. Len(out') : nulls'[i] \/ out'[i] = data'[i]
  BY <1>1, <1>2 DEF AlpInv
<1> QED BY <1>2, <1>4, <1>7, <1>8 DEF AlpInv, None

\* Before a vector is encoded the state and the combination are good.
LEMMA EncodingIs ==
  ASSUME AlpInv, Encoding
  PROVE  Column /\ Len(chunks) \in 0 .. NumVecs - 1 /\ StateOf(state)
<1>1. Column /\ StateOf(state) /\ Sequential(chunks)
  BY DEF AlpInv, Encoding
<1>2. NumVecs \in Nat
  BY <1>1, ColumnFacts
<1>3. Len(chunks) \in Nat /\ Len(chunks) < NumVecs
  BY <1>1 DEF Encoding, Sequential
<1> HIDE DEF NumVecs
<1> QED BY <1>1, <1>2, <1>3

\* Encoding with ALP keeps the vector.
LEMMA EncodeAlpKeeps ==
  ASSUME AlpInv, EncodeAlp
  PROVE  AlpInv'
<1> DEFINE v == Len(chunks)
           s == VecOf(data, v)
           c == Combination(s)
           ch == AlpChunk(v, c)
<1>1. /\ Encoding /\ expr # "ALP_RD" /\ state.top # <<>>
      /\ chunks' = Append(chunks, ch)
      /\ tmp_index' = TmpIndex(ExceptionPositions(s, c))
      /\ state' = state /\ dict' = dict /\ out' = out /\ Fixed
  BY DEF EncodeAlp, Fixed
<1>2. Column /\ v \in 0 .. NumVecs - 1 /\ AlpState(state)
  BY <1>1, EncodingIs DEF StateOf
<1>3. tmp_index \in [0 .. VecSz - 1 -> 0 .. VecSz - 1]
  BY DEF AlpInv
<1> HIDE DEF v
<1>4. /\ c \in ValidCombinations
      /\ \A k \in 1 .. Min({Len(state.top), EarlyExit + 1}) :
           Estimate(upper, build, SampleOf(s), c) <= Estimate(upper, build, SampleOf(s), state.top[k])
  BY <1>1, <1>2, CombinationIs
<1> HIDE DEF c
<1>5. /\ ch.c = c /\ Len(ch.pos) = Len(ch.exc)
      /\ Restored(AlpVector(ch), v) /\ Packed(ch, v)
      /\ expr = "GALP" => Apart(ch)
  BY <1>2, <1>3, <1>4, AlpChunkIs
<1>6. tmp_index' \in [0 .. VecSz - 1 -> 0 .. VecSz - 1]
  <2>1. DOMAIN s = 1 .. VecSz
    BY <1>2, VecOfIs
  <2>2. ExceptionPositions(s, c) \in Positions
    <3> HIDE DEF s
    <3> QED BY <2>1, ExceptionsAre
  <2> DEFINE all == ExceptionPositions(s, c)
  <2> HIDE DEF all
  <2>3. TmpIndex(all) \in [0 .. VecSz - 1 -> 0 .. VecSz - 1]
    BY <1>3, <2>2, TmpIndexIs DEF all
  <2> QED BY <1>1, <2>3 DEF all
<1> HIDE DEF ch
<1>7. LeastTried(ch, v)
  BY <1>4, <1>5 DEF LeastTried
<1>8. ChunkOf(ch, v)
  BY <1>1, <1>5, <1>7 DEF ChunkOf
<1> QED BY <1>1, <1>6, <1>8, ChunkAdded DEF v

\* Encoding with ALP-RD keeps the vector.
LEMMA EncodeRdKeeps ==
  ASSUME AlpInv, EncodeRd
  PROVE  AlpInv'
<1> DEFINE v == Len(chunks)
           ch == RdChunk(v)
<1>1. /\ Encoding /\ expr = "ALP_RD"
      /\ chunks' = Append(chunks, ch)
      /\ tmp_index' = tmp_index
      /\ state' = state /\ dict' = dict /\ out' = out /\ Fixed
  BY DEF EncodeRd, Fixed
<1>2. Column /\ v \in 0 .. NumVecs - 1 /\ RdState(state)
  BY <1>1, EncodingIs DEF StateOf
<1> HIDE DEF v
<1>3. RdKeeps(ch, v, state.dict)
  BY <1>1, <1>2, RdChunkIs
<1> HIDE DEF ch
<1>4. ChunkOf(ch, v)
  BY <1>1, <1>3 DEF ChunkOf
<1>5. tmp_index' \in [0 .. VecSz - 1 -> 0 .. VecSz - 1]
  BY <1>1 DEF AlpInv
<1> QED BY <1>1, <1>4, <1>5, ChunkAdded DEF v

\* A step that leaves the chunks, the state and what is materialized alone.
LEMMA NothingEncoded ==
  ASSUME AlpInv, Fixed, chunks' = chunks, state' = state, tmp_index' = tmp_index
  PROVE  /\ Column' /\ NumVecs' = NumVecs
         /\ tmp_index' \in [0 .. VecSz - 1 -> 0 .. VecSz - 1]
         /\ Sequential(chunks') /\ Len(chunks') <= NumVecs'
         /\ (state = None)' => chunks' = <<>> /\ dict = <<>>
         /\ (state # None)' => StateOf(state)'
         /\ \A k \in 1 .. Len(chunks') : ChunkOf(chunks[k], k - 1)'
<1>1. expr' = expr /\ nulls' = nulls /\ data' = data
  BY DEF Fixed
<1>2. Column' /\ NumVecs' = NumVecs
  BY ColumnStays DEF AlpInv
<1>3. BestState(state) => BestState(state)'
  <2>1. PICK s : s = state
    OBVIOUS
  <2>2. BestState(s) => BestState(s)'
    BY ColumnStays
  <2> QED BY <2>1, <2>2 DEF BestState
<1>4. StateOf(state) => StateOf(state)'
  BY <1>1, <1>3 DEF StateOf, RdState, AlpState
<1>5. ASSUME NEW k \in 1 .. Len(chunks) PROVE ChunkOf(chunks[k], k - 1)'
  <2>1. PICK x : x = chunks[k]
    OBVIOUS
  <2>2. ChunkOf(x, k - 1)
    BY <2>1 DEF AlpInv
  <2>3. ChunkOf(x, k - 1)'
    BY <2>2, ColumnStays
  <2> QED BY <2>1, <2>3
<1> QED BY <1>1, <1>2, <1>4, <1>5 DEF AlpInv, None

\* A vector without a combination stops everything.
LEMMA CrashKeeps ==
  ASSUME AlpInv, EncodeWithoutCombination
  PROVE  AlpInv'
<1>1. /\ chunks' = chunks /\ state' = state /\ tmp_index' = tmp_index /\ dict' = dict /\ out' = out /\ Fixed
  BY DEF EncodeWithoutCombination, Fixed
<1>2. expr' = expr /\ nulls' = nulls /\ data' = data /\ Decoded' = Decoded
  BY <1>1 DEF Fixed, Decoded
<1>3. /\ Column' /\ NumVecs' = NumVecs
      /\ tmp_index' \in [0 .. VecSz - 1 -> 0 .. VecSz - 1]
      /\ Sequential(chunks') /\ Len(chunks') <= NumVecs'
      /\ (state = None)' => chunks' = <<>> /\ dict = <<>>
      /\ (state # None)' => StateOf(state)'
      /\ \A k \in 1 .. Len(chunks') : ChunkOf(chunks[k], k - 1)'
  BY <1>1, NothingEncoded
<1> QED BY <1>1, <1>2, <1>3 DEF AlpInv

\* The dictionary is stored behind the last vector.
LEMMA FinalizeKeeps ==
  ASSUME AlpInv, FinalizeRd
  PROVE  AlpInv'
<1>1. /\ chunks' = chunks /\ state' = state /\ tmp_index' = tmp_index /\ out' = out /\ Fixed
      /\ expr = "ALP_RD" /\ dict' = state.dict /\ Len(chunks) = NumVecs
  BY DEF FinalizeRd, Fixed
<1>2. expr' = expr /\ nulls' = nulls /\ data' = data /\ Decoded' = Decoded
  BY <1>1 DEF Fixed, Decoded
<1>3. /\ Column' /\ NumVecs' = NumVecs
      /\ tmp_index' \in [0 .. VecSz - 1 -> 0 .. VecSz - 1]
      /\ Sequential(chunks') /\ Len(chunks') <= NumVecs'
      /\ (state = None)' => chunks' = <<>> /\ dict = <<>>
      /\ (state # None)' => StateOf(state)'
      /\ \A k \in 1 .. Len(chunks') : ChunkOf(chunks[k], k - 1)'
  BY <1>1, NothingEncoded
<1>4. state # None
  <2>1. Column
    BY DEF AlpInv
  <2>2. NumVecs \in Nat \ {0}
    BY <2>1, ColumnFacts
  <2>3. chunks # <<>>
    BY <1>1, <2>2
  <2> QED BY <2>3 DEF AlpInv
<1> QED BY <1>1, <1>2, <1>3, <1>4 DEF AlpInv, None

\* What is materialized is the next vector of the column.
LEMMA MaterializeKeeps ==
  ASSUME AlpInv, MaterializeVector
  PROVE  AlpInv'
<1> DEFINE v == Decoded
           ch == chunks[v + 1]
           x == IF expr = "ALP_RD" THEN RdVector(ch) ELSE AlpVector(ch)
           n == Len(out)
<1>1. /\ chunks' = chunks /\ state' = state /\ tmp_index' = tmp_index /\ dict' = dict /\ Fixed
      /\ Len(chunks) = NumVecs /\ (expr = "ALP_RD" => dict # <<>>) /\ v < NumVecs
      /\ out' = out \o x
  BY DEF MaterializeVector, Fixed
<1>2. expr' = expr /\ nulls' = nulls /\ data' = data
  BY <1>1 DEF Fixed
<1>3. /\ Column' /\ NumVecs' = NumVecs
      /\ tmp_index' \in [0 .. VecSz - 1 -> 0 .. VecSz - 1]
      /\ Sequential(chunks') /\ Len(chunks') <= NumVecs'
      /\ (state = None)' => chunks' = <<>> /\ dict = <<>>
      /\ (state # None)' => StateOf(state)'
      /\ \A k \in 1 .. Len(chunks') : ChunkOf(chunks[k], k - 1)'
  BY <1>1, NothingEncoded
<1>4. /\ Column /\ Sequential(out) /\ v \in 0 .. NumVecs /\ n = VecSz * v
      /\ \A i \in 1 .. n : nulls[i] \/ out[i] = data[i]
      /\ dict # <<>> => dict = state.dict
      /\ \A k \in 1 .. Len(chunks) : ChunkOf(chunks[k], k - 1)
  BY DEF AlpInv
<1>5. NumVecs \in Nat \ {0} /\ VecSz \in Nat \ {0}
  BY <1>4, ColumnFacts, AlpAssumption
<1> HIDE DEF v, n
<1>6. v \in 0 .. NumVecs - 1 /\ v + 1 \in 1 .. Len(chunks) /\ (v + 1) - 1 = v /\ v + 1 \in 0 .. NumVecs
  <2> HIDE DEF NumVecs
  <2> QED BY <1>1, <1>4, <1>5
<1>7. ChunkOf(ch, v)
  BY <1>4, <1>6
<1> HIDE DEF ch
<1>8. Restored(x, v)
  <2>1. CASE expr = "ALP_RD"
    <3>1. RdKeeps(ch, v, dict)
      BY <1>1, <1>4, <1>7, <2>1 DEF ChunkOf
    <3>2. Restored(RdVector(ch), v)
      BY <1>4, <1>6, <2>1, <3>1, RdVectorIs
    <3> QED BY <2>1, <3>2
  <2>2. CASE expr # "ALP_RD"
    BY <1>7, <2>2 DEF ChunkOf
  <2> QED BY <2>1, <2>2
<1> HIDE DEF x
<1>9. Sequential(x) /\ Len(x) = VecSz
  <2>1. x = [i \in 1 .. VecSz |-> x[i]]
    BY <1>8 DEF Restored
  <2>2. Len(x) = VecSz
    BY <1>5, <2>1
  <2> QED BY <1>5, <2>1, <2>2 DEF Sequential
<1>10. /\ Sequential(out') /\ Len(out') = n + VecSz
       /\ \A i \in 1 .. n : out'[i] = out[i]
       /\ \A k \in 1 .. VecSz : out'[n + k] = x[k]
  <2>1. out' = out \o x
    BY <1>1
  <2>2. Behind(out, x, out \o x)
    <3>1. Sequential(out) /\ Sequential(x)
      BY <1>4, <1>9
    <3> QED BY <3>1, OneBehind, Zenon
  <2> QED BY <1>9, <2>1, <2>2, Zenon DEF n, Behind
<1>11. v \in Nat /\ n \in Nat /\ Len(out') = VecSz * (v + 1)
  <2> HIDE DEF NumVecs
  <2>1. v \in Nat
    BY <1>6
  <2>2. VecSz * (v + 1) = VecSz * v + VecSz
    BY <1>5, <2>1, Z3
  <2>3. VecSz * v \in Nat
    BY <1>5, <2>1, Z3
  <2> QED BY <1>4, <1>10, <2>1, <2>2, <2>3
<1>12. Decoded' = v + 1
  <2>1. VecSz * (v + 1) = VecSz * (v + 1) + 0 /\ 0 \in 0 .. VecSz - 1 /\ v + 1 \in Int
    <3>1. VecSz * (v + 1) \in Int
      BY <1>5, <1>11, Z3
    <3> QED BY <1>5, <1>11, <3>1
  <2>2. (VecSz * (v + 1) + 0) \div VecSz = v + 1
    BY <1>5, <2>1, RemainderUnique
  <2> QED BY <1>11, <2>1, <2>2 DEF Decoded
<1>13. ASSUME NEW i \in 1 .. Len(out') PROVE nulls[i] \/ out'[i] = data[i]
  <2>1. CASE i \in 1 .. n
    BY <1>4, <1>10, <2>1
  <2>2. CASE i \notin 1 .. n
    <3> DEFINE k == i - n
    <3>1. k \in 1 .. VecSz /\ n + k = i
      BY <1>5, <1>10, <1>11, <2>2
    <3> HIDE DEF k
    <3>2. VecOf(nulls, v)[k] \/ x[k] = VecOf(data, v)[k]
      BY <1>8, <3>1 DEF Restored
    <3>3. VecOf(nulls, v)[k] = nulls[v * VecSz + k] /\ VecOf(data, v)[k] = data[v * VecSz + k]
      BY <1>4, <1>6, <3>1, VecOfIs
    <3>4. v * VecSz = n
      BY <1>4, <1>5, <1>11, Z3
    <3> QED BY <1>10, <3>1, <3>2, <3>3, <3>4
  <2> QED BY <2>1, <2>2
<1>14. /\ dict' # <<>> => expr' = "ALP_RD" /\ dict' = state'.dict
       /\ (state = None)' => chunks' = <<>> /\ dict' = <<>>
  BY <1>1, <1>2, <1>3 DEF AlpInv, None
<1> QED BY <1>1, <1>2, <1>3, <1>6, <1>10, <1>11, <1>12, <1>13, <1>14 DEF AlpInv

\* Every step keeps the invariant.
LEMMA AlpInvNext == AlpInv /\ [Next]_vars => AlpInv'
<1> SUFFICES ASSUME AlpInv, [Next]_vars PROVE AlpInv'
  OBVIOUS
<1>1. CASE Construct
  BY <1>1, ConstructKeeps
<1>2. CASE EncodeAlp
  BY <1>2, EncodeAlpKeeps
<1>3. CASE EncodeWithoutCombination
  BY <1>3, CrashKeeps
<1>4. CASE EncodeRd
  BY <1>4, EncodeRdKeeps
<1>5. CASE FinalizeRd
  BY <1>5, FinalizeKeeps
<1>6. CASE MaterializeVector
  BY <1>6, MaterializeKeeps
<1>7. CASE UNCHANGED vars
  <2>1. /\ chunks' = chunks /\ state' = state /\ tmp_index' = tmp_index /\ dict' = dict /\ out' = out /\ Fixed
    BY <1>7 DEF vars, Fixed
  <2>2. expr' = expr /\ nulls' = nulls /\ data' = data /\ Decoded' = Decoded
    BY <2>1 DEF Fixed, Decoded
  <2>3. /\ Column' /\ NumVecs' = NumVecs
        /\ tmp_index' \in [0 .. VecSz - 1 -> 0 .. VecSz - 1]
        /\ Sequential(chunks') /\ Len(chunks') <= NumVecs'
        /\ (state = None)' => chunks' = <<>> /\ dict = <<>>
        /\ (state # None)' => StateOf(state)'
        /\ \A k \in 1 .. Len(chunks') : ChunkOf(chunks[k], k - 1)'
    BY <2>1, NothingEncoded
  <2> QED BY <2>1, <2>2, <2>3 DEF AlpInv
<1> QED BY <1>1, <1>2, <1>3, <1>4, <1>5, <1>6, <1>7 DEF Next

-----------------------------------------------------------------------------
(* The properties *)

\* The invariant implies what the runs check.
LEMMA AlpInvShows ==
  ASSUME AlpInv
  PROVE  AlpTypeOK /\ AlpRoundTrip /\ PackedRange /\ SearchFindsBest /\ LanesSeparate /\ NoBetterCut
<1>1. Column /\ \A k \in 1 .. Len(chunks) : ChunkOf(chunks[k], k - 1)
  BY DEF AlpInv
<1>2. DOMAIN chunks = 1 .. Len(chunks)
  <2>1. chunks = [k \in 1 .. Len(chunks) |-> chunks[k]]
    BY DEF AlpInv, Sequential
  <2> QED BY <2>1
<1>3. VecSz \in Nat \ {0} /\ NumVecs \in Nat
  BY <1>1, AlpAssumption, ColumnFacts
<1>4. AlpTypeOK
  <2>1. Len(out) % VecSz = 0
    <3> DEFINE m == Decoded
    <3>1. m \in 0 .. NumVecs /\ Len(out) = VecSz * m
      BY DEF AlpInv
    <3> HIDE DEF m, NumVecs
    <3>2. m \in Int /\ 0 \in 0 .. VecSz - 1
      BY <1>3, <3>1
    <3>3. (VecSz * m + 0) % VecSz = 0
      BY <1>3, <3>2, RemainderUnique
    <3>4. VecSz * m \in Int
      BY <1>3, <3>2, Z3
    <3>5. VecSz * m + 0 = VecSz * m
      BY <3>4
    <3> QED BY <3>1, <3>3, <3>5
  <2>2. dict # <<>> => expr = "ALP_RD" /\ Len(dict) \in 1 .. MaxDict
    BY DEF AlpInv, StateOf, RdState
  <2>3. ASSUME NEW v \in 1 .. Len(chunks)
        PROVE  /\ Len(chunks[v].pos) = Len(chunks[v].exc)
               /\ expr = "ALP_RD" =>
                    /\ \A i \in 1 .. VecSz : chunks[v].left[i] \in 0 .. 2 ^ chunks[v].lbw - 1
                    /\ \A i \in 1 .. VecSz : chunks[v].right[i] \in 0 .. 2 ^ chunks[v].rbw - 1
    <3>1. ChunkOf(chunks[v], v - 1)
      BY <1>1
    <3> DEFINE ch == chunks[v]
    <3> HIDE DEF ch
    <3>2. ChunkOf(ch, v - 1)
      BY <3>1 DEF ch
    <3>3. CASE expr = "ALP_RD"
      BY <3>2, <3>3 DEF ChunkOf, RdKeeps, ch
    <3>4. CASE expr # "ALP_RD"
      BY <3>2, <3>4 DEF ChunkOf, ch
    <3> QED BY <3>3, <3>4
  <2> QED BY <1>2, <2>1, <2>2, <2>3 DEF AlpTypeOK, AlpInv
<1>5. AlpRoundTrip
  <2> SUFFICES ASSUME NEW i \in 1 .. Len(out), i <= Len(cells), cells[i] # Null
               PROVE  out[i] = cells[i]
    BY DEF AlpRoundTrip
  <2>1. i \in 1 .. Len(cells)
    <3>1. cells \in Seq(CellsOf(expr))
      BY <1>1 DEF Column
    <3>2. Len(cells) \in Nat
      BY <3>1
    <3> QED BY <3>2
  <2>2. nulls[i] = FALSE
    BY <1>1, <2>1 DEF Column
  <2>3. data[i] = cells[i]
    BY <1>1, <2>1, ColumnFacts
  <2> QED BY <2>2, <2>3 DEF AlpInv
<1>6. PackedRange
  BY <1>1, <1>2 DEF PackedRange, ChunkOf, Packed
<1>7. SearchFindsBest
  BY <1>1, <1>2 DEF SearchFindsBest, ChunkOf, LeastTried
<1>8. LanesSeparate
  BY <1>1, <1>2 DEF LanesSeparate, ChunkOf, Apart
<1>9. NoBetterCut
  BY DEF NoBetterCut, AlpInv, StateOf, BestState
<1> QED BY <1>4, <1>5, <1>6, <1>7, <1>8, <1>9

\* The invariant holds in every state.
THEOREM AlpInvariant == Spec => []AlpInv
<1> QED BY AlpInvInit, AlpInvNext, PTL DEF Spec

\* Whole vectors are encoded and materialized, a dictionary is stored only for
\* ALP-RD, and the packed integers have the bits they are said to have.
THEOREM AlpTyped == Spec => []AlpTypeOK
<1>1. AlpInv => AlpTypeOK
  BY AlpInvShows
<1> QED BY <1>1, AlpInvariant, PTL

\* Every row that is not null is materialized bit for bit: NaNs, -0.0 and every
\* exception, in every build, for every sample, whatever combination or cut the
\* search has chosen and whatever was left in TMP_INDEX_ARR.
THEOREM AlpRoundTrips == Spec => []AlpRoundTrip
<1>1. AlpInv => AlpRoundTrip
  BY AlpInvShows
<1> QED BY <1>1, AlpInvariant, PTL

\* An exception never makes a vector wider than its other values and 0 are.
THEOREM AlpPacksTight == Spec => []PackedRange
<1>1. AlpInv => PackedRange
  BY AlpInvShows
<1> QED BY <1>1, AlpInvariant, PTL

\* Ending the search early, ALP still loses to none of the combinations that are
\* tried for certain.
THEOREM AlpSearches == Spec => []SearchFindsBest
<1>1. AlpInv => SearchFindsBest
  BY AlpInvShows
<1> QED BY <1>1, AlpInvariant, PTL

\* In data-parallel layout a lane's exceptions lie between the offsets of the
\* lanes beside it, in order.
THEOREM GalpLanesApart == Spec => []LanesSeparate
<1>1. AlpInv => LanesSeparate
  BY AlpInvShows
<1> QED BY <1>1, AlpInvariant, PTL

\* The most frequent left parts make the best dictionary of a cut, and the cut
\* that is chosen is the best of those tried.
THEOREM AlpRdCutsBest == Spec => []NoBetterCut
<1>1. AlpInv => NoBetterCut
  BY AlpInvShows
<1> QED BY <1>1, AlpInvariant, PTL
=============================================================================
