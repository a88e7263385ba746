------------------------- MODULE OperatorKernelsProofs -------------------------
(***************************************************************************)
(* Proofs about OperatorKernels, for all columns, types, sizes of vectors  *)
(* and limits: what each expression encodes is decoded to what has been    *)
(* ingested, the exceptions are few, no range of values would have been    *)
(* smaller, and runs tile a column.                                        *)
(***************************************************************************)
EXTENDS OperatorKernels, DataLemmas

-----------------------------------------------------------------------------
(* Integers of a type *)

\* What a type of integers is.
IsType(t) == t.least \in Int /\ t.bits \in Nat

\* Those of the module have MaxWidth bits at most, and 0 among them.
LEMMA TypesAre ==
  \A t \in {ValueType, IndexType, OffsetType} :
    IsType(t) /\ t.bits <= MaxWidth /\ 0 \in OfType(t)
<1>1. /\ Width \in Nat /\ OfsWidth \in Nat /\ Width - 1 \in Nat /\ Width = (Width - 1) + 1
      /\ Width <= MaxWidth /\ OfsWidth <= MaxWidth
  BY SizesAssumption
<1> DEFINE p == 2 ^ (Width - 1)
<1>2. p \in Nat \ {0} /\ 2 ^ Width \in Nat \ {0} /\ 2 ^ OfsWidth \in Nat \ {0} /\ 2 ^ Width = 2 * p
  <2> DEFINE w == Width - 1
  <2>1. w \in Nat /\ Width = w + 1
    BY <1>1
  <2> HIDE DEF w
  <2>2. 2 ^ (w + 1) = 2 * 2 ^ w
    BY <2>1, PowerDoubles
  <2>3. 2 ^ w \in Nat \ {0} /\ 2 ^ Width \in Nat \ {0} /\ 2 ^ OfsWidth \in Nat \ {0}
    BY <1>1, <2>1, PowerPositive
  <2>4. 2 ^ Width = 2 * 2 ^ w
    BY <2>1, <2>2
  <2> QED BY <2>3, <2>4 DEF w
<1> DEFINE q == 2 ^ Width
           r == 2 ^ OfsWidth
<1>3. /\ ValueType.least = 0 - p /\ ValueType.bits = Width /\ OfType(ValueType) = (0 - p) .. ((0 - p) + q - 1)
      /\ IndexType.least = 0 /\ IndexType.bits = Width /\ OfType(IndexType) = 0 .. (0 + q - 1)
      /\ OffsetType.least = 0 /\ OffsetType.bits = OfsWidth /\ OfType(OffsetType) = 0 .. (0 + r - 1)
  BY DEF ValueType, IndexType, OffsetType, OfType
<1> HIDE DEF p, q, r
<1>4. p \in Nat \ {0} /\ q \in Nat \ {0} /\ r \in Nat \ {0} /\ q = 2 * p
  BY <1>2 DEF q, r
<1>5. IsType(ValueType) /\ IsType(IndexType) /\ IsType(OffsetType)
  BY <1>1, <1>3, <1>4 DEF IsType
<1>6. 0 \in OfType(ValueType) /\ 0 \in OfType(IndexType) /\ 0 \in OfType(OffsetType)
  BY <1>3, <1>4
<1>7. ValueType.bits <= MaxWidth /\ IndexType.bits <= MaxWidth /\ OffsetType.bits <= MaxWidth
  BY <1>1, <1>3
<1> QED BY <1>5, <1>6, <1>7

\* Its integers.
LEMMA OfTypeIs ==
  ASSUME NEW t, IsType(t)
  PROVE  /\ 2 ^ t.bits \in Nat \ {0}
         /\ \A x : x \in OfType(t) <=> x \in Int /\ t.least <= x /\ x < t.least + 2 ^ t.bits
<1> DEFINE p == 2 ^ t.bits
           a == t.least
<1>1. a \in Int /\ p \in Nat \ {0}
  BY PowerPositive DEF IsType
<1>2. OfType(t) = a .. (a + p - 1)
  BY DEF OfType
<1> HIDE DEF a, p
<1> QED BY <1>1, <1>2 DEF a, p

\* Fit gives an integer of the type, which differs by a multiple of its size.
LEMMA FitIs ==
  ASSUME NEW t, IsType(t), NEW x \in Int
  PROVE  Fit(t, x) \in OfType(t) /\ \E m \in Int : Fit(t, x) = x + 2 ^ t.bits * m
<1> DEFINE p == 2 ^ t.bits
           a == t.least
           d == x - a
<1>1. a \in Int /\ p \in Nat \ {0} /\ d \in Int
  BY OfTypeIs DEF IsType
<1>2. Fit(t, x) = a + (d % p)
  BY Zenon DEF Fit
<1>3. d = p * (d \div p) + (d % p) /\ d % p \in 0 .. p - 1 /\ d \div p \in Int
  <2> HIDE DEF p, d
  <2> QED BY <1>1, DivisionOfIntegers
<1> DEFINE q == d \div p
           r == d % p
<1>4. a + r = x + p * (0 - q) /\ 0 - q \in Int /\ a <= a + r /\ a + r < a + p /\ a + r \in Int
  <2>1. x = d + a /\ d = p * q + r /\ r \in 0 .. p - 1 /\ q \in Int /\ p \in Nat
    BY <1>1, <1>3
  <2> HIDE DEF q, r, d, p, a
  <2>2. a \in Int /\ p * q \in Int
    BY <1>1, <2>1
  <2>3. p * (0 - q) = 0 - p * q
    BY <2>1
  <2> QED BY <2>1, <2>2, <2>3
<1> HIDE DEF q, r
<1>5. Fit(t, x) = a + r
  BY <1>2 DEF r
<1> HIDE DEF a, p
<1>6. a + r \in OfType(t)
  BY <1>4, OfTypeIs DEF a, p
<1>7. Fit(t, x) = x + p * (0 - q)
  BY <1>4, <1>5
<1> QED BY <1>4, <1>5, <1>6, <1>7 DEF p

\* Whatever multiple of it has been added, an integer of the type is had back.
LEMMA FitSame ==
  ASSUME NEW t, IsType(t), NEW x \in OfType(t), NEW m \in Int
  PROVE  Fit(t, x + 2 ^ t.bits * m) = x
<1> DEFINE p == 2 ^ t.bits
           a == t.least
           d == x - a
<1>1. a \in Int /\ p \in Nat \ {0} /\ x \in Int /\ d \in 0 .. p - 1 /\ d \in Int
  <2>1. a \in Int /\ p \in Nat \ {0} /\ x \in Int /\ a <= x /\ x < a + p
    BY OfTypeIs DEF IsType
  <2> HIDE DEF a, p
  <2> QED BY <2>1
<1>2. \A y : Fit(t, y) = a + ((y - a) % p)
  BY DEF Fit
<1> HIDE DEF a, p
<1>3. (p * m + d) % p = d
  <2> HIDE DEF d
  <2> QED BY <1>1, RemainderUnique
<1>4. a + d = x
  BY <1>1
<1> HIDE DEF d
<1>5. ASSUME NEW y, y = x + p * m PROVE Fit(t, y) = x
  <2>1. y - a = p * m + d
    BY <1>1, <1>5 DEF d
  <2>2. Fit(t, y) = a + ((y - a) % p)
    BY <1>2
  <2> QED BY <1>3, <1>4, <2>1, <2>2
<1> QED BY <1>5 DEF p

\* count_bits, of two integers.
LEMMA CountBitsIs ==
  ASSUME NEW t, IsType(t), NEW max \in Int, NEW min \in Int
  PROVE  CountBits(t, max, min) \in 0 .. t.bits
         /\ LeastBits((max - min) % 2 ^ t.bits, CountBits(t, max, min))
<1> DEFINE delta == (max - min) % 2 ^ t.bits
           k == CountBits(t, max, min)
           w == t.bits
<1>1. delta \in Nat /\ delta < 2 ^ w /\ w \in Nat
  <2> DEFINE q == 2 ^ t.bits
             d == max - min
  <2>1. q \in Nat \ {0} /\ d \in Int
    BY OfTypeIs
  <2> HIDE DEF q, d
  <2>2. d % q \in 0 .. q - 1
    BY <2>1, DivisionOfIntegers
  <2>3. d % q \in Nat /\ d % q < q
    BY <2>1, <2>2
  <2> QED BY <2>3 DEF d, q, IsType
<1>2. k = CHOOSE n \in 0 .. w : delta < 2 ^ n /\ (n = 0 \/ delta >= 2 ^ (n - 1))
  BY Zenon DEF CountBits
<1> HIDE DEF delta, k, w
<1>3. k \in 0 .. w /\ LeastBits(delta, k)
  BY <1>1, <1>2, BitsAre
<1> QED BY <1>3 DEF delta, k, w

\* Between two integers of a type there is no wrapping around.
LEMMA CountBitsOfRange ==
  ASSUME NEW t, IsType(t), NEW max \in OfType(t), NEW min \in OfType(t), min <= max
  PROVE  /\ CountBits(t, max, min) \in 0 .. t.bits
         /\ LeastBits(max - min, CountBits(t, max, min))
<1> DEFINE q == 2 ^ t.bits
           d == max - min
<1>1. q \in Nat \ {0} /\ max \in Int /\ min \in Int /\ d \in 0 .. q - 1 /\ d \in Int
  <2> DEFINE a == t.least
  <2>1. /\ q \in Nat \ {0} /\ a \in Int /\ max \in Int /\ min \in Int
        /\ a <= max /\ max < a + q /\ a <= min /\ min < a + q
    BY OfTypeIs DEF IsType
  <2> HIDE DEF a, q
  <2> QED BY <2>1
<1>2. d % q = d
  <2> HIDE DEF q, d
  <2>1. (q * 0 + d) % q = d
    BY <1>1, RemainderUnique
  <2>2. q * 0 + d = d
    BY <1>1
  <2> QED BY <2>1, <2>2
<1>3. (max - min) % 2 ^ t.bits = max - min
  BY <1>2
<1> QED BY <1>1, <1>3, CountBitsIs

-----------------------------------------------------------------------------
(* Positions in order *)

\* t are the numbers of P in order.
Ordered(t, P) == t \in Seq(P) /\ Increasing(t) /\ Range(t) = P

\* What that says of each of them.
LEMMA OrderedIs ==
  ASSUME NEW P \in SUBSET Int, NEW t, Ordered(t, P)
  PROVE  /\ Len(t) \in Nat /\ DOMAIN t = 1 .. Len(t)
         /\ \A k \in 1 .. Len(t) : t[k] \in P
         /\ \A p \in P : \E k \in 1 .. Len(t) : t[k] = p
         /\ \A j, k \in 1 .. Len(t) : j < k => t[j] < t[k]
<1>1. t \in Seq(P)
  BY DEF Ordered
<1>2. Len(t) \in Nat /\ DOMAIN t = 1 .. Len(t) /\ \A k \in 1 .. Len(t) : t[k] \in P
  BY <1>1
<1>3. Range(t) = {t[k] : k \in 1 .. Len(t)}
  BY <1>1, RangeFinite
<1>4. Range(t) = P /\ Increasing(t)
  BY DEF Ordered
<1>5. \A p \in P : \E k \in 1 .. Len(t) : t[k] = p
  BY <1>3, <1>4
<1>6. \A j, k \in 1 .. Len(t) : j < k => t[j] < t[k]
  BY <1>4 DEF Increasing
<1> QED BY <1>2, <1>5, <1>6

\* InOrder puts positions in order.
LEMMA InOrderIs ==
  ASSUME NEW n \in Nat, NEW s, DOMAIN s = 1 .. n, NEW P \in SUBSET (1 .. n)
  PROVE  Ordered(InOrder(s, P), P) /\ Len(InOrder(s, P)) <= n
<1> DEFINE e == [i \in 1 .. n |-> i]
<1>1. InOrder(s, P) = Kept(e, P)
  BY DEF InOrder
<1>2. e \in Seq(1 .. n) /\ Len(e) = n /\ DOMAIN e = 1 .. n /\ \A i \in 1 .. n : e[i] = i
  OBVIOUS
<1> HIDE DEF e
<1>3. Increasing(e)
  BY <1>2 DEF Increasing
<1>4. Range(e) = 1 .. n
  <2>1. Range(e) = {e[i] : i \in 1 .. n}
    BY <1>2, RangeFinite
  <2>2. \A x : x \in {e[i] : i \in 1 .. n} <=> x \in 1 .. n
    BY <1>2
  <2> QED BY <2>1, <2>2
<1>5. (1 .. n) \in SUBSET Int /\ (1 .. n) \cap P = P
  <2>1. \A x \in P : x \in 1 .. n
    OBVIOUS
  <2>2. \A x \in 1 .. n : x \in Int
    OBVIOUS
  <2> DEFINE I == 1 .. n
  <2> HIDE DEF I
  <2>3. \A x \in P : x \in I
    BY <2>1 DEF I
  <2>4. I \cap P = P
    BY <2>3
  <2> QED BY <2>2, <2>4 DEF I
<1>6. Kept(e, P) \in Seq((1 .. n) \cap P) /\ Len(Kept(e, P)) <= Len(e)
  BY <1>2, KeptFacts
<1>7. Increasing(Kept(e, P))
  BY <1>2, <1>3, <1>5, KeptIncreases
<1>8. Range(Kept(e, P)) = Range(e) \cap P
  BY <1>2, KeptRange
<1> QED BY <1>1, <1>2, <1>4, <1>5, <1>6, <1>7, <1>8 DEF Ordered

\* There are as many as there are positions.
LEMMA OrderedCount ==
  ASSUME NEW P \in SUBSET Int, NEW t, Ordered(t, P)
  PROVE  IsFiniteSet(P) /\ Cardinality(P) = Len(t)
<1>1. t \in Seq(P) /\ Increasing(t) /\ Range(t) = P
  BY DEF Ordered
<1>2. t \in Seq(Int)
  <2>1. Len(t) \in Nat /\ DOMAIN t = 1 .. Len(t) /\ t = [k \in 1 .. Len(t) |-> t[k]]
        /\ \A k \in 1 .. Len(t) : t[k] \in P
    BY <1>1
  <2> QED BY <2>1
<1> QED BY <1>1, <1>2, IncreasingCount

\* Nothing comes between two neighbours.
LEMMA OrderedGap ==
  ASSUME NEW P \in SUBSET Int, NEW t, Ordered(t, P), NEW k \in 1 .. Len(t), NEW p \in P, t[k] < p
  PROVE  k + 1 \in 1 .. Len(t) /\ t[k + 1] <= p
<1>1. PICK j \in 1 .. Len(t) : t[j] = p
  BY OrderedIs
<1>2. Len(t) \in Nat /\ t[k] \in Int /\ p \in Int
  BY OrderedIs
<1>3. \A a, b \in 1 .. Len(t) : a < b => t[a] < t[b]
  BY OrderedIs
<1>4. k < j
  <2> SUFFICES ASSUME j <= k PROVE FALSE
    BY <1>2
  <2>1. CASE j = k
    BY <1>1, <1>2, <2>1
  <2>2. CASE j < k
    BY <1>1, <1>2, <1>3, <2>2
  <2> QED BY <1>2, <2>1, <2>2
<1>5. k + 1 \in 1 .. Len(t) /\ (k + 1 = j \/ k + 1 < j)
  BY <1>2, <1>4
<1>6. t[k + 1] \in Int
  BY <1>5, OrderedIs
<1>7. CASE k + 1 = j
  BY <1>1, <1>2, <1>5, <1>7
<1>8. CASE k + 1 < j
  BY <1>1, <1>2, <1>3, <1>5, <1>6, <1>8
<1> QED BY <1>5, <1>7, <1>8

\* The values at positions in order.
LEMMA ValuesAtIs ==
  ASSUME NEW n \in Nat, NEW A, NEW s \in [1 .. n -> A], NEW P \in SUBSET (1 .. n)
  PROVE  /\ ValuesAt(s, P) \in Seq(A)
         /\ Len(ValuesAt(s, P)) = Len(InOrder(s, P))
         /\ \A k \in 1 .. Len(InOrder(s, P)) : ValuesAt(s, P)[k] = s[InOrder(s, P)[k]]
<1> DEFINE t == InOrder(s, P)
<1>1. Ordered(t, P) /\ P \in SUBSET Int
  BY InOrderIs
<1>2. ValuesAt(s, P) = [k \in DOMAIN t |-> s[t[k]]]
  BY DEF ValuesAt
<1> HIDE DEF t
<1>3. Len(t) \in Nat /\ DOMAIN t = 1 .. Len(t) /\ \A k \in 1 .. Len(t) : t[k] \in P
  BY <1>1, OrderedIs
<1>4. \A k \in 1 .. Len(t) : s[t[k]] \in A
  BY <1>3
<1> QED BY <1>2, <1>3, <1>4 DEF t

-----------------------------------------------------------------------------
(* Exceptions *)

\* x are the values of s at P, and their positions from 0, in order.
KeptApart(s, P, x) ==
  \E t : /\ Ordered(t, P)
         /\ x = [k \in 1 .. Len(t) |-> [pos |-> t[k] - 1, val |-> s[t[k]]]]

\* Apart keeps them.
LEMMA ApartIs ==
  ASSUME NEW n \in Nat, NEW s, DOMAIN s = 1 .. n, NEW P \in SUBSET (1 .. n)
  PROVE  KeptApart(s, P, Apart(s, P))
<1> DEFINE t == InOrder(s, P)
<1>1. Ordered(t, P) /\ P \in SUBSET Int
  BY InOrderIs
<1>2. DOMAIN t = 1 .. Len(t)
  BY <1>1, OrderedIs
<1>3. Apart(s, P) = [k \in DOMAIN t |-> [pos |-> t[k] - 1, val |-> s[t[k]]]]
  BY DEF Apart
<1> QED BY <1>1, <1>2, <1>3 DEF KeptApart

\* They are as many as the positions, which increase.
LEMMA ApartCount ==
  ASSUME NEW s, NEW P \in SUBSET Int, NEW x, KeptApart(s, P, x)
  PROVE  /\ IsFiniteSet(P) /\ Len(x) = Cardinality(P) /\ Len(x) \in Nat
         /\ \A k \in 1 .. Len(x) - 1 : x[k].pos < x[k + 1].pos
<1>1. PICK t : Ordered(t, P) /\ x = [k \in 1 .. Len(t) |-> [pos |-> t[k] - 1, val |-> s[t[k]]]]
  BY DEF KeptApart
<1>2. Len(t) \in Nat /\ \A k \in 1 .. Len(t) : t[k] \in P
  BY <1>1, OrderedIs
<1>3. \A j, k \in 1 .. Len(t) : j < k => t[j] < t[k]
  BY <1>1, OrderedIs
<1>4. Len(x) = Len(t)
  BY <1>1, <1>2
<1>5. IsFiniteSet(P) /\ Cardinality(P) = Len(t)
  BY <1>1, OrderedCount
<1>6. ASSUME NEW k \in 1 .. Len(x) - 1 PROVE x[k].pos < x[k + 1].pos
  <2>1. k \in 1 .. Len(t) /\ k + 1 \in 1 .. Len(t) /\ k < k + 1
    BY <1>2, <1>4
  <2>2. x[k].pos = t[k] - 1 /\ x[k + 1].pos = t[k + 1] - 1
    BY <1>1, <2>1
  <2>3. t[k] < t[k + 1] /\ t[k] \in Int /\ t[k + 1] \in Int
    BY <1>2, <1>3, <2>1
  <2> QED BY <2>2, <2>3
<1> QED BY <1>2, <1>4, <1>5, <1>6

\* p are the values of s at P and of u elsewhere.
PutBack(n, s, P, u, p) ==
  /\ DOMAIN p = 1 .. n /\ p = [i \in 1 .. n |-> p[i]]
  /\ \A i \in 1 .. n : p[i] = IF i \in P THEN s[i] ELSE u[i]

\* Patching puts the values back.
LEMMA PatchIs ==
  ASSUME NEW n \in Nat, NEW s, NEW P \in SUBSET (1 .. n), NEW x, KeptApart(s, P, x),
         NEW u, DOMAIN u = 1 .. n
  PROVE  PutBack(n, s, P, u, Patch(u, x))
<1>1. PICK t : Ordered(t, P) /\ x = [k \in 1 .. Len(t) |-> [pos |-> t[k] - 1, val |-> s[t[k]]]]
  BY DEF KeptApart
<1>2. P \in SUBSET Int /\ \A p \in P : p \in Int
  OBVIOUS
<1>3. /\ Len(t) \in Nat /\ \A k \in 1 .. Len(t) : t[k] \in P /\ t[k] \in Int
      /\ \A p \in P : \E k \in 1 .. Len(t) : t[k] = p
  BY <1>1, <1>2, OrderedIs
<1> DEFINE m == Len(t)
           pos == [k \in 1 .. m |-> t[k] - 1]
           vals == [k \in 1 .. m |-> s[t[k]]]
<1>4. /\ pos \in Seq(Int) /\ Len(pos) = m /\ DOMAIN pos = 1 .. m
      /\ (\A k \in 1 .. m : pos[k] = t[k] - 1) /\ (\A k \in 1 .. m : vals[k] = s[t[k]])
  <2>1. m \in Nat /\ \A k \in 1 .. m : t[k] - 1 \in Int
    BY <1>2, <1>3
  <2> HIDE DEF m
  <2>2. pos \in [1 .. m -> Int]
    BY <2>1
  <2>3. (\A k \in 1 .. m : pos[k] = t[k] - 1) /\ \A k \in 1 .. m : vals[k] = s[t[k]]
    OBVIOUS
  <2> HIDE DEF pos, vals
  <2>4. pos \in Seq(Int) /\ Len(pos) = m /\ DOMAIN pos = 1 .. m
    BY <2>1, <2>2
  <2> QED BY <2>3, <2>4
<1>5. Patch(u, x) = PatchedAt(u, pos, vals)
  <2>1. [k \in DOMAIN x |-> x[k].pos] = pos /\ Vals(x) = vals
    BY <1>1 DEF Vals
  <2> HIDE DEF pos, vals
  <2> QED BY <2>1, Zenon DEF Patch
<1> HIDE DEF pos, vals, m
<1>6. DOMAIN PatchedAt(u, pos, vals) = 1 .. n
      /\ PatchedAt(u, pos, vals) = [i \in 1 .. n |-> PatchedAt(u, pos, vals)[i]]
  BY DEF PatchedAt
<1>7. ASSUME NEW i \in 1 .. n PROVE PatchedAt(u, pos, vals)[i] = IF i \in P THEN s[i] ELSE u[i]
  <2>1. \/ i - 1 \notin Range(pos) /\ PatchedAt(u, pos, vals)[i] = u[i]
        \/ \E k \in 1 .. Len(pos) : pos[k] = i - 1 /\ PatchedAt(u, pos, vals)[i] = vals[k]
    BY <1>4, PatchedAtIs
  <2>2. CASE i - 1 \notin Range(pos) /\ PatchedAt(u, pos, vals)[i] = u[i]
    <3>1. i \notin P
      <4> SUFFICES ASSUME i \in P PROVE FALSE
        OBVIOUS
      <4>1. PICK k \in 1 .. m : t[k] = i
        BY <1>3 DEF m
      <4>2. Range(pos) = {pos[j] : j \in 1 .. m}
        BY <1>4, RangeFinite
      <4>3. pos[k] = i - 1
        BY <1>4, <4>1
      <4> QED BY <2>2, <4>1, <4>2, <4>3
    <3> QED BY <2>2, <3>1
  <2>3. CASE \E k \in 1 .. Len(pos) : pos[k] = i - 1 /\ PatchedAt(u, pos, vals)[i] = vals[k]
    <3>1. PICK k \in 1 .. m : pos[k] = i - 1 /\ PatchedAt(u, pos, vals)[i] = vals[k]
      BY <1>4, <2>3
    <3>2. t[k] \in P /\ t[k] \in Int
      BY <1>3, <3>1 DEF m
    <3>3. pos[k] = t[k] - 1
      BY <1>4
    <3>4. t[k] = i
      BY <3>1, <3>2, <3>3
    <3> QED BY <1>4, <3>1, <3>2, <3>4
  <2> QED BY <2>1, <2>2, <2>3
<1>8. PutBack(n, s, P, u, PatchedAt(u, pos, vals))
  BY <1>6, <1>7 DEF PutBack
<1> QED BY <1>5, <1>8

-----------------------------------------------------------------------------
(* Packing *)

\* The bits that are kept say enough: either all of the type, or those that
\* the difference to the base has.
LEMMA Packed ==
  ASSUME NEW t, IsType(t), NEW x \in OfType(t), NEW base \in Int, NEW bw \in Nat,
         bw < t.bits => (x - base) % 2 ^ t.bits < 2 ^ bw
  PROVE  Fit(t, ((x - base) % 2 ^ bw) + base) = x
<1> DEFINE p == 2 ^ t.bits
           w == 2 ^ bw
           d == x - base
<1>1. p \in Nat \ {0} /\ w \in Nat \ {0} /\ x \in Int /\ d \in Int /\ t.bits \in Nat
  BY OfTypeIs, PowerPositive DEF IsType
<1>2. bw < t.bits => d % p < w
  OBVIOUS
<1>3. \A m \in Int : Fit(t, x + p * m) = x
  BY FitSame
<1>4. bw >= t.bits => \E k \in Nat : w = p * k
  BY <1>1, PowersDivide
<1>5. bw < t.bits => \E k \in Nat : p = w * k
  <2> SUFFICES ASSUME bw < t.bits PROVE \E k \in Nat : p = w * k
    OBVIOUS
  <2>1. bw <= t.bits
    BY <1>1
  <2> QED BY <1>1, <2>1, PowersDivide
<1>6. x = d + base
  BY <1>1
<1> HIDE DEF p, w, d
<1>7. \E m \in Int : (d % w) + base = x + p * m
  <2>1. CASE bw >= t.bits
    <3>1. PICK k \in Nat : w = p * k
      BY <1>4, <2>1
    <3> DEFINE q == d \div w
               r == d % w
    <3>2. d = w * q + r /\ q \in Int /\ r \in Int
      BY <1>1, DivisionOfIntegers
    <3> HIDE DEF q, r
    <3>3. r + base = x + p * (0 - k * q) /\ 0 - k * q \in Int
      <4>1. w * q = p * (k * q)
        BY <1>1, <3>1, <3>2
      <4>2. k * q \in Int /\ p * (0 - k * q) = 0 - p * (k * q) /\ p * (k * q) \in Int
        BY <1>1, <3>2
      <4> DEFINE z == p * (k * q)
                 y == p * (0 - k * q)
      <4>3. z \in Int /\ y = 0 - z /\ d = z + r
        BY <3>2, <4>1, <4>2
      <4> HIDE DEF z, y
      <4>4. r + base = x + y
        BY <1>6, <3>2, <4>3
      <4> QED BY <4>2, <4>4 DEF y
    <3> QED BY <3>3 DEF r
  <2>2. CASE bw < t.bits
    <3>1. PICK k \in Nat : p = w * k
      BY <1>5, <2>2
    <3> DEFINE q == d \div p
               r == d % p
    <3>2. d = p * q + r /\ q \in Int /\ r \in Int /\ r \in 0 .. p - 1
      BY <1>1, DivisionOfIntegers
    <3>3. r < w
      BY <1>2, <2>2
    <3> HIDE DEF q, r
    <3>4. p * q = w * (k * q) /\ k * q \in Int
      BY <1>1, <3>1, <3>2
    <3>5. r \in 0 .. w - 1
      BY <1>1, <3>2, <3>3
    <3>6. (w * (k * q) + r) % w = r
      BY <1>1, <3>4, <3>5, RemainderUnique
    <3>7. d % w = r
      BY <3>2, <3>4, <3>6
    <3>8. r + base = x + p * (0 - q) /\ 0 - q \in Int
      <4> DEFINE z == p * q
                 y == p * (0 - q)
      <4>1. z \in Int /\ y = 0 - z /\ d = z + r
        BY <1>1, <3>2
      <4> HIDE DEF z, y
      <4>2. r + base = x + y
        BY <1>6, <3>2, <4>1
      <4> QED BY <3>2, <4>2 DEF y
    <3> QED BY <3>7, <3>8
  <2> QED BY <1>1, <2>1, <2>2
<1>8. Fit(t, (d % w) + base) = x
  BY <1>3, <1>7
<1> QED BY <1>8 DEF d, w

\* A difference that is small is had from few bits.
LEMMA SmallDifference ==
  ASSUME NEW t, IsType(t), NEW x \in OfType(t), NEW base \in OfType(t), base <= x,
         NEW w \in Nat, x - base < w
  PROVE  (x - base) % 2 ^ t.bits < w
<1> DEFINE p == 2 ^ t.bits
           a == t.least
           d == x - base
<1>1. /\ p \in Nat \ {0} /\ a \in Int /\ x \in Int /\ base \in Int
      /\ a <= base /\ x < a + p
  BY OfTypeIs DEF IsType
<1>2. d \in 0 .. p - 1 /\ d \in Int /\ d < w
  <2> HIDE DEF p, a
  <2> QED BY <1>1
<1> HIDE DEF p, d
<1>3. (p * 0 + d) % p = d
  <2>1. p \in Nat \ {0} /\ d \in 0 .. p - 1 /\ 0 \in Int
    BY <1>1, <1>2
  <2> QED BY <2>1, RemainderUnique
<1>4. p * 0 + d = d
  BY <1>1, <1>2
<1>5. d % p < w
  BY <1>2, <1>3, <1>4
<1> QED BY <1>5 DEF d, p

\* What is unpacked, for numbers of which the bits say enough.
LEMMA UnfforIs ==
  ASSUME NEW t, IsType(t), NEW n \in Nat, NEW s \in [1 .. n -> Int], NEW base \in Int, NEW bw \in Nat
  PROVE  /\ Unffor(t, Ffor(s, base, bw)) \in [1 .. n -> OfType(t)]
         /\ \A i \in 1 .. n :
              s[i] \in OfType(t) /\ (bw < t.bits => (s[i] - base) % 2 ^ t.bits < 2 ^ bw) =>
                Unffor(t, Ffor(s, base, bw))[i] = s[i]
<1> DEFINE w == 2 ^ bw
           u == Unffor(t, Ffor(s, base, bw))
           packed == [i \in 1 .. n |-> (s[i] - base) % w]
<1>1. u = [i \in 1 .. n |-> Fit(t, packed[i] + base)]
  BY DEF Unffor, Ffor
<1>2. w \in Nat \ {0}
  BY PowerPositive
<1> HIDE DEF w
<1>3. \A i \in 1 .. n : packed[i] = (s[i] - base) % w
  OBVIOUS
<1>4. \A i \in 1 .. n : (s[i] - base) % w \in Int
  <2> TAKE i \in 1 .. n
  <2> DEFINE d == s[i] - base
  <2>1. d \in Int
    OBVIOUS
  <2> HIDE DEF d
  <2>2. d % w \in Int
    BY <1>2, <2>1, DivisionOfIntegers
  <2> QED BY <2>2 DEF d
<1> HIDE DEF packed
<1>5. \A i \in 1 .. n : packed[i] + base \in Int
  BY <1>3, <1>4
<1>6. \A i \in 1 .. n : Fit(t, packed[i] + base) \in OfType(t)
  BY <1>5, FitIs
<1>7. u \in [1 .. n -> OfType(t)]
  <2> HIDE DEF u
  <2> QED BY <1>1, <1>6
<1>8. ASSUME NEW i \in 1 .. n, s[i] \in OfType(t), bw < t.bits => (s[i] - base) % 2 ^ t.bits < 2 ^ bw
      PROVE  u[i] = s[i]
  <2>1. Fit(t, ((s[i] - base) % 2 ^ bw) + base) = s[i]
    BY <1>8, Packed
  <2>2. Fit(t, packed[i] + base) = s[i]
    BY <1>3, <2>1 DEF w
  <2> HIDE DEF u
  <2> QED BY <1>1, <2>2
<1> HIDE DEF u
<1>9. \A i \in 1 .. n :
        s[i] \in OfType(t) /\ (bw < t.bits => (s[i] - base) % 2 ^ t.bits < 2 ^ bw) => u[i] = s[i]
  BY <1>8
<1> QED BY <1>7, <1>9 DEF u

-----------------------------------------------------------------------------
(* Analysis without patches *)

\* u are the integers of s, but for null cells unless all of them count.
Recovered(n, t, s, isNull, is_rsum, u) ==
  /\ u \in [1 .. n -> OfType(t)]
  /\ \A i \in 1 .. n : is_rsum \/ ~ isNull[i] => u[i] = s[i]
  /\ \A i \in 1 .. n : u[i] \in Range(s) \cup {0}

\* What is packed without patches is recovered.
LEMMA AnalyzeRecovers ==
  ASSUME NEW t, IsType(t), 0 \in OfType(t), NEW n \in Nat, NEW s \in [1 .. n -> OfType(t)],
         NEW isNull \in [1 .. n -> BOOLEAN], NEW is_rsum \in BOOLEAN
  PROVE  Recovered(n, t, s, isNull, is_rsum, Unffor(t, FforOf(Analyze(t, s, isNull, is_rsum))))
<1> DEFINE a == Analyze(t, s, isNull, is_rsum)
           live == Live(s, isNull, is_rsum)
           J == {j \in 1 .. n : is_rsum \/ ~ isNull[j]}
           min == IF live = {} THEN 0 ELSE Min(live)
           bw == IF live = {} THEN 0 ELSE CountBits(t, Max(live), min)
           data == [i \in 1 .. n |-> IF isNull[i] /\ ~ is_rsum THEN min ELSE s[i]]
           u == Unffor(t, FforOf(a))
<1>1. live = {s[i] : i \in J}
  BY DEF Live
<1>2. a = [bw |-> bw, base |-> min, data |-> data]
  BY DEF Analyze
<1>3. u = Unffor(t, Ffor(data, min, bw))
  <2> HIDE DEF a, bw, min, data
  <2> QED BY <1>2 DEF FforOf
<1>4. \A x \in OfType(t) : x \in Int
  BY OfTypeIs
<1>5. \A i \in 1 .. n : s[i] \in OfType(t) /\ s[i] \in Range(s) /\ s[i] \in Int
  BY <1>4 DEF Range
<1>6. IsFiniteSet(live) /\ live \subseteq Int /\ live \subseteq OfType(t) /\ live \subseteq Range(s)
  <2>1. s \in Seq(OfType(t))
    OBVIOUS
  <2>2. IsFiniteSet(Range(s))
    BY <2>1, RangeFinite
  <2>3. live \subseteq Int /\ live \subseteq OfType(t) /\ live \subseteq Range(s)
    <3> HIDE DEF live
    <3> QED BY <1>1, <1>5
  <2> QED BY <2>2, <2>3, FS_Subset
<1> HIDE DEF live
<1>7. min \in OfType(t) /\ min \in Range(s) \cup {0} /\ bw \in 0 .. t.bits /\ bw \in Nat
      /\ (min < min + 1) /\ \A i \in J : min <= s[i] /\ s[i] - min < 2 ^ bw
  <2>1. CASE live = {}
    <3>1. J = {}
      BY <1>1, <2>1
    <3>2. min = 0 /\ bw = 0 /\ t.bits \in Nat
      BY <2>1 DEF IsType
    <3> HIDE DEF min, bw, J
    <3> QED BY <3>1, <3>2
  <2>2. CASE live # {}
    <3>1. Min(live) \in live /\ \A y \in live : Min(live) <= y
      BY <1>6, <2>2, MinIs
    <3>2. Max(live) \in live /\ \A y \in live : y <= Max(live)
      BY <1>6, <2>2, MaxIs
    <3> DEFINE lo == Min(live)
               hi == Max(live)
    <3>3. min = lo /\ bw = CountBits(t, hi, lo)
      BY <2>2
    <3> HIDE DEF lo, hi, min, bw
    <3>4. lo \in OfType(t) /\ hi \in OfType(t) /\ lo <= hi /\ lo \in Int /\ hi \in Int
      BY <1>6, <3>1, <3>2 DEF lo, hi
    <3>5. bw \in 0 .. t.bits /\ LeastBits(hi - lo, bw)
      BY <3>3, <3>4, CountBitsOfRange
    <3>6. hi - lo < 2 ^ bw /\ bw \in Nat
      BY <3>5 DEF LeastBits, IsType
    <3>7. 2 ^ bw \in Nat
      BY <3>6, PowerPositive
    <3> DEFINE w == 2 ^ bw
    <3> HIDE DEF w
    <3>8. hi - lo < w /\ w \in Nat
      BY <3>6, <3>7 DEF w
    <3>9. ASSUME NEW i \in J PROVE lo <= s[i] /\ s[i] - lo < w
      <4>1. s[i] \in live
        BY <1>1
      <4>2. lo <= s[i] /\ s[i] <= hi /\ s[i] \in Int
        BY <1>6, <3>1, <3>2, <4>1 DEF lo, hi
      <4> QED BY <3>4, <3>8, <4>2
    <3>10. lo \in Range(s) /\ lo < lo + 1
      BY <1>6, <3>1, <3>4 DEF lo
    <3> QED BY <3>3, <3>4, <3>5, <3>6, <3>9, <3>10 DEF w
  <2> QED BY <2>1, <2>2
<1> HIDE DEF bw, min
<1>8. \A i \in 1 .. n : data[i] = IF isNull[i] /\ ~ is_rsum THEN min ELSE s[i]
  OBVIOUS
<1>9. \A i \in 1 .. n : data[i] \in OfType(t) /\ data[i] \in Int
  BY <1>4, <1>5, <1>7, <1>8
<1>10. data \in [1 .. n -> Int]
  BY <1>9
<1> HIDE DEF data
<1>11. ASSUME NEW i \in 1 .. n PROVE min <= data[i] /\ data[i] - min < 2 ^ bw
  <2>1. CASE isNull[i] /\ ~ is_rsum
    <3>1. data[i] = min /\ min \in Int
      BY <1>4, <1>7, <1>8, <2>1
    <3>2. 2 ^ bw \in Nat \ {0}
      BY <1>7, PowerPositive
    <3> QED BY <3>1, <3>2
  <2>2. CASE ~ (isNull[i] /\ ~ is_rsum)
    <3>1. i \in J /\ data[i] = s[i]
      BY <1>8, <2>2
    <3> HIDE DEF J
    <3> QED BY <1>7, <3>1
  <2> QED BY <2>1, <2>2
<1>12. ASSUME NEW i \in 1 .. n PROVE (data[i] - min) % 2 ^ t.bits < 2 ^ bw
  <2>1. 2 ^ bw \in Nat /\ data[i] \in OfType(t) /\ min \in OfType(t)
    BY <1>7, <1>9, PowerPositive
  <2>2. min <= data[i] /\ data[i] - min < 2 ^ bw
    BY <1>11
  <2> DEFINE w == 2 ^ bw
             x == data[i]
  <2> HIDE DEF w, x
  <2>3. (x - min) % 2 ^ t.bits < w
    BY <2>1, <2>2, SmallDifference DEF w, x
  <2> QED BY <2>3 DEF w, x
<1>13. min \in Int
  BY <1>4, <1>7
<1>14. u \in [1 .. n -> OfType(t)] /\ \A i \in 1 .. n : u[i] = data[i]
  <2> HIDE DEF u
  <2>1. Unffor(t, Ffor(data, min, bw)) \in [1 .. n -> OfType(t)]
    BY <1>7, <1>10, <1>13, UnfforIs
  <2>2. \A i \in 1 .. n :
          data[i] \in OfType(t) /\ (bw < t.bits => (data[i] - min) % 2 ^ t.bits < 2 ^ bw) =>
            Unffor(t, Ffor(data, min, bw))[i] = data[i]
    BY <1>7, <1>10, <1>13, UnfforIs
  <2>3. \A i \in 1 .. n : Unffor(t, Ffor(data, min, bw))[i] = data[i]
    BY <1>9, <1>12, <2>2, Zenon
  <2> QED BY <1>3, <2>1, <2>3
<1> HIDE DEF u
<1>15. Recovered(n, t, s, isNull, is_rsum, u)
  BY <1>5, <1>7, <1>8, <1>14 DEF Recovered
<1> QED BY <1>15 DEF u, a

-----------------------------------------------------------------------------
(* Analysis with patches *)

\* One of the elements has the least value.
LEMMA LeastOf ==
  ASSUME NEW S, IsFiniteSet(S), S # {}, NEW f \in [S -> Int]
  PROVE  \E x \in S : \A y \in S : f[x] <= f[y]
<1> DEFINE T == {f[x] : x \in S}
<1>1. IsFiniteSet(T)
  BY ImageFinite
<1>2. T \in SUBSET Int /\ T # {}
  OBVIOUS
<1>3. Min(T) \in T /\ \A y \in T : Min(T) <= y
  <2> HIDE DEF T
  <2> QED BY <1>1, <1>2, MinIs
<1>4. PICK x \in S : Min(T) = f[x]
  BY <1>3
<1>5. \A y \in S : f[y] \in T
  OBVIOUS
<1> QED BY <1>3, <1>4, <1>5

\* Where s is out of a range.
OutsideOf(n, s, lo, hi) == {i \in 1 .. n : s[i] < lo \/ s[i] > hi}

\* The values out of a range can be counted.
LEMMA OutOfIs ==
  ASSUME NEW n \in Nat, NEW s, DOMAIN s = 1 .. n, NEW lo, NEW hi
  PROVE  /\ IsFiniteSet(OutsideOf(n, s, lo, hi))
         /\ OutOf(s, lo, hi) = Cardinality(OutsideOf(n, s, lo, hi))
         /\ OutOf(s, lo, hi) \in Nat
<1> DEFINE out1 == {i \in 1 .. n : s[i] < lo \/ s[i] > hi}
<1>1. IsFiniteSet(1 .. n) /\ out1 \in SUBSET (1 .. n)
  BY FS_Interval
<1> HIDE DEF out1
<1>2. IsFiniteSet(out1)
  BY <1>1, FS_Subset
<1>3. Cardinality(out1) \in Nat
  BY <1>2, FS_CardinalityType
<1> QED BY <1>2, <1>3 DEF out1, OutOf, OutsideOf

\* The size of an option is a number, and more bits or exceptions make it greater.
LEMMA OptionSizeIs ==
  ASSUME NEW t, IsType(t)
  PROVE  /\ \A bw, n \in Nat : OptionSize(t, bw, n) \in Int
         /\ \A bw, n, bw2, n2 \in Nat : bw <= bw2 /\ n <= n2 =>
              OptionSize(t, bw, n) <= OptionSize(t, bw2, n2)
<1> DEFINE e == t.bits + PosBits
<1>1. e \in Nat /\ VecSz \in Nat
  BY SizesAssumption DEF IsType
<1>2. \A bw, n : OptionSize(t, bw, n) = VecSz * bw + n * e
  BY DEF OptionSize
<1> HIDE DEF e
<1>3. ASSUME NEW bw \in Nat, NEW n \in Nat PROVE VecSz * bw \in Nat /\ n * e \in Nat
  BY <1>1
<1>4. ASSUME NEW bw \in Nat, NEW n \in Nat, NEW bw2 \in Nat, NEW n2 \in Nat, bw <= bw2, n <= n2
      PROVE  VecSz * bw <= VecSz * bw2 /\ n * e <= n2 * e
  <2>1. PICK j \in Nat : bw2 = bw + j
    <3>1. bw2 - bw \in Nat /\ bw2 = bw + (bw2 - bw)
      BY <1>4
    <3> QED BY <3>1
  <2>2. PICK k \in Nat : n2 = n + k
    <3>1. n2 - n \in Nat /\ n2 = n + (n2 - n)
      BY <1>4
    <3> QED BY <3>1
  <2>3. VecSz * bw2 = VecSz * bw + VecSz * j /\ VecSz * bw \in Nat /\ VecSz * j \in Nat
    BY <1>1, <2>1
  <2>4. n2 * e = n * e + k * e /\ n * e \in Nat /\ k * e \in Nat
    BY <1>1, <2>2
  <2> DEFINE a == VecSz * bw
             b == VecSz * j
             c == n * e
             d == k * e
             a2 == VecSz * bw2
             c2 == n2 * e
  <2>5. a2 = a + b /\ a \in Nat /\ b \in Nat /\ c2 = c + d /\ c \in Nat /\ d \in Nat
    BY <2>3, <2>4
  <2> HIDE DEF a, b, c, d, a2, c2
  <2>6. a <= a2 /\ c <= c2
    BY <2>5
  <2> QED BY <2>6 DEF a, a2, c, c2
<1>5. ASSUME NEW bw \in Nat, NEW n \in Nat PROVE OptionSize(t, bw, n) \in Int
  <2> DEFINE a == VecSz * bw
             c == n * e
  <2>1. OptionSize(t, bw, n) = a + c /\ a \in Nat /\ c \in Nat
    BY <1>2, <1>3
  <2> HIDE DEF a, c
  <2> QED BY <2>1
<1>6. ASSUME NEW bw \in Nat, NEW n \in Nat, NEW bw2 \in Nat, NEW n2 \in Nat, bw <= bw2, n <= n2
      PROVE  OptionSize(t, bw, n) <= OptionSize(t, bw2, n2)
  <2> DEFINE a == VecSz * bw
             c == n * e
             a2 == VecSz * bw2
             c2 == n2 * e
  <2>1. OptionSize(t, bw, n) = a + c /\ OptionSize(t, bw2, n2) = a2 + c2
    BY <1>2
  <2>2. a \in Nat /\ c \in Nat /\ a2 \in Nat /\ c2 \in Nat
    BY <1>3
  <2>3. a <= a2 /\ c <= c2
    BY <1>4, <1>6
  <2> HIDE DEF a, c, a2, c2
  <2> QED BY <2>1, <2>2, <2>3
<1> QED BY <1>5, <1>6

\* What find_best_option counts of an option.
OptionBits(t, o)    == CountBits(t, o[2], o[1])
OptionOut(s, o)     == OutOf(s, o[1], o[2])
OptionCost(t, s, o) == OptionSize(t, OptionBits(t, o), OptionOut(s, o))

\* The options it can take.
Able(t, s) ==
  {o \in Options(s) : /\ WithinLimit(OptionOut(s, o))
                      /\ OptionCost(t, s, o) < OptionSize(t, MaxWidth, 0)}

\* best is one of them, and as small as any.
BestOf(t, s, best) ==
  best \in Able(t, s) /\ \A p \in Able(t, s) : OptionCost(t, s, best) <= OptionCost(t, s, p)

\* An option.
LEMMA OptionIs ==
  ASSUME NEW t, IsType(t), NEW n \in Nat, NEW s \in [1 .. n -> OfType(t)], NEW o \in Options(s)
  PROVE  /\ o[1] \in OfType(t) /\ o[2] \in OfType(t) /\ o[1] <= o[2] /\ o[1] \in Int /\ o[2] \in Int
         /\ o[1] \in Range(s) /\ o[2] \in Range(s) /\ o = <<o[1], o[2]>>
         /\ OptionBits(t, o) \in Nat /\ OptionBits(t, o) <= t.bits
         /\ LeastBits(o[2] - o[1], OptionBits(t, o))
         /\ OptionOut(s, o) \in Nat /\ OptionCost(t, s, o) \in Int
<1>1. Range(s) \subseteq OfType(t)
  BY DEF Range
<1>2. /\ o[1] \in OfType(t) /\ o[2] \in OfType(t) /\ o[1] <= o[2]
      /\ o[1] \in Range(s) /\ o[2] \in Range(s) /\ o = <<o[1], o[2]>>
  BY <1>1 DEF Options
<1>3. o[1] \in Int /\ o[2] \in Int
  BY <1>2, OfTypeIs
<1>4. OptionBits(t, o) \in 0 .. t.bits /\ LeastBits(o[2] - o[1], OptionBits(t, o))
  BY <1>2, CountBitsOfRange DEF OptionBits
<1>5. OptionBits(t, o) \in Nat /\ OptionBits(t, o) <= t.bits
  BY <1>4 DEF IsType
<1>6. OptionOut(s, o) \in Nat
  BY OutOfIs DEF OptionOut
<1>7. OptionCost(t, s, o) \in Int
  BY <1>5, <1>6, OptionSizeIs DEF OptionCost
<1> QED BY <1>2, <1>3, <1>4, <1>5, <1>6, <1>7

\* find_best_option finds one that is, unless there is none.
LEMMA BestOptionIs ==
  ASSUME NEW t, IsType(t), NEW n \in Nat, NEW s \in [1 .. n -> OfType(t)]
  PROVE  \/ Able(t, s) = {} /\ BestOption(t, s) = [bw |-> MaxWidth, base |-> 0]
         \/ \E best : /\ BestOf(t, s, best)
                      /\ BestOption(t, s) = [bw |-> OptionBits(t, best), base |-> best[1]]
<1> DEFINE able == Able(t, s)
           First(o, p) == o[1] < p[1] \/ (o[1] = p[1] /\ o[2] <= p[2])
           Good(o) == o \in able /\ \A p \in able :
                        \/ OptionCost(t, s, o) < OptionCost(t, s, p)
                        \/ OptionCost(t, s, o) = OptionCost(t, s, p) /\ First(o, p)
           best == CHOOSE o : Good(o)
<1>1. BestOption(t, s) = IF able = {} THEN [bw |-> MaxWidth, base |-> 0]
                         ELSE [bw |-> OptionBits(t, best), base |-> best[1]]
  BY Zenon DEF BestOption, Able, OptionCost, OptionBits, OptionOut
<1>2. ASSUME able # {} PROVE \E o : Good(o)
  <2>1. IsFiniteSet(able)
    <3>1. s \in Seq(OfType(t))
      OBVIOUS
    <3>2. IsFiniteSet(Range(s))
      BY <3>1, RangeFinite
    <3>3. IsFiniteSet(Range(s) \X Range(s))
      BY <3>2, FS_Product
    <3>4. able \subseteq Range(s) \X Range(s)
      BY DEF Able, Options
    <3> QED BY <3>3, <3>4, FS_Subset
  <2>2. \A o \in able : OptionCost(t, s, o) \in Int /\ o[1] \in Int /\ o[2] \in Int
    <3>1. \A o \in able : o \in Options(s)
      BY DEF Able
    <3> QED BY <3>1, OptionIs
  <2> HIDE DEF able
  <2> DEFINE cost == [o \in able |-> OptionCost(t, s, o)]
  <2>3. PICK a \in able : \A p \in able : cost[a] <= cost[p]
    <3>1. cost \in [able -> Int]
      BY <2>2
    <3> HIDE DEF cost
    <3> QED BY <1>2, <2>1, <3>1, LeastOf
  <2> DEFINE A == {o \in able : OptionCost(t, s, o) = OptionCost(t, s, a)}
             low == [o \in A |-> o[1]]
  <2>4. IsFiniteSet(A) /\ A # {} /\ A \subseteq able
    <3>1. A \subseteq able /\ a \in A
      OBVIOUS
    <3> QED BY <2>1, <3>1, FS_Subset
  <2>5. PICK b \in A : \A p \in A : low[b] <= low[p]
    <3>1. low \in [A -> Int]
      BY <2>2
    <3> HIDE DEF low, A
    <3> QED BY <2>4, <3>1, LeastOf
  <2> DEFINE B == {o \in A : o[1] = b[1]}
             high == [o \in B |-> o[2]]
  <2>6. IsFiniteSet(B) /\ B # {}
    <3>1. B \subseteq A /\ b \in B
      OBVIOUS
    <3> HIDE DEF A, B
    <3> QED BY <2>4, <3>1, FS_Subset
  <2>7. PICK c \in B : \A p \in B : high[c] <= high[p]
    <3>1. high \in [B -> Int]
      BY <2>2
    <3> HIDE DEF high, B
    <3> QED BY <2>6, <3>1, LeastOf
  <2>8. c \in able /\ OptionCost(t, s, c) = OptionCost(t, s, a) /\ c[1] = b[1]
    OBVIOUS
  <2>9. ASSUME NEW p \in able
        PROVE  \/ OptionCost(t, s, c) < OptionCost(t, s, p)
               \/ OptionCost(t, s, c) = OptionCost(t, s, p) /\ First(c, p)
    <3>1. OptionCost(t, s, a) <= OptionCost(t, s, p)
      BY <2>3
    <3>2. OptionCost(t, s, a) \in Int /\ OptionCost(t, s, p) \in Int
      BY <2>2
    <3>3. CASE OptionCost(t, s, a) < OptionCost(t, s, p)
      BY <2>8, <3>3
    <3>4. CASE OptionCost(t, s, a) = OptionCost(t, s, p)
      <4>1. p \in A
        BY <3>4
      <4>2. b[1] <= p[1]
        BY <2>5, <4>1
      <4>3. b[1] \in Int /\ p[1] \in Int
        BY <2>2
      <4>4. CASE b[1] < p[1]
        BY <2>8, <3>4, <4>4
      <4>5. CASE b[1] = p[1]
        <5>1. p \in B
          BY <4>1, <4>5
        <5>2. c[2] <= p[2]
          BY <2>7, <5>1
        <5> QED BY <2>8, <3>4, <4>5, <5>2
      <4> QED BY <4>2, <4>3, <4>4, <4>5
    <3> QED BY <3>1, <3>2, <3>3, <3>4
  <2> HIDE DEF First
  <2> QED BY <2>8, <2>9
<1>3. CASE able = {}
  BY <1>1, <1>3
<1>4. CASE able # {}
  <2>1. Good(best)
    <3> HIDE DEF Good
    <3> QED BY <1>2, <1>4, Zenon
  <2> HIDE DEF best
  <2>2. BestOf(t, s, best)
    <3>1. OptionCost(t, s, best) \in Int /\ \A p \in able : OptionCost(t, s, p) \in Int
      <4>1. best \in Options(s) /\ \A p \in able : p \in Options(s)
        BY <2>1 DEF Able
      <4> QED BY <4>1, OptionIs
    <3>2. \A p \in able : OptionCost(t, s, best) <= OptionCost(t, s, p)
      <4> HIDE DEF First, able
      <4> QED BY <2>1, <3>1
    <3> QED BY <2>1, <3>2 DEF BestOf
  <2>3. BestOption(t, s) = [bw |-> OptionBits(t, best), base |-> best[1]]
    BY <1>1, <1>4
  <2> HIDE DEF able
  <2> QED BY <2>2, <2>3
<1> QED BY <1>3, <1>4

\* The exceptions among n integers, null cells or not.
ExceptionsOf(n, t, o, s) == {i \in 1 .. n : IsException(t, o, s[i])}

\* Those of the best option are out of its range.
LEMMA ExceptionsOfBest ==
  ASSUME NEW t, IsType(t), NEW n \in Nat, NEW s \in [1 .. n -> OfType(t)], NEW best \in Options(s),
         NEW o, o = [bw |-> OptionBits(t, best), base |-> best[1]]
  PROVE  /\ IsFiniteSet(ExceptionsOf(n, t, o, s))
         /\ Cardinality(ExceptionsOf(n, t, o, s)) \in Nat
         /\ Cardinality(ExceptionsOf(n, t, o, s)) <= OptionOut(s, best)
<1> DEFINE lo == best[1]
           hi == best[2]
           bw == OptionBits(t, best)
           outer == OutsideOf(n, s, lo, hi)
           E == ExceptionsOf(n, t, o, s)
<1>1. /\ lo \in OfType(t) /\ hi \in OfType(t) /\ lo <= hi /\ lo \in Int /\ hi \in Int
      /\ bw \in Nat /\ LeastBits(hi - lo, bw)
  BY OptionIs
<1>2. IsFiniteSet(outer) /\ OptionOut(s, best) = Cardinality(outer)
  <2>1. DOMAIN s = 1 .. n
    OBVIOUS
  <2> QED BY <2>1, OutOfIs DEF OptionOut
<1>3. o.bw = bw /\ o.base = lo
  OBVIOUS
<1> HIDE DEF bw, lo, hi
<1> DEFINE w == 2 ^ bw
<1>4. w \in Nat /\ hi - lo < w
  BY <1>1, PowerPositive DEF LeastBits
<1> HIDE DEF w
<1>5. ASSUME NEW i \in E PROVE i \in outer
  <2>1. i \in 1 .. n /\ s[i] \in OfType(t) /\ s[i] \in Int
    BY OfTypeIs DEF ExceptionsOf
  <2>2. (s[i] - lo) % 2 ^ t.bits >= w /\ (s[i] - lo) % 2 ^ t.bits \in Int
    <3>1. (s[i] - lo) % 2 ^ t.bits >= 2 ^ bw
      BY <1>3 DEF ExceptionsOf, IsException
    <3> DEFINE p == 2 ^ t.bits
               d == s[i] - lo
    <3>2. p \in Nat \ {0} /\ d \in Int
      BY <1>1, <2>1, OfTypeIs
    <3> HIDE DEF p, d
    <3>3. d % p \in Int
      BY <3>2, DivisionOfIntegers
    <3> QED BY <3>1, <3>3 DEF p, d, w
  <2> SUFFICES ASSUME lo <= s[i], s[i] <= hi PROVE FALSE
    BY <1>1, <2>1 DEF OutsideOf
  <2>3. s[i] - lo < w
    BY <1>1, <1>4, <2>1
  <2> DEFINE x == s[i]
  <2>4. x \in OfType(t) /\ lo <= x /\ x - lo < w /\ w \in Nat
    BY <1>4, <2>1, <2>3
  <2> HIDE DEF x
  <2>5. (x - lo) % 2 ^ t.bits < w
    BY <1>1, <2>4, SmallDifference
  <2> DEFINE r == (x - lo) % 2 ^ t.bits
  <2>6. r < w /\ r >= w /\ r \in Int
    BY <2>2, <2>5 DEF x
  <2> HIDE DEF r
  <2> QED BY <1>4, <2>6
<1>6. IsFiniteSet(E) /\ Cardinality(E) <= Cardinality(outer)
  <2>1. E \in SUBSET outer
    <3> HIDE DEF E, outer
    <3> QED BY <1>5
  <2> HIDE DEF E, outer
  <2> QED BY <1>2, <2>1, FS_Subset
<1>7. Cardinality(E) \in Nat
  <2> HIDE DEF E
  <2> QED BY <1>6, FS_CardinalityType
<1> QED BY <1>2, <1>6, <1>7

\* What is chosen, how many exceptions there are and how much that takes.
LEMMA ChosenIs ==
  ASSUME NEW t, IsType(t), t.bits <= MaxWidth, 0 \in OfType(t),
         NEW n \in Nat, NEW s \in [1 .. n -> OfType(t)], NEW o, o = BestOption(t, s)
  PROVE  /\ o.bw \in Nat /\ o.base \in Range(s) \cup {0} /\ o.base \in OfType(t)
         /\ IsFiniteSet(ExceptionsOf(n, t, o, s))
         /\ Cardinality(ExceptionsOf(n, t, o, s)) \in Nat
         /\ Cardinality(ExceptionsOf(n, t, o, s)) < ExcLimit
         /\ OptionSize(t, o.bw, Cardinality(ExceptionsOf(n, t, o, s))) <= OptionSize(t, MaxWidth, 0)
         /\ \A p \in Able(t, s) :
              OptionSize(t, o.bw, Cardinality(ExceptionsOf(n, t, o, s))) <= OptionCost(t, s, p)
<1> DEFINE E == ExceptionsOf(n, t, o, s)
<1>1. ExcLimit \in Nat \ {0} /\ MaxWidth \in Nat
  BY SizesAssumption
<1>2. CASE Able(t, s) = {} /\ BestOption(t, s) = [bw |-> MaxWidth, base |-> 0]
  <2>1. o.bw = MaxWidth /\ o.base = 0
    BY <1>2
  <2>2. E = {}
    <3>1. ~ (o.bw < t.bits)
      BY <1>1, <2>1 DEF IsType
    <3> QED BY <3>1 DEF ExceptionsOf, IsException
  <2>3. IsFiniteSet(E) /\ Cardinality(E) = 0
    BY <2>2, FS_EmptySet
  <2>4. OptionSize(t, MaxWidth, 0) \in Int
    BY <1>1, OptionSizeIs
  <2> HIDE DEF E
  <2>5. Cardinality(E) \in Nat /\ Cardinality(E) < ExcLimit
        /\ OptionSize(t, o.bw, Cardinality(E)) <= OptionSize(t, MaxWidth, 0)
    BY <1>1, <2>1, <2>3, <2>4
  <2> QED BY <1>1, <1>2, <2>1, <2>3, <2>5 DEF E
<1>3. CASE \E best : BestOf(t, s, best) /\ BestOption(t, s) = [bw |-> OptionBits(t, best), base |-> best[1]]
  <2>1. PICK best : BestOf(t, s, best) /\ BestOption(t, s) = [bw |-> OptionBits(t, best), base |-> best[1]]
    BY <1>3
  <2>2. /\ best \in Options(s) /\ WithinLimit(OptionOut(s, best))
        /\ OptionCost(t, s, best) < OptionSize(t, MaxWidth, 0)
        /\ \A p \in Able(t, s) : OptionCost(t, s, best) <= OptionCost(t, s, p)
    BY <2>1 DEF BestOf, Able
  <2>3. /\ best[1] \in OfType(t) /\ best[1] \in Range(s) /\ OptionBits(t, best) \in Nat
        /\ OptionOut(s, best) \in Nat /\ OptionCost(t, s, best) \in Int
    BY <2>2, OptionIs
  <2>4. o.bw = OptionBits(t, best) /\ o.base = best[1]
    BY <2>1
  <2>5. IsFiniteSet(E) /\ Cardinality(E) \in Nat /\ Cardinality(E) <= OptionOut(s, best)
    BY <2>1, <2>2, ExceptionsOfBest
  <2> HIDE DEF E
  <2>6. Cardinality(E) < ExcLimit
    BY <1>1, <2>2, <2>3, <2>5 DEF WithinLimit
  <2> DEFINE size == OptionSize(t, o.bw, Cardinality(E))
             cost == OptionCost(t, s, best)
             plain == OptionSize(t, MaxWidth, 0)
  <2>7. size <= cost
    <3>1. OptionBits(t, best) <= OptionBits(t, best)
      BY <2>3
    <3> QED BY <2>3, <2>4, <2>5, <3>1, OptionSizeIs DEF OptionCost
  <2>8. size \in Int /\ plain \in Int /\ cost \in Int /\ cost < plain
    <3>1. size \in Int
      BY <2>3, <2>4, <2>5, OptionSizeIs
    <3>2. plain \in Int
      BY <1>1, OptionSizeIs
    <3> QED BY <2>2, <2>3, <3>1, <3>2
  <2>9. \A p \in Able(t, s) : OptionCost(t, s, p) \in Int
    <3>1. \A p \in Able(t, s) : p \in Options(s)
      BY DEF Able
    <3> QED BY <3>1, OptionIs
  <2>10. \A p \in Able(t, s) : cost <= OptionCost(t, s, p)
    BY <2>2
  <2> HIDE DEF size, cost, plain
  <2>11. size <= plain /\ \A p \in Able(t, s) : size <= OptionCost(t, s, p)
    BY <2>7, <2>8, <2>9, <2>10
  <2> QED BY <2>3, <2>4, <2>5, <2>6, <2>11 DEF E, size, plain
<1> QED BY <1>2, <1>3, BestOptionIs, Zenon

\* What is packed with patches is recovered.
LEMMA PatchedRecovers ==
  ASSUME NEW t, IsType(t), t.bits <= MaxWidth, 0 \in OfType(t),
         NEW n \in Nat, NEW s \in [1 .. n -> OfType(t)],
         NEW isNull \in [1 .. n -> BOOLEAN], NEW is_rsum \in BOOLEAN,
         NEW a, a = AnalyzePatched(t, s, isNull, is_rsum)
  PROVE  Recovered(n, t, s, isNull, is_rsum, Patch(Unffor(t, FforOf(a)), a.exceptions))
<1> DEFINE o == BestOption(t, s)
           apart == {i \in 1 .. n : IsException(t, o, s[i]) /\ (is_rsum \/ ~ isNull[i])}
           data == [i \in 1 .. n |-> IF isNull[i] /\ ~ is_rsum THEN o.base ELSE s[i]]
           u == Unffor(t, FforOf(a))
           p == Patch(u, a.exceptions)
<1>1. a = [bw |-> o.bw, base |-> o.base, data |-> data, exceptions |-> Apart(s, apart)]
  BY DEF AnalyzePatched
<1> HIDE DEF o
<1>2. o.bw \in Nat /\ o.base \in Range(s) \cup {0} /\ o.base \in OfType(t)
  BY ChosenIs DEF o
<1> DEFINE bw == o.bw
           base == o.base
<1>3. u = Unffor(t, Ffor(data, base, bw))
  <2> HIDE DEF data, apart
  <2> QED BY <1>1 DEF FforOf
<1>4. KeptApart(s, apart, a.exceptions)
  <2>1. apart \in SUBSET (1 .. n) /\ DOMAIN s = 1 .. n
    OBVIOUS
  <2> HIDE DEF apart
  <2>2. KeptApart(s, apart, Apart(s, apart))
    BY <2>1, ApartIs
  <2> QED BY <1>1, <2>2
<1>5. \A x \in OfType(t) : x \in Int
  BY OfTypeIs
<1>6. \A i \in 1 .. n : s[i] \in OfType(t) /\ s[i] \in Range(s)
  BY DEF Range
<1>7. \A i \in 1 .. n : data[i] = IF isNull[i] /\ ~ is_rsum THEN base ELSE s[i]
  OBVIOUS
<1>8. bw \in Nat /\ base \in Range(s) \cup {0} /\ base \in OfType(t) /\ base \in Int
  BY <1>2, <1>5
<1>9. \A i \in 1 .. n : IsException(t, o, s[i]) <=> bw < t.bits /\ (s[i] - base) % 2 ^ t.bits >= 2 ^ bw
  BY DEF IsException
<1>10. \A i : i \in apart <=> i \in 1 .. n /\ IsException(t, o, s[i]) /\ (is_rsum \/ ~ isNull[i])
  OBVIOUS
<1>11. data \in [1 .. n -> Int]
  <2> HIDE DEF bw, base
  <2> QED BY <1>5, <1>6, <1>7, <1>8
<1>12. apart \in SUBSET (1 .. n) /\ DOMAIN s = 1 .. n
  OBVIOUS
<1> HIDE DEF bw, base, data, apart
<1>13. /\ Unffor(t, Ffor(data, base, bw)) \in [1 .. n -> OfType(t)]
       /\ \A i \in 1 .. n :
            data[i] \in OfType(t) /\ (bw < t.bits => (data[i] - base) % 2 ^ t.bits < 2 ^ bw) =>
              Unffor(t, Ffor(data, base, bw))[i] = data[i]
  BY <1>8, <1>11, UnfforIs
<1> HIDE DEF u
<1>14. u \in [1 .. n -> OfType(t)]
  BY <1>3, <1>13
<1>15. ASSUME NEW i \in 1 .. n, i \notin apart PROVE u[i] = data[i]
  <2> SUFFICES data[i] \in OfType(t) /\ (bw < t.bits => (data[i] - base) % 2 ^ t.bits < 2 ^ bw)
    BY <1>3, <1>13
  <2>1. 2 ^ bw \in Nat \ {0}
    BY <1>8, PowerPositive
  <2>2. CASE isNull[i] /\ ~ is_rsum
    <3>1. data[i] = base
      BY <1>7, <2>2
    <3>2. base <= base /\ base - base < 2 ^ bw
      BY <1>8, <2>1
    <3> DEFINE w == 2 ^ bw
    <3> HIDE DEF w
    <3>3. (base - base) % 2 ^ t.bits < w
      <4>1. w \in Nat /\ base <= base /\ base - base < w
        BY <2>1, <3>2 DEF w
      <4> QED BY <1>8, <4>1, SmallDifference
    <3> QED BY <1>8, <3>1, <3>3 DEF w
  <2>3. CASE ~ (isNull[i] /\ ~ is_rsum)
    <3>1. data[i] = s[i] /\ s[i] \in OfType(t)
      BY <1>6, <1>7, <2>3
    <3>2. ~ (bw < t.bits /\ (s[i] - base) % 2 ^ t.bits >= 2 ^ bw)
      BY <1>9, <1>10, <1>15, <2>3
    <3> DEFINE r == (s[i] - base) % 2 ^ t.bits
               w == 2 ^ bw
    <3>3. r \in Int /\ w \in Int
      <4> DEFINE d == s[i] - base
                 q == 2 ^ t.bits
      <4>1. d \in Int /\ q \in Nat \ {0}
        BY <1>5, <1>6, <1>8, OfTypeIs
      <4> HIDE DEF d, q
      <4>2. d % q \in Int
        BY <4>1, DivisionOfIntegers
      <4> QED BY <2>1, <4>2 DEF d, q
    <3> HIDE DEF r, w
    <3>4. bw < t.bits => r < w
      BY <3>2, <3>3 DEF r, w
    <3> QED BY <3>1, <3>4 DEF r, w
  <2> QED BY <2>2, <2>3
<1>16. /\ DOMAIN p = 1 .. n /\ p = [i \in 1 .. n |-> p[i]]
       /\ \A i \in 1 .. n : p[i] = IF i \in apart THEN s[i] ELSE u[i]
  <2>1. DOMAIN u = 1 .. n
    BY <1>14
  <2>2. PutBack(n, s, apart, u, p)
    BY <1>4, <1>12, <2>1, PatchIs
  <2> QED BY <2>2 DEF PutBack
<1> HIDE DEF p
<1>17. ASSUME NEW i \in 1 .. n
       PROVE  /\ is_rsum \/ ~ isNull[i] => p[i] = s[i]
              /\ p[i] \in Range(s) \cup {0} /\ p[i] \in OfType(t)
  <2>1. CASE i \in apart
    BY <1>6, <1>16, <2>1
  <2>2. CASE i \notin apart
    BY <1>6, <1>7, <1>8, <1>15, <1>16, <2>2
  <2> QED BY <2>1, <2>2
<1>18. Recovered(n, t, s, isNull, is_rsum, p)
  <2>1. p \in [1 .. n -> OfType(t)]
    BY <1>16, <1>17
  <2> QED BY <1>17, <2>1 DEF Recovered
<1> QED BY <1>18 DEF p, u

\* There is an option as good as any range of values.
LEMMA RangeOption ==
  ASSUME NEW t, IsType(t), NEW n \in Nat \ {0}, NEW s \in [1 .. n -> OfType(t)],
         NEW lo \in Int, NEW hi \in Int, NEW bw \in Nat, hi - lo < 2 ^ bw
  PROVE  \E p \in Options(s) : OptionBits(t, p) <= bw /\ OptionOut(s, p) <= OutOf(s, lo, hi)
<1> DEFINE within == {x \in Range(s) : lo <= x /\ x <= hi}
           w == 2 ^ bw
<1>1. w \in Nat \ {0}
  BY PowerPositive
<1>2. \A x \in OfType(t) : x \in Int
  BY OfTypeIs
<1>3. \A i \in 1 .. n : s[i] \in Range(s) /\ s[i] \in Int
  BY <1>2 DEF Range
<1>4. IsFiniteSet(Range(s)) /\ \A x \in Range(s) : x \in Int
  <2>1. s \in Seq(OfType(t))
    OBVIOUS
  <2>2. IsFiniteSet(Range(s)) /\ Range(s) \subseteq OfType(t)
    BY <2>1, RangeFinite
  <2> QED BY <1>2, <2>2
<1>5. hi - lo < w
  OBVIOUS
<1> HIDE DEF w
<1>6. \E a, b \in Range(s) : /\ a <= b /\ b - a < w
                             /\ \A i \in 1 .. n : s[i] < a \/ s[i] > b => s[i] < lo \/ s[i] > hi
  <2>1. CASE within = {}
    <3>1. 1 \in 1 .. n
      OBVIOUS
    <3> DEFINE x == s[1]
    <3>2. x \in Range(s) /\ x \in Int
      BY <1>3, <3>1
    <3>3. ASSUME NEW i \in 1 .. n PROVE s[i] < lo \/ s[i] > hi
      <4>1. s[i] \notin within
        BY <2>1
      <4>2. ~ (lo <= s[i] /\ s[i] <= hi)
        BY <1>3, <4>1
      <4> QED BY <1>3, <4>2
    <3> HIDE DEF x, within
    <3>4. x <= x /\ x - x < w
      BY <1>1, <3>2
    <3> QED BY <3>2, <3>3, <3>4
  <2>2. CASE within # {}
    <3>1. IsFiniteSet(within) /\ within \in SUBSET Int
      <4>1. within \subseteq Range(s)
        OBVIOUS
      <4> HIDE DEF within
      <4> QED BY <1>4, <4>1, FS_Subset
    <3> DEFINE a == Min(within)
               b == Max(within)
    <3>2. a \in within /\ \A y \in within : a <= y
      <4> HIDE DEF within
      <4> QED BY <2>2, <3>1, MinIs
    <3>3. b \in within /\ \A y \in within : y <= b
      <4> HIDE DEF within
      <4> QED BY <2>2, <3>1, MaxIs
    <3>4. \A x : x \in within <=> x \in Range(s) /\ lo <= x /\ x <= hi
      OBVIOUS
    <3> HIDE DEF a, b, within
    <3>5. /\ a \in Range(s) /\ b \in Range(s) /\ a \in Int /\ b \in Int
          /\ lo <= a /\ b <= hi /\ a <= b
      BY <1>4, <3>2, <3>3, <3>4
    <3>6. b - a < w
      BY <1>1, <1>5, <3>5
    <3>7. ASSUME NEW i \in 1 .. n, s[i] < a \/ s[i] > b PROVE s[i] < lo \/ s[i] > hi
      <4>1. s[i] \notin within
        <5> SUFFICES ASSUME s[i] \in within PROVE FALSE
          OBVIOUS
        <5>1. a <= s[i] /\ s[i] <= b
          BY <3>2, <3>3
        <5> QED BY <1>3, <3>5, <3>7, <5>1
      <4>2. ~ (lo <= s[i] /\ s[i] <= hi)
        BY <1>3, <3>4, <4>1
      <4> QED BY <1>3, <4>2
    <3> QED BY <3>5, <3>6, <3>7
  <2> QED BY <2>1, <2>2
<1>7. PICK a \in Range(s), b \in Range(s) :
           /\ a <= b /\ b - a < w
           /\ \A i \in 1 .. n : s[i] < a \/ s[i] > b => s[i] < lo \/ s[i] > hi
  BY <1>6
<1> DEFINE p == <<a, b>>
<1>8. p \in Options(s) /\ p[1] = a /\ p[2] = b
  BY <1>7 DEF Options
<1> HIDE DEF p
<1>9. OptionBits(t, p) <= bw
  <2>1. LeastBits(b - a, OptionBits(t, p))
    BY <1>8, OptionIs
  <2> QED BY <1>7, <2>1 DEF LeastBits, w
<1>10. OptionOut(s, p) <= OutOf(s, lo, hi)
  <2>1. DOMAIN s = 1 .. n /\ n \in Nat
    OBVIOUS
  <2>2. OptionOut(s, p) = OutOf(s, a, b)
    BY <1>8 DEF OptionOut
  <2>3. OutsideOf(n, s, a, b) \subseteq OutsideOf(n, s, lo, hi)
    BY <1>7 DEF OutsideOf
  <2>4. /\ IsFiniteSet(OutsideOf(n, s, lo, hi))
        /\ OutOf(s, a, b) = Cardinality(OutsideOf(n, s, a, b))
        /\ OutOf(s, lo, hi) = Cardinality(OutsideOf(n, s, lo, hi))
    BY <2>1, OutOfIs
  <2>5. Cardinality(OutsideOf(n, s, a, b)) <= Cardinality(OutsideOf(n, s, lo, hi))
    BY <2>3, <2>4, FS_Subset
  <2> QED BY <2>2, <2>4, <2>5
<1> QED BY <1>8, <1>9, <1>10

\* There are few exceptions, and no range of values takes less space.
SmallestRange(t, s, a) ==
  /\ Len(a.exceptions) < ExcLimit
  /\ \A k \in 1 .. Len(a.exceptions) - 1 : a.exceptions[k].pos < a.exceptions[k + 1].pos
  /\ \A lo \in OfType(t) : \A bw \in 0 .. t.bits :
       OutOf(s, lo, lo + 2 ^ bw - 1) < ExcLimit =>
         OptionSize(t, a.bw, Len(a.exceptions)) <= OptionSize(t, bw, OutOf(s, lo, lo + 2 ^ bw - 1))

\* That is how patches are analyzed.
LEMMA PatchedSmallest ==
  ASSUME NEW t, IsType(t), t.bits <= MaxWidth, 0 \in OfType(t),
         NEW n \in Nat \ {0}, NEW s \in [1 .. n -> OfType(t)],
         NEW isNull \in [1 .. n -> BOOLEAN], NEW is_rsum \in BOOLEAN,
         NEW a, a = AnalyzePatched(t, s, isNull, is_rsum)
  PROVE  SmallestRange(t, s, a)
<1> DEFINE o == BestOption(t, s)
           apart == {i \in 1 .. n : IsException(t, o, s[i]) /\ (is_rsum \/ ~ isNull[i])}
           x == a.exceptions
           m == Len(x)
           E == ExceptionsOf(n, t, o, s)
<1>1. a.bw = o.bw /\ x = Apart(s, apart)
  BY DEF AnalyzePatched
<1>2. apart \in SUBSET (1 .. n) /\ apart \subseteq E /\ DOMAIN s = 1 .. n /\ n \in Nat
  BY DEF ExceptionsOf
<1> HIDE DEF apart, o
<1>3. /\ o.bw \in Nat /\ IsFiniteSet(E) /\ Cardinality(E) \in Nat /\ Cardinality(E) < ExcLimit
      /\ OptionSize(t, o.bw, Cardinality(E)) <= OptionSize(t, MaxWidth, 0)
      /\ \A p \in Able(t, s) : OptionSize(t, o.bw, Cardinality(E)) <= OptionCost(t, s, p)
  BY <1>2, ChosenIs DEF o
<1>4. KeptApart(s, apart, x)
  BY <1>1, <1>2, ApartIs
<1> HIDE DEF x, E
<1>5. /\ m = Cardinality(apart) /\ m \in Nat
      /\ \A k \in 1 .. m - 1 : x[k].pos < x[k + 1].pos
  <2>1. apart \in SUBSET Int
    BY <1>2
  <2> QED BY <1>4, <2>1, ApartCount
<1>6. m <= Cardinality(E)
  <2>1. apart \in SUBSET E
    BY <1>2
  <2>2. Cardinality(apart) <= Cardinality(E)
    BY <1>3, <2>1, FS_Subset
  <2> QED BY <1>5, <2>2
<1> HIDE DEF m
<1>7. m < ExcLimit
  BY <1>3, <1>5, <1>6, SizesAssumption
<1> DEFINE size == OptionSize(t, o.bw, m)
           counted == OptionSize(t, o.bw, Cardinality(E))
<1>8. size <= counted /\ size \in Int /\ counted \in Int
  <2>1. o.bw <= o.bw
    BY <1>3
  <2> QED BY <1>3, <1>5, <1>6, <2>1, OptionSizeIs
<1>9. ASSUME NEW lo \in OfType(t), NEW bw \in 0 .. t.bits, OutOf(s, lo, lo + 2 ^ bw - 1) < ExcLimit
      PROVE  size <= OptionSize(t, bw, OutOf(s, lo, lo + 2 ^ bw - 1))
  <2> DEFINE w == 2 ^ bw
             hi == lo + w - 1
             out1 == OutOf(s, lo, hi)
             other == OptionSize(t, bw, out1)
             plain == OptionSize(t, MaxWidth, 0)
  <2>1. bw \in Nat /\ w \in Nat \ {0} /\ lo \in Int
    BY OfTypeIs, PowerPositive DEF IsType
  <2>2. hi \in Int /\ hi - lo < w
    <3> HIDE DEF w
    <3> QED BY <2>1
  <2> HIDE DEF hi
  <2>3. out1 \in Nat
    BY <1>2, OutOfIs
  <2>4. PICK p \in Options(s) : OptionBits(t, p) <= bw /\ OptionOut(s, p) <= out1
    BY <2>1, <2>2, RangeOption
  <2>5. /\ OptionBits(t, p) \in Nat /\ OptionOut(s, p) \in Nat /\ OptionCost(t, s, p) \in Int
    BY <1>2, <2>4, OptionIs
  <2>6. other \in Int /\ plain \in Int
    <3>1. other \in Int
      BY <2>1, <2>3, OptionSizeIs
    <3>2. MaxWidth \in Nat /\ 0 \in Nat
      BY SizesAssumption
    <3> QED BY <3>1, <3>2, OptionSizeIs
  <2>7. OptionCost(t, s, p) <= other
    BY <2>1, <2>3, <2>4, <2>5, OptionSizeIs DEF OptionCost
  <2>8. out1 < ExcLimit
    BY <1>9 DEF hi
  <2>9. WithinLimit(OptionOut(s, p))
    BY <2>3, <2>4, <2>5, <2>8, SizesAssumption DEF WithinLimit
  <2>10. counted <= plain
    BY <1>3
  <2> HIDE DEF size, counted, other, plain
  <2>11. size <= other
    <3>1. CASE OptionCost(t, s, p) < plain
      <4>1. p \in Able(t, s)
        BY <2>9, <3>1 DEF Able, plain
      <4>2. counted <= OptionCost(t, s, p)
        BY <1>3, <4>1 DEF counted
      <4> QED BY <1>8, <2>5, <2>6, <2>7, <4>2
    <3>2. CASE ~ (OptionCost(t, s, p) < plain)
      BY <1>8, <2>5, <2>6, <2>7, <2>10, <3>2
    <3> QED BY <3>1, <3>2
  <2> QED BY <2>11 DEF other, hi
<1> QED BY <1>1, <1>5, <1>7, <1>9 DEF SmallestRange, x, m

-----------------------------------------------------------------------------
(* Transposed vectors and running sums *)

\* Where a transposed vector has its values from, and where they go to again.
From(k) == ((k - 1) % NumLanes) * Rows + (k - 1) \div NumLanes + 1
To(i)   == ((i - 1) % Rows) * NumLanes + (i - 1) \div Rows + 1

\* Two numbers of a row and a lane are a position, from which both are had back.
LEMMA Position ==
  ASSUME NEW a \in Nat \ {0}, NEW b \in Nat \ {0}, NEW i \in 0 .. a * b - 1
  PROVE  /\ i % a \in 0 .. a - 1 /\ i \div a \in 0 .. b - 1
         /\ i = (i % a) + a * (i \div a)
         /\ (i % a) * b + i \div a \in 0 .. a * b - 1
         /\ ((i % a) * b + i \div a) % b = i \div a
         /\ ((i % a) * b + i \div a) \div b = i % a
<1> DEFINE q == i \div a
           r == i % a
           c == a * b
<1>1. c \in Nat /\ i \in Nat /\ i < c
  OBVIOUS
<1>2. i = a * q + r /\ r \in 0 .. a - 1 /\ q \in Nat
  <2> HIDE DEF c
  <2> QED BY <1>1, DivisionFacts
<1> HIDE DEF q, r
<1>3. q \in 0 .. b - 1
  <2> SUFFICES ASSUME q >= b PROVE FALSE
    BY <1>2
  <2>1. PICK k \in Nat : q = b + k
    <3>1. q - b \in Nat /\ q = b + (q - b)
      BY <1>2
    <3> QED BY <3>1
  <2>2. a * q = a * b + a * k /\ a * k \in Nat /\ a * b \in Nat
    BY <2>1
  <2> DEFINE z == a * q
             y == a * k
  <2>3. z = c + y /\ y \in Nat /\ c \in Nat /\ i = z + r /\ i < c
    BY <1>1, <1>2, <2>2
  <2> HIDE DEF z, y, c
  <2> QED BY <1>2, <2>3
<1>4. r * b + q \in 0 .. c - 1
  <2>1. r * b \in Nat /\ a * b \in Nat
    BY <1>2
  <2>2. PICK k \in Nat : a = r + 1 + k
    <3>1. a - 1 - r \in Nat /\ a = r + 1 + (a - 1 - r)
      BY <1>2
    <3> QED BY <3>1
  <2>3. a * b = r * b + b + k * b /\ k * b \in Nat
    BY <1>2, <2>2
  <2> DEFINE z == r * b
             y == k * b
  <2>4. c = z + b + y /\ z \in Nat /\ y \in Nat
    BY <2>1, <2>3
  <2> HIDE DEF z, y, c
  <2>5. z + q \in 0 .. c - 1
    BY <1>3, <2>4
  <2> QED BY <2>5 DEF z
<1>5. (r * b + q) % b = q /\ (r * b + q) \div b = r
  <2>1. r * b = b * r /\ r \in Int
    BY <1>2
  <2>2. (b * r + q) % b = q
    BY <1>3, <2>1, RemainderUnique
  <2>3. (b * r + q) \div b = r
    BY <1>3, <2>1, DivisionUnique
  <2> QED BY <2>1, <2>2, <2>3
<1>6. i = r + a * q
  <2> DEFINE z == a * q
  <2>1. z \in Nat /\ i = z + r
    BY <1>2
  <2> HIDE DEF z
  <2>2. i = r + z
    BY <1>2, <2>1
  <2> QED BY <2>2 DEF z
<1> QED BY <1>2, <1>3, <1>4, <1>5, <1>6 DEF q, r, c

\* There are whole rows in a vector.
LEMMA RowsAre ==
  /\ VecSz \in Nat \ {0} /\ NumLanes \in Nat \ {0} /\ Rows \in Nat \ {0}
  /\ VecSz = Rows * NumLanes /\ VecSz = NumLanes * Rows
<1>1. VecSz \in Nat \ {0} /\ NumLanes \in Nat \ {0} /\ VecSz % NumLanes = 0
  BY SizesAssumption
<1> DEFINE q == VecSz \div NumLanes
           r == VecSz % NumLanes
<1>2. VecSz = NumLanes * q + r /\ q \in Nat
  BY <1>1, DivisionFacts
<1>3. r = 0 /\ Rows = q
  BY <1>1 DEF Rows
<1> HIDE DEF q, r
<1>4. VecSz = NumLanes * q /\ VecSz = q * NumLanes
  BY <1>1, <1>2, <1>3
<1>5. q # 0
  BY <1>1, <1>4
<1> QED BY <1>1, <1>2, <1>3, <1>4, <1>5

\* Both are positions, and lead back.
LEMMA FromTo ==
  /\ \A k \in 1 .. VecSz : From(k) \in 1 .. VecSz
  /\ \A i \in 1 .. VecSz : To(i) \in 1 .. VecSz /\ From(To(i)) = i
<1> DEFINE a == Rows
           b == NumLanes
<1>1. a \in Nat \ {0} /\ b \in Nat \ {0} /\ VecSz = a * b /\ VecSz = b * a /\ VecSz \in Nat
  BY RowsAre
<1>2. \A k : From(k) = ((k - 1) % b) * a + (k - 1) \div b + 1 /\ To(k) = ((k - 1) % a) * b + (k - 1) \div a + 1
  BY DEF From, To
<1> HIDE DEF a, b
<1>3. ASSUME NEW k \in 1 .. VecSz PROVE From(k) \in 1 .. VecSz
  <2> DEFINE j == k - 1
  <2>1. j \in 0 .. b * a - 1
    BY <1>1
  <2>2. From(k) = (j % b) * a + j \div b + 1
    BY <1>2
  <2> HIDE DEF j
  <2>3. (j % b) * a + j \div b \in 0 .. b * a - 1
    BY <1>1, <2>1, Position
  <2> DEFINE z == (j % b) * a + j \div b
             c == b * a
  <2>4. z \in 0 .. c - 1 /\ From(k) = z + 1 /\ VecSz = c
    BY <1>1, <2>2, <2>3
  <2> HIDE DEF z, c
  <2> QED BY <1>1, <2>4
<1>4. ASSUME NEW i \in 1 .. VecSz PROVE To(i) \in 1 .. VecSz /\ From(To(i)) = i
  <2> DEFINE j == i - 1
  <2>1. j \in 0 .. a * b - 1 /\ i = j + 1
    BY <1>1
  <2>2. To(i) = (j % a) * b + j \div a + 1
    BY <1>2
  <2> HIDE DEF j
  <2> DEFINE r == j % a
             q == j \div a
             z == r * b + q
  <2>3. /\ r \in 0 .. a - 1 /\ q \in 0 .. b - 1 /\ j = r + a * q
        /\ z \in 0 .. a * b - 1 /\ z % b = q /\ z \div b = r
    BY <1>1, <2>1, Position
  <2>4. To(i) = z + 1
    BY <2>2
  <2> HIDE DEF z, q, r
  <2> DEFINE x == To(i)
             c == a * b
  <2>5. x = z + 1 /\ z \in 0 .. c - 1 /\ VecSz = c /\ x - 1 = z
    BY <1>1, <2>3, <2>4
  <2>6. From(x) = ((x - 1) % b) * a + (x - 1) \div b + 1
    BY <1>2
  <2> HIDE DEF x, c
  <2>7. From(x) = q * a + r + 1
    BY <2>3, <2>5, <2>6
  <2>8. q * a = a * q /\ a * q \in Int
    BY <1>1, <2>3
  <2> DEFINE y == a * q
  <2>9. From(x) = y + r + 1 /\ j = r + y /\ y \in Int
    BY <2>3, <2>7, <2>8
  <2> HIDE DEF y
  <2>10. From(x) = i
    BY <2>1, <2>3, <2>9
  <2>11. x \in 1 .. VecSz
    BY <1>1, <2>5
  <2> QED BY <2>10, <2>11 DEF x
<1> QED BY <1>3, <1>4

\* A transposed vector that has been transposed back, values looked up or not.
Untransposed(s) ==
  /\ Untranspose(Transpose(s)) = s
  /\ \A vals : Untranspose(Lookup(vals, Transpose(s))) = [i \in 1 .. VecSz |-> vals[s[i] + 1]]

\* It is as it was.
LEMMA TransposeIs ==
  ASSUME NEW A, NEW s \in [1 .. VecSz -> A]
  PROVE  Transpose(s) \in [1 .. VecSz -> A] /\ Untransposed(s)
<1>1. Transpose(s) = [k \in 1 .. VecSz |-> s[From(k)]]
  BY DEF Transpose, From
<1>2. \A t : Untranspose(t) = [i \in 1 .. VecSz |-> t[To(i)]]
  BY DEF Untranspose, To
<1>3. Transpose(s) \in [1 .. VecSz -> A]
  BY <1>1, FromTo
<1>4. \A i \in 1 .. VecSz : To(i) \in 1 .. VecSz /\ Transpose(s)[To(i)] = s[i]
  BY <1>1, FromTo
<1>5. Untranspose(Transpose(s)) = s
  <2>1. Untranspose(Transpose(s)) = [i \in 1 .. VecSz |-> Transpose(s)[To(i)]]
    BY <1>2
  <2>2. s = [i \in 1 .. VecSz |-> s[i]]
    OBVIOUS
  <2> QED BY <1>4, <2>1, <2>2
<1>6. ASSUME NEW vals PROVE Untranspose(Lookup(vals, Transpose(s))) = [i \in 1 .. VecSz |-> vals[s[i] + 1]]
  <2> DEFINE t == Transpose(s)
  <2>1. DOMAIN t = 1 .. VecSz
    BY <1>3
  <2>2. Lookup(vals, t) = [i \in 1 .. VecSz |-> vals[t[i] + 1]]
    BY <2>1 DEF Lookup
  <2>3. \A i \in 1 .. VecSz : t[To(i)] = s[i] /\ To(i) \in 1 .. VecSz
    BY <1>4
  <2> HIDE DEF t
  <2>4. \A i \in 1 .. VecSz : Lookup(vals, t)[To(i)] = vals[s[i] + 1]
    BY <2>2, <2>3
  <2>5. Untranspose(Lookup(vals, t)) = [i \in 1 .. VecSz |-> Lookup(vals, t)[To(i)]]
    BY <1>2
  <2>6. Untranspose(Lookup(vals, t)) = [i \in 1 .. VecSz |-> vals[s[i] + 1]]
    BY <2>4, <2>5
  <2> QED BY <2>6 DEF t
<1> QED BY <1>3, <1>5, <1>6 DEF Untransposed

\* The deltas are of the type.
LEMMA UnrsumIs ==
  ASSUME NEW type, IsType(type), 0 \in OfType(type), NEW t \in [1 .. VecSz -> OfType(type)]
  PROVE  Unrsum(type, t) \in [1 .. VecSz -> OfType(type)]
<1>1. NumLanes \in Nat \ {0} /\ VecSz \in Nat /\ \A x \in OfType(type) : x \in Int
  BY SizesAssumption, OfTypeIs
<1>2. ASSUME NEW k \in 1 .. VecSz, ~ (k <= NumLanes) PROVE Fit(type, t[k] - t[k - NumLanes]) \in OfType(type)
  <2>1. k - NumLanes \in 1 .. VecSz
    BY <1>1, <1>2
  <2>2. t[k] - t[k - NumLanes] \in Int
    BY <1>1, <2>1
  <2> QED BY <2>2, FitIs
<1>3. Unrsum(type, t) = [k \in 1 .. VecSz |-> IF k <= NumLanes THEN 0 ELSE Fit(type, t[k] - t[k - NumLanes])]
  BY DEF Unrsum
<1> QED BY <1>2, <1>3

\* The running sums of the deltas are the values again.
LEMMA RsumIs ==
  ASSUME NEW type, IsType(type), 0 \in OfType(type), NEW t \in [1 .. VecSz -> OfType(type)]
  PROVE  Rsum(type, Bases(t), Unrsum(type, t)) = t
<1> DEFINE deltas == Unrsum(type, t)
           nl == NumLanes
           p == 2 ^ type.bits
<1>1. /\ nl \in Nat \ {0} /\ Rows \in Nat \ {0} /\ VecSz \in Nat /\ VecSz = nl * Rows
      /\ \A x \in OfType(type) : x \in Int
  BY RowsAre, OfTypeIs
<1>2. deltas \in [1 .. VecSz -> OfType(type)]
  BY UnrsumIs
<1>3. \A k \in 1 .. VecSz : deltas[k] = IF k <= nl THEN 0 ELSE Fit(type, t[k] - t[k - nl])
  BY DEF Unrsum
<1>4. \A k \in 1 .. VecSz : t[k] \in OfType(type) /\ t[k] \in Int /\ deltas[k] \in Int
  BY <1>1, <1>2
<1>5. p \in Int
  BY OfTypeIs
<1> HIDE DEF deltas, p
<1>6. Rsum(type, Bases(t), deltas) =
        [k \in 1 .. VecSz |-> Fit(type, Bases(t)[((k - 1) % nl) + 1]
                                          + Sums(InLane(deltas, ((k - 1) % nl) + 1))[((k - 1) \div nl) + 1])]
  BY DEF Rsum
<1>7. \A l \in 1 .. nl : Bases(t)[l] = t[l]
  BY DEF Bases
<1> HIDE DEF nl
<1>8. ASSUME NEW l \in 1 .. nl, NEW r \in 0 .. Rows - 1
      PROVE  r * nl + l \in 1 .. VecSz /\ r * nl \in Nat
  <2>1. PICK k \in Nat : Rows = r + 1 + k
    <3>1. Rows - 1 - r \in Nat /\ Rows = r + 1 + (Rows - 1 - r)
      BY <1>1
    <3> QED BY <3>1
  <2>2. nl * Rows = r * nl + nl + k * nl /\ k * nl \in Nat /\ r * nl \in Nat
    BY <1>1, <2>1
  <2> DEFINE z == r * nl
             y == k * nl
  <2>3. VecSz = z + nl + y /\ z \in Nat /\ y \in Nat
    BY <1>1, <2>2
  <2> HIDE DEF z, y
  <2>4. z + l \in 1 .. VecSz
    BY <1>1, <2>3
  <2> QED BY <2>3, <2>4 DEF z
<1>9. ASSUME NEW l \in 1 .. nl
      PROVE  \A r \in Nat : r < Rows =>
               \E m \in Int : t[l] + Sums(InLane(deltas, l))[r + 1] = t[r * nl + l] + p * m
  <2> DEFINE lane == InLane(deltas, l)
             g == Sums(lane)
             Has(r) == \E m \in Int : t[l] + g[r + 1] = t[r * nl + l] + p * m
             S == {r \in Nat : r < Rows => Has(r)}
  <2>1. /\ lane \in Seq(Int) /\ Len(lane) = Rows
        /\ \A r \in 0 .. Rows - 1 : lane[r + 1] = deltas[r * nl + l]
    <3>1. lane = [r \in 1 .. Rows |-> deltas[(r - 1) * nl + l]]
      BY DEF InLane, nl
    <3>2. \A r \in 1 .. Rows : deltas[(r - 1) * nl + l] \in Int
      <4> TAKE r \in 1 .. Rows
      <4>1. r - 1 \in 0 .. Rows - 1
        BY <1>1
      <4>2. (r - 1) * nl + l \in 1 .. VecSz
        BY <1>8, <4>1
      <4> QED BY <1>4, <4>2
    <3> HIDE DEF lane
    <3>3. lane \in Seq(Int) /\ Len(lane) = Rows
      <4>1. lane \in [1 .. Rows -> Int]
        BY <3>1, <3>2
      <4> QED BY <1>1, <4>1
    <3>4. \A r \in 0 .. Rows - 1 : lane[r + 1] = deltas[r * nl + l]
      <4> TAKE r \in 0 .. Rows - 1
      <4>1. r + 1 \in 1 .. Rows /\ (r + 1) - 1 = r
        BY <1>1
      <4> QED BY <3>1, <4>1
    <3> QED BY <3>3, <3>4
  <2> HIDE DEF lane
  <2>2. g \in [0 .. Rows -> Int] /\ g[0] = 0 /\ \A n \in 1 .. Rows : g[n] = g[n - 1] + lane[n]
    BY <2>1, SumsSteps DEF SumsBy
  <2> HIDE DEF g
  <2>3. \A r \in 0 .. Rows - 1 : g[r + 1] = g[r] + deltas[r * nl + l] /\ g[r] \in Int /\ g[r + 1] \in Int
    <3> TAKE r \in 0 .. Rows - 1
    <3>1. r + 1 \in 1 .. Rows /\ (r + 1) - 1 = r /\ r \in 0 .. Rows /\ r + 1 \in 0 .. Rows
      BY <1>1
    <3> QED BY <2>1, <2>2, <3>1
  <2>4. 0 \in S
    <3>1. 0 \in 0 .. Rows - 1 /\ 0 * nl = 0 /\ 0 * nl + l = l
      BY <1>1
    <3>2. l \in 1 .. VecSz /\ l <= nl
      BY <1>1, <1>8, <3>1
    <3>3. deltas[l] = 0
      BY <1>3, <3>2 DEF nl
    <3>4. g[0 + 1] = g[0] + deltas[0 * nl + l]
      BY <2>3, <3>1
    <3>5. g[0 + 1] = 0
      BY <2>2, <3>1, <3>3, <3>4
    <3>6. t[l] \in Int /\ t[0 * nl + l] = t[l]
      BY <1>4, <3>1, <3>2
    <3>7. t[l] + g[0 + 1] = t[0 * nl + l] + p * 0
      <4>1. p * 0 = 0
        BY <1>5
      <4> QED BY <3>5, <3>6, <4>1
    <3> QED BY <3>7
  <2>5. ASSUME NEW r \in Nat, r \in S PROVE r + 1 \in S
    <3> SUFFICES ASSUME r + 1 < Rows PROVE Has(r + 1)
      OBVIOUS
    <3>1. PICK m \in Int : t[l] + g[r + 1] = t[r * nl + l] + p * m
      BY <1>1, <2>5
    <3> DEFINE i == r * nl + l
               j == (r + 1) * nl + l
    <3>2. r \in 0 .. Rows - 1 /\ r + 1 \in 0 .. Rows - 1
      BY <1>1
    <3>3. i \in 1 .. VecSz /\ j \in 1 .. VecSz /\ j - nl = i /\ ~ (j <= nl)
      <4>1. i \in 1 .. VecSz /\ j \in 1 .. VecSz /\ r * nl \in Nat
        BY <1>8, <3>2
      <4> DEFINE z == r * nl
      <4>2. (r + 1) * nl = z + nl
        BY <1>1
      <4>3. j = z + nl + l /\ i = z + l /\ z \in Nat
        BY <4>1, <4>2
      <4> HIDE DEF z, i, j
      <4> QED BY <1>1, <4>1, <4>3
    <3> HIDE DEF i, j
    <3> DEFINE d == t[j] - t[i]
    <3>4. d \in Int /\ t[j] \in Int /\ t[i] \in Int /\ t[l] \in Int
      <4>1. l \in 1 .. VecSz
        <5>1. 0 \in 0 .. Rows - 1 /\ 0 * nl + l = l
          BY <1>1
        <5> QED BY <1>8, <5>1
      <4> QED BY <1>4, <3>3, <4>1
    <3>5. deltas[j] = Fit(type, d)
      BY <1>3, <3>3 DEF nl
    <3> HIDE DEF d
    <3>6. PICK x \in Int : deltas[j] = d + p * x
      BY <3>4, <3>5, FitIs DEF p
    <3>7. g[(r + 1) + 1] = g[r + 1] + deltas[j] /\ g[r + 1] \in Int
      BY <2>3, <3>2 DEF j
    <3>8. t[l] + g[r + 1] = t[i] + p * m
      BY <3>1 DEF i
    <3> DEFINE y == p * m
               z == p * x
    <3>9. y \in Int /\ z \in Int /\ p * (m + x) = y + z
      BY <1>5
    <3>10. t[l] + g[r + 1] = t[i] + y /\ deltas[j] = d + z
      BY <3>6, <3>8
    <3> HIDE DEF y, z
    <3>11. t[l] + g[(r + 1) + 1] = t[j] + (y + z)
      <4>1. d = t[j] - t[i]
        BY DEF d
      <4> DEFINE before == g[r + 1]
                 after  == g[(r + 1) + 1]
                 delta  == deltas[j]
                 first  == t[l]
                 was    == t[i]
                 is     == t[j]
      <4>2. /\ after = before + delta /\ before \in Int /\ first + before = was + y
            /\ delta = (is - was) + z
        BY <3>7, <3>10, <4>1
      <4>3. first \in Int /\ was \in Int /\ is \in Int
        BY <3>4
      <4> HIDE DEF before, after, delta, first, was, is
      <4>4. first + after = is + (y + z)
        BY <3>9, <4>2, <4>3
      <4> QED BY <4>4 DEF after, first, is
    <3>12. t[l] + g[(r + 1) + 1] = t[j] + p * (m + x) /\ m + x \in Int
      BY <3>9, <3>11
    <3> QED BY <3>12 DEF j
  <2>6. Nat \subseteq S
    <3> HIDE DEF S
    <3> QED BY <2>4, <2>5, Successors
  <2> QED BY <2>6 DEF g, lane
<1>10. ASSUME NEW k \in 1 .. VecSz
       PROVE  Fit(type, Bases(t)[((k - 1) % nl) + 1]
                          + Sums(InLane(deltas, ((k - 1) % nl) + 1))[((k - 1) \div nl) + 1]) = t[k]
  <2> DEFINE j == k - 1
             x == j % nl
             l == x + 1
             r == j \div nl
  <2>1. j \in 0 .. nl * Rows - 1 /\ k = j + 1
    BY <1>1
  <2> HIDE DEF j
  <2>2. x \in 0 .. nl - 1 /\ r \in 0 .. Rows - 1 /\ j = x + nl * r
    BY <1>1, <2>1, Position
  <2> HIDE DEF x
  <2>3. l \in 1 .. nl /\ l = x + 1
    BY <1>1, <2>2
  <2> HIDE DEF r
  <2>4. r * nl + l = k
    <3> DEFINE z == nl * r
    <3>1. r * nl = z /\ z \in Int /\ j = x + z /\ l = x + 1 /\ x \in Int
      BY <1>1, <2>2, <2>3
    <3> HIDE DEF z, l
    <3>2. r * nl + l = z + (x + 1)
      BY <3>1
    <3> QED BY <2>1, <3>1, <3>2
  <2> HIDE DEF l
  <2>5. PICK m \in Int : t[l] + Sums(InLane(deltas, l))[r + 1] = t[r * nl + l] + p * m
    <3>1. r \in Nat /\ r < Rows
      BY <1>1, <2>2
    <3> QED BY <1>9, <2>3, <3>1
  <2>6. Fit(type, t[k] + p * m) = t[k]
    BY FitSame DEF p
  <2>7. Fit(type, Bases(t)[l] + Sums(InLane(deltas, l))[r + 1]) = t[k]
    BY <1>7, <2>3, <2>4, <2>5, <2>6 DEF nl
  <2> QED BY <2>7 DEF l, r, j, x
<1>11. t = [k \in 1 .. VecSz |-> t[k]]
  OBVIOUS
<1>12. Rsum(type, Bases(t), deltas) = t
  BY <1>6, <1>10, <1>11
<1> QED BY <1>12 DEF deltas

\* Transposed vectors are had back from their deltas, which are had back packed,
\* with patches or without.
LEMMA SumsRecover ==
  ASSUME NEW type, IsType(type), type.bits <= MaxWidth, 0 \in OfType(type),
         NEW s \in [1 .. VecSz -> OfType(type)], NEW isNull \in [1 .. VecSz -> BOOLEAN]
  PROVE  /\ DecodeSums(type, EncodeSums(type, s, isNull)) = Transpose(s)
         /\ DecodeSumsPatched(type, EncodeSumsPatched(type, s, isNull)) = Transpose(s)
<1> DEFINE t == Transpose(s)
           d == Unrsum(type, t)
           a == Analyze(type, d, isNull, TRUE)
           b == AnalyzePatched(type, d, isNull, TRUE)
           u == Unffor(type, FforOf(a))
           p == Patch(Unffor(type, FforOf(b)), b.exceptions)
<1>1. t \in [1 .. VecSz -> OfType(type)]
  BY TransposeIs
<1> HIDE DEF t
<1>2. d \in [1 .. VecSz -> OfType(type)]
  BY <1>1, UnrsumIs
<1>3. VecSz \in Nat /\ TRUE \in BOOLEAN
  BY SizesAssumption
<1>4. Rsum(type, Bases(t), d) = t
  BY <1>1, RsumIs
<1> HIDE DEF d
<1>5. Recovered(VecSz, type, d, isNull, TRUE, u)
  BY <1>2, <1>3, AnalyzeRecovers
<1>6. Recovered(VecSz, type, d, isNull, TRUE, p)
  BY <1>2, <1>3, PatchedRecovers
<1>7. EncodeSums(type, s, isNull) = [bases |-> Bases(t), ffor |-> FforOf(a)]
  BY DEF EncodeSums, t, d
<1>8. EncodeSumsPatched(type, s, isNull) = [bases |-> Bases(t), ffor |-> FforOf(b), exceptions |-> b.exceptions]
  BY DEF EncodeSumsPatched, t, d
<1> HIDE DEF a, b
<1>9. DecodeSums(type, EncodeSums(type, s, isNull)) = Rsum(type, Bases(t), u)
  BY <1>7 DEF DecodeSums
<1>10. DecodeSumsPatched(type, EncodeSumsPatched(type, s, isNull)) = Rsum(type, Bases(t), p)
  BY <1>8 DEF DecodeSumsPatched
<1> HIDE DEF u, p
<1>11. \A x : Recovered(VecSz, type, d, isNull, TRUE, x) => x = d
  <2> SUFFICES ASSUME NEW x, Recovered(VecSz, type, d, isNull, TRUE, x) PROVE x = d
    OBVIOUS
  <2>1. x \in [1 .. VecSz -> OfType(type)] /\ \A i \in 1 .. VecSz : x[i] = d[i]
    BY DEF Recovered
  <2>2. x = [i \in 1 .. VecSz |-> x[i]] /\ d = [i \in 1 .. VecSz |-> d[i]]
    BY <1>2, <2>1
  <2> QED BY <2>1, <2>2
<1>12. u = d /\ p = d
  BY <1>5, <1>6, <1>11
<1>13. /\ DecodeSums(type, EncodeSums(type, s, isNull)) = t
       /\ DecodeSumsPatched(type, EncodeSumsPatched(type, s, isNull)) = t
  BY <1>4, <1>9, <1>10, <1>12
<1> QED BY <1>13 DEF t

-----------------------------------------------------------------------------
(* Runs *)

\* All of s from position a to b is its value at a.
Same(s, a, b) == \A i \in a .. b : s[i] = s[a]

\* start are where the runs of s begin, in order.
Begins(n, s, start) ==
  /\ Len(start) \in 1 .. n /\ DOMAIN start = 1 .. Len(start) /\ start[1] = 1
  /\ \A k \in 1 .. Len(start) : start[k] \in 1 .. n
  /\ \A j, k \in 1 .. Len(start) : j < k => start[j] < start[k]
  /\ \A k \in 1 .. Len(start) - 1 : /\ Same(s, start[k], start[k + 1] - 1)
                                    /\ s[start[k]] # s[start[k + 1]]
  /\ Same(s, start[Len(start)], n)

\* Where no run begins, a run goes on.
LEMMA SameUntil ==
  ASSUME NEW n \in Nat, NEW s, DOMAIN s = 1 .. n, NEW a \in 1 .. n, NEW b \in 0 .. n,
         \A i \in a + 1 .. b : i \notin Starts(s)
  PROVE  Same(s, a, b)
<1> DEFINE S == {k \in Nat : a + k <= b => s[a + k] = s[a]}
<1>1. 0 \in S
  BY DEF S
<1>2. ASSUME NEW k \in Nat, k \in S PROVE k + 1 \in S
  <2> SUFFICES ASSUME a + (k + 1) <= b PROVE s[a + (k + 1)] = s[a]
    OBVIOUS
  <2>1. a + (k + 1) \in a + 1 .. b /\ a + (k + 1) \in 1 .. n /\ (a + (k + 1)) - 1 = a + k /\ a + k <= b
    OBVIOUS
  <2>2. s[a + (k + 1)] = s[(a + (k + 1)) - 1]
    BY <2>1 DEF Starts
  <2> QED BY <1>2, <2>1, <2>2
<1>3. Nat \subseteq S
  <2> HIDE DEF S
  <2> QED BY <1>1, <1>2, Successors
<1>4. ASSUME NEW i \in a .. b PROVE s[i] = s[a]
  <2>1. i - a \in Nat /\ a + (i - a) = i /\ i <= b
    OBVIOUS
  <2>2. i - a \in S
    <3> HIDE DEF S
    <3> QED BY <1>3, <2>1
  <2> QED BY <2>1, <2>2
<1> QED BY <1>4 DEF Same

\* RunStarts finds where runs begin.
LEMMA RunStartsAre ==
  ASSUME NEW n \in Nat \ {0}, NEW s, DOMAIN s = 1 .. n
  PROVE  Begins(n, s, RunStarts(s))
<1> DEFINE P == Starts(s)
           start == RunStarts(s)
           m == Len(start)
<1>1. P \in SUBSET (1 .. n) /\ P \in SUBSET Int /\ 1 \in P /\ n \in Nat
  BY DEF Starts
<1>2. Ordered(start, P) /\ Len(start) <= n
  BY <1>1, InOrderIs DEF RunStarts
<1> HIDE DEF P, start
<1>3. /\ m \in Nat /\ DOMAIN start = 1 .. m
      /\ \A k \in 1 .. m : start[k] \in P
      /\ \A p \in P : \E k \in 1 .. m : start[k] = p
      /\ \A j, k \in 1 .. m : j < k => start[j] < start[k]
  BY <1>1, <1>2, OrderedIs
<1>4. \A k \in 1 .. m : start[k] \in 1 .. n
  BY <1>1, <1>3
<1>5. m \in 1 .. n
  <2>1. PICK k \in 1 .. m : start[k] = 1
    BY <1>1, <1>3
  <2> QED BY <1>2, <1>3, <2>1
<1>6. start[1] = 1
  <2>1. PICK k \in 1 .. m : start[k] = 1
    BY <1>1, <1>3
  <2>2. 1 \in 1 .. m
    BY <1>5
  <2>3. CASE k = 1
    BY <2>1, <2>3
  <2>4. CASE 1 < k
    <3>1. start[1] < 1 /\ start[1] \in 1 .. n
      BY <1>3, <1>4, <2>1, <2>2, <2>4
    <3> QED BY <3>1
  <2> QED BY <2>1, <2>3, <2>4
<1>7. ASSUME NEW k \in 1 .. m - 1
      PROVE  Same(s, start[k], start[k + 1] - 1) /\ s[start[k]] # s[start[k + 1]]
  <2>1. k \in 1 .. m /\ k + 1 \in 1 .. m /\ k < k + 1
    BY <1>3
  <2>2. start[k] \in 1 .. n /\ start[k + 1] \in P /\ start[k + 1] \in 1 .. n /\ start[k] < start[k + 1]
    BY <1>3, <1>4, <2>1
  <2> DEFINE a == start[k]
             e == start[k + 1]
  <2>3. ASSUME NEW i \in a + 1 .. e - 1 PROVE i \notin P
    <3> SUFFICES ASSUME i \in P PROVE FALSE
      OBVIOUS
    <3>1. a < i /\ i < e /\ i \in Int
      BY <2>2
    <3>2. start[k + 1] <= i
      BY <1>1, <1>2, <2>1, <3>1, OrderedGap
    <3> QED BY <2>2, <3>1, <3>2
  <2>4. a \in 1 .. n /\ e - 1 \in 0 .. n /\ e - 1 \in a .. e - 1 /\ e \in Starts(s) /\ e # 1
    BY <2>2 DEF P
  <2> HIDE DEF a, e
  <2>5. Same(s, a, e - 1)
    BY <1>1, <2>3, <2>4, SameUntil DEF P
  <2>6. s[e] # s[e - 1]
    BY <2>4 DEF Starts
  <2>7. s[e - 1] = s[a]
    BY <2>4, <2>5 DEF Same
  <2> QED BY <2>5, <2>6, <2>7 DEF a, e
<1>8. Same(s, start[m], n)
  <2>1. m \in 1 .. m /\ start[m] \in 1 .. n /\ n \in 0 .. n
    BY <1>4, <1>5
  <2> DEFINE a == start[m]
  <2>2. ASSUME NEW i \in a + 1 .. n PROVE i \notin P
    <3> SUFFICES ASSUME i \in P PROVE FALSE
      OBVIOUS
    <3>1. a < i
      BY <2>1
    <3>2. m + 1 \in 1 .. m
      BY <1>1, <1>2, <2>1, <3>1, OrderedGap
    <3> QED BY <1>3, <3>2
  <2> HIDE DEF a
  <2>3. Same(s, a, n)
    BY <1>1, <2>1, <2>2, SameUntil DEF P, a
  <2> QED BY <2>3 DEF a
<1>9. Begins(n, s, start)
  BY <1>3, <1>4, <1>5, <1>6, <1>7, <1>8 DEF Begins
<1> QED BY <1>9 DEF start

\* A value for each run of s, and the number of its run for each position.
Numbered(n, A, s) ==
  /\ RleVals(s) \in Seq(A) /\ Len(RleVals(s)) \in 1 .. n
  /\ RleIdxs(s) \in [1 .. n -> 0 .. Len(RleVals(s)) - 1]
  /\ \A i \in 1 .. n : RleVals(s)[RleIdxs(s)[i] + 1] = s[i]

\* The number of a run leads to its value.
LEMMA RunsRecover ==
  ASSUME NEW n \in Nat \ {0}, NEW A, NEW s \in [1 .. n -> A]
  PROVE  Numbered(n, A, s)
<1> DEFINE start == RunStarts(s)
           m == Len(start)
           vals == RleVals(s)
           idxs == RleIdxs(s)
           at(i) == {k \in 1 .. m : start[k] <= i}
<1>1. Begins(n, s, start) /\ n \in Nat
  BY RunStartsAre
<1>2. vals \in Seq(A) /\ Len(vals) = m /\ \A k \in 1 .. m : vals[k] = s[start[k]]
  <2>1. Starts(s) \in SUBSET (1 .. n)
    BY DEF Starts
  <2> DEFINE P == Starts(s)
  <2> HIDE DEF P
  <2>2. /\ ValuesAt(s, P) \in Seq(A) /\ Len(ValuesAt(s, P)) = Len(InOrder(s, P))
        /\ \A k \in 1 .. Len(InOrder(s, P)) : ValuesAt(s, P)[k] = s[InOrder(s, P)[k]]
    BY <1>1, <2>1, ValuesAtIs DEF P
  <2>3. start = InOrder(s, P) /\ vals = ValuesAt(s, P)
    BY DEF RleVals, RunStarts, P
  <2> HIDE DEF start, vals
  <2> QED BY <2>2, <2>3
<1> HIDE DEF start, vals
<1>3. /\ m \in 1 .. n /\ DOMAIN start = 1 .. m /\ start[1] = 1
      /\ \A k \in 1 .. m : start[k] \in 1 .. n
      /\ \A k \in 1 .. m - 1 : Same(s, start[k], start[k + 1] - 1)
      /\ Same(s, start[m], n)
  BY <1>1 DEF Begins
<1>4. idxs = [i \in 1 .. n |-> Max(at(i)) - 1]
  BY <1>3 DEF RleIdxs, start
<1> HIDE DEF m
<1>5. ASSUME NEW i \in 1 .. n
      PROVE  /\ Max(at(i)) \in 1 .. m
             /\ s[start[Max(at(i))]] = s[i]
  <2> DEFINE T == at(i)
             k == Max(T)
  <2>1. IsFiniteSet(T) /\ T \in SUBSET Int /\ T # {}
    <3>1. IsFiniteSet(1 .. m) /\ T \in SUBSET (1 .. m)
      BY <1>3, FS_Interval
    <3>2. 1 \in T
      BY <1>3
    <3> HIDE DEF T
    <3>3. IsFiniteSet(T)
      BY <3>1, FS_Subset
    <3>4. \A x \in T : x \in Int
      BY <3>1
    <3> QED BY <3>2, <3>3, <3>4
  <2>2. k \in T /\ \A y \in T : y <= k
    <3> HIDE DEF T
    <3> QED BY <2>1, MaxIs
  <2>3. k \in 1 .. m /\ start[k] <= i
    BY <2>2
  <2>4. k + 1 \in 1 .. m => ~ (start[k + 1] <= i)
    <3> SUFFICES ASSUME k + 1 \in 1 .. m, start[k + 1] <= i PROVE FALSE
      OBVIOUS
    <3>1. k + 1 \in T
      OBVIOUS
    <3>2. k + 1 <= k
      BY <2>2, <3>1
    <3> QED BY <2>3, <3>2
  <2> HIDE DEF k, T
  <2>5. s[start[k]] = s[i]
    <3>1. CASE k = m
      <4>1. i \in start[m] .. n
        BY <1>3, <2>3, <3>1
      <4> QED BY <1>3, <3>1, <4>1 DEF Same
    <3>2. CASE k # m
      <4>1. k \in 1 .. m - 1 /\ k + 1 \in 1 .. m
        BY <1>3, <2>3, <3>2
      <4>2. start[k + 1] \in 1 .. n /\ start[k] \in 1 .. n /\ ~ (start[k + 1] <= i)
        BY <1>3, <2>3, <2>4, <4>1
      <4>3. i \in start[k] .. start[k + 1] - 1
        BY <2>3, <4>2
      <4> QED BY <1>3, <4>1, <4>3 DEF Same
    <3> QED BY <3>1, <3>2
  <2> QED BY <2>3, <2>5 DEF k, T
<1> DEFINE last(i) == Max(at(i))
<1>6. \A i \in 1 .. n : last(i) \in 1 .. m /\ s[start[last(i)]] = s[i]
  BY <1>5
<1>7. idxs = [i \in 1 .. n |-> last(i) - 1]
  BY <1>4
<1> HIDE DEF last, idxs
<1>8. \A i \in 1 .. n : idxs[i] \in 0 .. m - 1 /\ idxs[i] + 1 = last(i)
  <2> TAKE i \in 1 .. n
  <2>1. idxs[i] = last(i) - 1 /\ last(i) \in 1 .. m
    BY <1>6, <1>7
  <2> QED BY <1>3, <2>1
<1>9. idxs \in [1 .. n -> 0 .. m - 1]
  BY <1>7, <1>8
<1>10. \A i \in 1 .. n : vals[idxs[i] + 1] = s[i]
  BY <1>2, <1>6, <1>8
<1> QED BY <1>2, <1>3, <1>9, <1>10 DEF vals, idxs, Numbered

\* lengths and vals are the runs of s: they cover it, have one value each, and
\* no two neighbours have the same.
RunsOf(n, s, lengths, vals) ==
  /\ lengths \in Seq(Nat \ {0}) /\ Len(lengths) \in Nat \ {0} /\ Len(vals) = Len(lengths)
  /\ Sums(lengths)[Len(lengths)] = n
  /\ \A k \in 1 .. Len(lengths) : \A i \in Sums(lengths)[k - 1] + 1 .. Sums(lengths)[k] : s[i] = vals[k]
  /\ \A k \in 1 .. Len(lengths) - 1 : vals[k] # vals[k + 1]

\* Those of a column are.
LEMMA LengthsAre ==
  ASSUME NEW n \in Nat \ {0}, NEW A, NEW s \in [1 .. n -> A]
  PROVE  RunsOf(n, s, Lengths(s), RleVals(s))
<1> DEFINE start == RunStarts(s)
           m == Len(start)
           vals == RleVals(s)
           lengths == Lengths(s)
           Next1(k) == IF k = m THEN n + 1 ELSE start[k + 1]
<1>1. Begins(n, s, start) /\ n \in Nat
  BY RunStartsAre
<1>2. Len(vals) = m /\ \A k \in 1 .. m : vals[k] = s[start[k]]
  <2>1. Starts(s) \in SUBSET (1 .. n)
    BY DEF Starts
  <2> DEFINE P == Starts(s)
  <2> HIDE DEF P
  <2>2. /\ Len(ValuesAt(s, P)) = Len(InOrder(s, P))
        /\ \A k \in 1 .. Len(InOrder(s, P)) : ValuesAt(s, P)[k] = s[InOrder(s, P)[k]]
    BY <1>1, <2>1, ValuesAtIs DEF P
  <2>3. start = InOrder(s, P) /\ vals = ValuesAt(s, P)
    BY DEF RleVals, RunStarts, P
  <2> HIDE DEF start, vals
  <2> QED BY <2>2, <2>3
<1> HIDE DEF start, vals
<1>3. /\ m \in 1 .. n /\ DOMAIN start = 1 .. m /\ start[1] = 1
      /\ \A k \in 1 .. m : start[k] \in 1 .. n
      /\ \A j, k \in 1 .. m : j < k => start[j] < start[k]
      /\ \A k \in 1 .. m - 1 : Same(s, start[k], start[k + 1] - 1) /\ s[start[k]] # s[start[k + 1]]
      /\ Same(s, start[m], n)
  BY <1>1 DEF Begins
<1>4. lengths = [k \in 1 .. m |-> Next1(k) - start[k]]
  <2>1. DOMAIN s = 1 .. n /\ Len(s) = n
    OBVIOUS
  <2> QED BY <1>3, <2>1 DEF Lengths, start
<1> HIDE DEF lengths, m
<1>5. \A k \in 1 .. m : Next1(k) \in Nat /\ start[k] < Next1(k) /\ start[k] \in Nat
  <2> TAKE k \in 1 .. m
  <2>1. CASE k = m
    BY <1>3, <2>1
  <2>2. CASE k # m
    <3>1. k + 1 \in 1 .. m /\ k < k + 1
      BY <1>3, <2>2
    <3> QED BY <1>3, <2>2, <3>1
  <2> QED BY <2>1, <2>2
<1>6. \A k \in 1 .. m - 1 : Next1(k) = start[k + 1]
  BY <1>3
<1>7. Next1(m) = n + 1
  OBVIOUS
<1> HIDE DEF Next1
<1>8. \A k \in 1 .. m : lengths[k] = Next1(k) - start[k] /\ lengths[k] \in Nat \ {0}
  BY <1>4, <1>5
<1>9. lengths \in Seq(Nat \ {0}) /\ lengths \in Seq(Int) /\ Len(lengths) = m
  <2>1. DOMAIN lengths = 1 .. m /\ m \in Nat /\ lengths = [k \in 1 .. m |-> lengths[k]]
    BY <1>3, <1>4
  <2> QED BY <1>8, <2>1
<1> DEFINE g == Sums(lengths)
<1>10. g[0] = 0 /\ \A k \in 1 .. m : g[k] = g[k - 1] + lengths[k]
  BY <1>9, SumsSteps DEF SumsBy
<1> HIDE DEF g
<1> DEFINE S == {k \in Nat : k + 1 <= m => g[k] = start[k + 1] - 1}
<1>11. \A k \in 0 .. m - 1 : g[k] = start[k + 1] - 1
  <2>1. 0 \in S
    BY <1>3, <1>10
  <2>2. ASSUME NEW k \in Nat, k \in S PROVE k + 1 \in S
    <3> SUFFICES ASSUME (k + 1) + 1 <= m PROVE g[k + 1] = start[(k + 1) + 1] - 1
      OBVIOUS
    <3>1. k + 1 \in 1 .. m - 1 /\ k + 1 \in 1 .. m /\ (k + 1) - 1 = k /\ k + 1 <= m
      BY <1>3
    <3>2. g[k] = start[k + 1] - 1
      BY <2>2, <3>1
    <3>3. g[k + 1] = g[k] + lengths[k + 1]
      BY <1>10, <3>1
    <3>4. lengths[k + 1] = start[(k + 1) + 1] - start[k + 1]
      BY <1>6, <1>8, <3>1
    <3>5. start[k + 1] \in Int /\ start[(k + 1) + 1] \in Int
      BY <1>3, <3>1
    <3> QED BY <3>2, <3>3, <3>4, <3>5
  <2>3. Nat \subseteq S
    <3> HIDE DEF S
    <3> QED BY <2>1, <2>2, Successors
  <2> TAKE k \in 0 .. m - 1
  <2>4. k \in Nat /\ k + 1 <= m
    BY <1>3
  <2> QED BY <2>3, <2>4
<1> HIDE DEF S
<1>12. ASSUME NEW k \in 1 .. m PROVE g[k - 1] = start[k] - 1 /\ g[k] = Next1(k) - 1
  <2>1. k - 1 \in 0 .. m - 1 /\ (k - 1) + 1 = k
    BY <1>3
  <2>2. g[k - 1] = start[k] - 1
    BY <1>11, <2>1
  <2>3. g[k] = g[k - 1] + lengths[k] /\ lengths[k] = Next1(k) - start[k]
    BY <1>8, <1>10
  <2>4. start[k] \in Nat /\ Next1(k) \in Nat
    BY <1>5
  <2> QED BY <2>2, <2>3, <2>4
<1>13. g[m] = n
  <2>1. m \in 1 .. m
    BY <1>3
  <2>2. g[m] = (n + 1) - 1
    BY <1>7, <1>12, <2>1
  <2> QED BY <2>2
<1>14. ASSUME NEW k \in 1 .. m, NEW i \in g[k - 1] + 1 .. g[k] PROVE s[i] = vals[k]
  <2>1. start[k] \in Nat /\ Next1(k) \in Nat
    BY <1>5
  <2>2. i \in start[k] .. Next1(k) - 1
    BY <1>12, <2>1
  <2>3. CASE k = m
    <3>1. i \in start[m] .. n
      BY <1>7, <2>2, <2>3
    <3> QED BY <1>2, <1>3, <2>3, <3>1 DEF Same
  <2>4. CASE k # m
    <3>1. k \in 1 .. m - 1
      BY <1>3, <2>4
    <3>2. i \in start[k] .. start[k + 1] - 1
      BY <1>6, <2>2, <3>1
    <3> QED BY <1>2, <1>3, <3>1, <3>2 DEF Same
  <2> QED BY <2>3, <2>4
<1>15. \A k \in 1 .. m - 1 : vals[k] # vals[k + 1]
  <2> TAKE k \in 1 .. m - 1
  <2>1. k \in 1 .. m /\ k + 1 \in 1 .. m
    BY <1>3
  <2> QED BY <1>2, <1>3, <2>1
<1>16. Len(lengths) \in Nat \ {0} /\ Len(vals) = Len(lengths)
  BY <1>2, <1>3, <1>9
<1> QED BY <1>9, <1>13, <1>14, <1>15, <1>16 DEF RunsOf, g, lengths, vals

\* Sequences as long as a vector at most.
UpToVector(A) == {x \in Seq(A) : Len(x) <= VecSz}

\* x and a value n times over, as far as there is room.
OneRun(x, n, y) == x \o [i \in 1 .. Min({n, VecSz - Len(x)}) |-> y]

\* g[k] has been taken after k runs.
TakenBy(lengths, vals, start, offset, g) ==
  /\ TakeRuns(lengths, vals, start, offset) = g[Len(lengths)]
  /\ \A k \in 0 .. start - 1 : g[k] = <<>>
  /\ \A k \in start .. Len(lengths) :
       g[k] = OneRun(g[k - 1], lengths[k] - (IF k = start THEN offset ELSE 0), vals[k])

\* A run more still fits a vector.
LEMMA RunTaken ==
  ASSUME NEW A, NEW x \in UpToVector(A), NEW n \in Nat, NEW y \in A,
         NEW m, m = Min({n, VecSz - Len(x)})
  PROVE  /\ m \in Nat /\ m = IF n <= VecSz - Len(x) THEN n ELSE VecSz - Len(x)
         /\ OneRun(x, n, y) \in UpToVector(A) /\ Len(OneRun(x, n, y)) = Len(x) + m
         /\ \A i \in 1 .. Len(x) : OneRun(x, n, y)[i] = x[i]
         /\ \A k \in 1 .. m : OneRun(x, n, y)[Len(x) + k] = y
<1> DEFINE room == VecSz - Len(x)
           run == [i \in 1 .. m |-> y]
<1>1. x \in Seq(A) /\ Len(x) \in Nat /\ Len(x) <= VecSz /\ VecSz \in Nat
  BY SizesAssumption DEF UpToVector
<1>2. room \in Nat /\ Len(x) + room = VecSz
  BY <1>1
<1>3. m = IF n <= room THEN n ELSE room
  <2>1. n \in Int /\ room \in Int
    BY <1>2
  <2> HIDE DEF room
  <2>2. Min({n, room}) = IF n <= room THEN n ELSE room
    BY <2>1, MinOfTwo
  <2> QED BY <2>2 DEF room
<1>4. m \in Nat /\ m <= room
  <2> HIDE DEF room
  <2> QED BY <1>2, <1>3
<1>5. run \in Seq(A) /\ Len(run) = m /\ \A k \in 1 .. m : run[k] = y
  <2>1. run \in [1 .. m -> A] /\ \A k \in 1 .. m : run[k] = y
    OBVIOUS
  <2>2. m \in Nat
    BY <1>4
  <2> HIDE DEF run
  <2>3. run \in Seq(A) /\ Len(run) = m
    BY <2>1, <2>2, FunctionsAreSequences
  <2> QED BY <2>1, <2>3
<1>6. OneRun(x, n, y) = x \o run
  BY DEF OneRun
<1> HIDE DEF run
<1>7. /\ x \o run \in Seq(A) /\ Len(x \o run) = Len(x) + Len(run)
      /\ (\A i \in 1 .. Len(x) : (x \o run)[i] = x[i])
      /\ \A k \in 1 .. Len(run) : (x \o run)[Len(x) + k] = run[k]
  <2>1. x \in Seq(A) /\ run \in Seq(A)
    BY <1>1, <1>5
  <2> QED BY <2>1, Concatenation
<1>8. Len(x) + m <= VecSz
  <2> HIDE DEF room
  <2> QED BY <1>1, <1>2, <1>4
<1>9. x \o run \in UpToVector(A) /\ Len(x \o run) = Len(x) + m
  BY <1>5, <1>7, <1>8 DEF UpToVector
<1>10. \A k \in 1 .. m : (x \o run)[Len(x) + k] = y
  BY <1>5, <1>7
<1> QED BY <1>3, <1>4, <1>6, <1>7, <1>9, <1>10

\* The loop takes one run after the other.
LEMMA TakeSteps ==
  ASSUME NEW A, NEW lengths \in Seq(Nat), NEW vals, \A k \in 1 .. Len(lengths) : vals[k] \in A,
         NEW start \in 1 .. Len(lengths), NEW offset \in 0 .. lengths[start]
  PROVE  \E g \in [0 .. Len(lengths) -> UpToVector(A)] : TakenBy(lengths, vals, start, offset, g)
<1> DEFINE top == Len(lengths)
           S == UpToVector(A)
           Left(k) == lengths[k] - (IF k = start THEN offset ELSE 0)
           Take(k, x) == OneRun(x, Left(k), vals[k])
           Step(k, x) == IF k < start THEN <<>> ELSE Take(k, x)
           F == [p \in (1 .. top) \X S |-> Step(p[1], p[2])]
           Eq(g) == g = [k \in 0 .. top |-> IF k < start THEN <<>> ELSE Take(k, g[k - 1])]
<1>1. /\ top \in Nat /\ start \in 1 .. top /\ <<>> \in S
      /\ \A k \in 1 .. top : vals[k] \in A /\ lengths[k] \in Nat
  <2>1. <<>> \in Seq(A) /\ Len(<<>>) = 0
    OBVIOUS
  <2>2. <<>> \in S
    BY <2>1, SizesAssumption DEF UpToVector
  <2> HIDE DEF S
  <2> QED BY <2>2
<1>2. \A k \in 1 .. top : Left(k) \in Nat
  <2> TAKE k \in 1 .. top
  <2>1. lengths[k] \in Nat
    BY <1>1
  <2>2. CASE k = start
    BY <2>1, <2>2
  <2>3. CASE k # start
    BY <2>1, <2>3
  <2> QED BY <2>2, <2>3
<1> HIDE DEF S, Left
<1>3. ASSUME NEW k \in 1 .. top, NEW x \in S PROVE Step(k, x) \in S
  <2>1. Take(k, x) \in S
    <3>1. Left(k) \in Nat /\ vals[k] \in A
      BY <1>1, <1>2
    <3> QED BY <3>1, RunTaken DEF S
  <2> HIDE DEF Take
  <2> QED BY <1>1, <2>1
<1>4. F \in [(1 .. top) \X S -> S]
  <2> HIDE DEF Step
  <2> QED BY <1>3
<1>5. PICK g \in [0 .. top -> S] : Recursive(top, <<>>, F, g)
  <2> HIDE DEF F, top
  <2> QED BY <1>1, <1>4, Recursion, Zenon
<1>6. g[0] = <<>> /\ \A n \in 1 .. top : g[n] = Step(n, g[n - 1])
  <2> HIDE DEF Step
  <2>1. g[0] = <<>> /\ \A n \in 1 .. top : g[n] = F[<<n, g[n - 1]>>]
    BY <1>5 DEF Recursive
  <2>2. \A n \in 1 .. top : <<n, g[n - 1]>> \in (1 .. top) \X S
    <3> TAKE n \in 1 .. top
    <3>1. n - 1 \in 0 .. top
      BY <1>1
    <3>2. g[n - 1] \in S
      BY <3>1
    <3> QED BY <3>2
  <2>3. \A p \in (1 .. top) \X S : F[p] = Step(p[1], p[2])
    OBVIOUS
  <2> HIDE DEF F
  <2>4. \A n \in 1 .. top : F[<<n, g[n - 1]>>] = Step(n, g[n - 1])
    <3> TAKE n \in 1 .. top
    <3> DEFINE p == <<n, g[n - 1]>>
    <3>1. p \in (1 .. top) \X S /\ p[1] = n /\ p[2] = g[n - 1]
      BY <2>2
    <3> HIDE DEF p
    <3>2. F[p] = Step(n, g[n - 1])
      BY <2>3, <3>1
    <3> QED BY <3>2 DEF p
  <2> QED BY <2>1, <2>4
<1>7. Eq(g)
  <2> HIDE DEF Take, F
  <2>1. g = [k \in 0 .. top |-> g[k]]
    OBVIOUS
  <2>2. \A k \in 0 .. top : g[k] = IF k < start THEN <<>> ELSE Take(k, g[k - 1])
    <3> TAKE k \in 0 .. top
    <3>1. CASE k = 0
      BY <1>1, <1>6, <3>1
    <3>2. CASE k \in 1 .. top
      BY <1>6, <3>2
    <3> QED BY <1>1, <3>1, <3>2
  <2> QED BY <2>1, <2>2
<1>8. TakeRuns(lengths, vals, start, offset) = (CHOOSE h : Eq(h))[top]
  BY Zenon DEF TakeRuns, Left, OneRun
<1> DEFINE h == CHOOSE h : Eq(h)
<1>9. Eq(h)
  <2> HIDE DEF Eq
  <2> QED BY <1>7, Zenon
<1> HIDE DEF h
<1>10. \A k \in 0 .. top : h[k] = IF k < start THEN <<>> ELSE Take(k, h[k - 1])
  <2> HIDE DEF Take
  <2> QED BY <1>9
<1>11. Nat \subseteq {n \in Nat : n <= top => h[n] \in S}
  <2> DEFINE Typed == {n \in Nat : n <= top => h[n] \in S}
  <2>1. 0 \in Typed
    <3>1. 0 \in 0 .. top /\ 0 < start
      BY <1>1
    <3>2. h[0] = <<>>
      BY <1>10, <3>1
    <3> QED BY <1>1, <3>2
  <2>2. ASSUME NEW n \in Nat, n \in Typed PROVE n + 1 \in Typed
    <3> SUFFICES ASSUME n + 1 <= top PROVE h[n + 1] \in S
      OBVIOUS
    <3>1. n + 1 \in 1 .. top /\ n + 1 \in 0 .. top /\ h[n] \in S /\ (n + 1) - 1 = n
      BY <1>1, <2>2
    <3>2. h[n + 1] = Step(n + 1, h[n])
      <4> HIDE DEF Take
      <4> QED BY <1>10, <3>1
    <3> HIDE DEF Step
    <3> QED BY <1>3, <3>1, <3>2
  <2>3. Nat \subseteq Typed
    <3> HIDE DEF Typed
    <3> QED BY <2>1, <2>2, Successors
  <2> QED BY <2>3
<1>12. h \in [0 .. top -> S]
  <2>1. \A n \in 0 .. top : h[n] \in S
    BY <1>1, <1>11
  <2>2. h = [n \in 0 .. top |-> h[n]]
    <3> HIDE DEF Take
    <3> QED BY <1>9
  <2> HIDE DEF top
  <2> QED BY <2>1, <2>2
<1>13. TakeRuns(lengths, vals, start, offset) = h[top]
  BY <1>8 DEF h
<1>14. \A k \in 0 .. start - 1 : h[k] = <<>>
  <2> TAKE k \in 0 .. start - 1
  <2>1. k \in 0 .. top /\ k < start
    BY <1>1
  <2> QED BY <1>10, <2>1
<1>15. \A k \in start .. top : h[k] = Take(k, h[k - 1])
  <2> TAKE k \in start .. top
  <2>1. k \in 0 .. top /\ ~ (k < start)
    BY <1>1
  <2> HIDE DEF Take
  <2> QED BY <1>10, <2>1
<1>16. TakenBy(lengths, vals, start, offset, h)
  BY <1>13, <1>14, <1>15 DEF TakenBy, Left
<1> QED BY <1>12, <1>16 DEF S

\* What is taken of a run after len values is what the vector still needs.
LEMMA TakenCount ==
  ASSUME NEW base \in Nat, NEW before \in Nat, NEW end \in Nat, before <= end, end > base,
         NEW len \in Int, NEW left \in Nat, NEW more,
         more = (IF left <= VecSz - len THEN left ELSE VecSz - len),
         \/ before <= base /\ len = 0 /\ left = end - base
         \/ /\ before > base /\ left = end - before
            /\ len = IF before - base <= VecSz THEN before - base ELSE VecSz
  PROVE  /\ more \in Nat /\ len \in Nat
         /\ len + more = IF end - base <= VecSz THEN end - base ELSE VecSz
         /\ \A i \in 1 .. more : base + (len + i) \in before + 1 .. end
<1>1. VecSz \in Nat \ {0}
  BY SizesAssumption
<1>2. CASE before <= base /\ len = 0 /\ left = end - base
  BY <1>1, <1>2
<1>3. CASE /\ before > base /\ left = end - before
           /\ len = IF before - base <= VecSz THEN before - base ELSE VecSz
  <2>1. CASE before - base <= VecSz
    BY <1>1, <1>3, <2>1
  <2>2. CASE ~ (before - base <= VecSz)
    <3>1. len = VecSz /\ more = 0
      BY <1>1, <1>3, <2>2
    <3> QED BY <1>1, <1>3, <2>2, <3>1
  <2> QED BY <2>1, <2>2
<1> QED BY <1>2, <1>3

\* A vector is taken from the runs it lies in.
LEMMA RangeRecovers ==
  ASSUME NEW n \in Nat \ {0}, NEW A, NEW s \in [1 .. n -> A], NEW lengths, NEW vals,
         RunsOf(n, s, lengths, vals), NEW v \in Nat, v * VecSz + VecSz <= n
  PROVE  /\ DecodeRleRange(lengths, vals, v) \in Seq(A)
         /\ Len(DecodeRleRange(lengths, vals, v)) = VecSz
         /\ \A i \in 1 .. VecSz : DecodeRleRange(lengths, vals, v)[i] = s[v * VecSz + i]
<1> DEFINE base == v * VecSz
           g == Sums(lengths)
           m == Len(lengths)
           beyond == {k \in 1 .. m : g[k] > base}
           start == FindRleSegment(lengths, v)
           offset == base - g[start - 1]
<1>1. VecSz \in Nat \ {0} /\ base \in Nat /\ base + VecSz <= n
  BY SizesAssumption
<1> HIDE DEF base
<1>2. /\ lengths \in Seq(Nat) /\ m \in Nat \ {0} /\ DOMAIN lengths = 1 .. m /\ lengths \in Seq(Int)
      /\ \A k \in 1 .. m : lengths[k] \in Nat \ {0}
  <2>1. lengths \in Seq(Nat \ {0}) /\ m \in Nat \ {0}
    BY DEF RunsOf
  <2>2. DOMAIN lengths = 1 .. m /\ \A k \in 1 .. m : lengths[k] \in Nat \ {0}
    BY <2>1
  <2>3. lengths \in Seq(Nat) /\ lengths \in Seq(Int)
    BY <2>1
  <2> QED BY <2>1, <2>2, <2>3
<1>3. /\ g \in [0 .. m -> Nat] /\ g[0] = 0 /\ \A k \in 1 .. m : g[k] = g[k - 1] + lengths[k]
      /\ \A j \in 0 .. m, k \in 0 .. m : j <= k => g[j] <= g[k]
  BY <1>2, SumsSteps, SumsGrow DEF SumsBy
<1>4. g[m] = n /\ \A k \in 1 .. m : \A i \in g[k - 1] + 1 .. g[k] : s[i] = vals[k]
  BY DEF RunsOf
<1> HIDE DEF g, m
<1>5. \A k \in 1 .. m : g[k] \in Nat /\ g[k - 1] \in Nat /\ g[k] \in g[k - 1] + 1 .. g[k] /\ g[k] \in 1 .. n
  <2> TAKE k \in 1 .. m
  <2>1. k \in 0 .. m /\ k - 1 \in 0 .. m /\ m \in 0 .. m /\ k <= m
    BY <1>2
  <2>2. g[k] \in Nat /\ g[k - 1] \in Nat /\ g[k] <= g[m]
    BY <1>3, <2>1
  <2>3. g[k] = g[k - 1] + lengths[k] /\ lengths[k] \in Nat \ {0}
    BY <1>2, <1>3
  <2> QED BY <1>4, <2>2, <2>3
<1>6. \A k \in 1 .. m : vals[k] \in A
  BY <1>4, <1>5
<1>7. start \in 1 .. m /\ g[start] > base /\ g[start - 1] <= base
  <2>1. IsFiniteSet(beyond) /\ beyond \in SUBSET Int /\ beyond # {}
    <3>1. IsFiniteSet(1 .. m) /\ beyond \in SUBSET (1 .. m)
      BY <1>2, FS_Interval
    <3>2. m \in beyond
      BY <1>1, <1>2, <1>4
    <3> HIDE DEF beyond
    <3>3. IsFiniteSet(beyond)
      BY <3>1, FS_Subset
    <3>4. \A x \in beyond : x \in Int
      BY <3>1
    <3> QED BY <3>2, <3>3, <3>4
  <2>2. Min(beyond) \in beyond /\ \A y \in beyond : Min(beyond) <= y
    <3> HIDE DEF beyond
    <3> QED BY <2>1, MinIs
  <2>3. start = Min(beyond)
    <3>1. beyond = {k \in DOMAIN lengths : Sums(lengths)[k] > v * VecSz}
      BY <1>2 DEF g, base
    <3> HIDE DEF beyond
    <3> QED BY <2>1, <3>1 DEF FindRleSegment
  <2> HIDE DEF start
  <2>4. start \in 1 .. m /\ g[start] > base
    BY <2>2, <2>3
  <2>5. CASE start = 1
    BY <1>1, <1>3, <2>4, <2>5
  <2>6. CASE start # 1
    <3>1. start - 1 \in 1 .. m /\ ~ (start <= start - 1)
      BY <1>2, <2>4, <2>6
    <3>2. start - 1 \notin beyond
      <4> HIDE DEF beyond
      <4> QED BY <2>2, <2>3, <3>1
    <3>3. ~ (g[start - 1] > base)
      BY <3>1, <3>2
    <3>4. g[start - 1] \in Nat
      BY <1>5, <3>1
    <3> QED BY <1>1, <2>4, <3>3, <3>4
  <2> QED BY <2>4, <2>5, <2>6
<1> HIDE DEF start
<1>8. offset \in 0 .. lengths[start] /\ lengths[start] - offset = g[start] - base
  <2>1. g[start] \in Nat /\ g[start - 1] \in Nat /\ g[start] = g[start - 1] + lengths[start] /\ lengths[start] \in Nat
    BY <1>2, <1>3, <1>5, <1>7
  <2> QED BY <1>1, <1>7, <2>1
<1>9. DecodeRleRange(lengths, vals, v) = TakeRuns(lengths, vals, start, offset)
  BY Zenon DEF DecodeRleRange, start, offset, base, g
<1> HIDE DEF offset
<1>10. PICK h \in [0 .. m -> UpToVector(A)] : TakenBy(lengths, vals, start, offset, h)
  <2>1. \A k \in 1 .. Len(lengths) : vals[k] \in A
    BY <1>6 DEF m
  <2>2. start \in 1 .. Len(lengths)
    BY <1>7 DEF m
  <2> QED BY <1>2, <1>8, <2>1, <2>2, TakeSteps DEF m
<1> DEFINE Left(k) == lengths[k] - (IF k = start THEN offset ELSE 0)
<1>11. /\ TakeRuns(lengths, vals, start, offset) = h[m]
       /\ \A k \in 0 .. start - 1 : h[k] = <<>>
       /\ \A k \in start .. m : h[k] = OneRun(h[k - 1], Left(k), vals[k])
  BY <1>10 DEF TakenBy, m
<1>12. \A k \in start .. m : /\ k \in 1 .. m /\ Left(k) \in Nat
                             /\ k = start => Left(k) = g[k] - base
                             /\ k # start => Left(k) = g[k] - g[k - 1]
  <2> TAKE k \in start .. m
  <2>1. k \in 1 .. m
    BY <1>7
  <2>2. lengths[k] \in Nat /\ g[k] = g[k - 1] + lengths[k] /\ g[k] \in Nat /\ g[k - 1] \in Nat
    BY <1>2, <1>3, <1>5, <2>1
  <2>3. CASE k = start
    <3>1. Left(k) = lengths[start] - offset
      BY <2>3
    <3>2. lengths[start] - offset \in Nat
      <4>1. lengths[start] \in Nat
        BY <1>2, <1>7
      <4> QED BY <1>8, <4>1
    <3> HIDE DEF Left
    <3> QED BY <1>8, <2>1, <2>3, <3>1, <3>2
  <2>4. CASE k # start
    <3>1. Left(k) = lengths[k] - 0
      BY <2>4
    <3> HIDE DEF Left
    <3> QED BY <2>1, <2>2, <2>4, <3>1
  <2> QED BY <2>3, <2>4
<1> HIDE DEF Left
<1> DEFINE L(k) == IF k < start THEN 0 ELSE IF g[k] - base <= VecSz THEN g[k] - base ELSE VecSz
           Good(k) == Len(h[k]) = L(k) /\ \A i \in 1 .. L(k) : h[k][i] = s[base + i]
           S == {k \in Nat : k <= m => Good(k)}
<1>13. \A k \in 0 .. m : k < start => Good(k)
  <2> TAKE k \in 0 .. m
  <2> SUFFICES ASSUME k < start PROVE Good(k)
    OBVIOUS
  <2>1. k \in 0 .. start - 1
    BY <1>7
  <2>2. h[k] = <<>>
    BY <1>11, <2>1
  <2>3. L(k) = 0
    OBVIOUS
  <2> HIDE DEF L
  <2>4. Len(h[k]) = 0
    BY <2>2
  <2> QED BY <2>3, <2>4
<1>14. 0 \in S
  <2>1. 0 \in 0 .. m /\ 0 < start
    BY <1>2, <1>7
  <2> HIDE DEF Good
  <2> QED BY <1>13, <2>1
<1>15. ASSUME NEW k \in Nat, k \in S PROVE k + 1 \in S
  <2> SUFFICES ASSUME k + 1 <= m PROVE Good(k + 1)
    OBVIOUS
  <2> DEFINE e == k + 1
  <2>1. e \in 1 .. m /\ e \in 0 .. m /\ k \in 0 .. m /\ e - 1 = k /\ Good(k)
    BY <1>2, <1>15
  <2>2. CASE e < start
    <3> HIDE DEF Good, e
    <3>1. Good(e)
      BY <1>13, <2>1, <2>2
    <3> QED BY <3>1 DEF e
  <2>3. CASE ~ (e < start)
    <3>1. e \in start .. m
      BY <1>7, <2>1, <2>3
    <3> DEFINE left == Left(e)
               len == L(k)
               x == h[k]
               more == Min({left, VecSz - Len(x)})
               y == OneRun(x, left, vals[e])
    <3>2. h[e] = y
      BY <1>11, <2>1, <3>1
    <3>3. left \in Nat /\ x \in UpToVector(A) /\ vals[e] \in A
      BY <1>6, <1>12, <2>1, <3>1
    <3>4. Len(x) = len /\ \A i \in 1 .. len : x[i] = s[base + i]
      BY <2>1
    <3>5. /\ g[e] \in Nat /\ g[k] \in Nat /\ g[k] <= g[e] /\ g[e] > base
          /\ len = IF k < start THEN 0 ELSE IF g[k] - base <= VecSz THEN g[k] - base ELSE VecSz
          /\ L(e) = IF g[e] - base <= VecSz THEN g[e] - base ELSE VecSz
      <4>1. start \in 0 .. m /\ start <= e
        BY <1>7, <2>1, <3>1
      <4>2. g[start] <= g[e] /\ g[k] <= g[e]
        BY <1>3, <2>1, <4>1
      <4>3. g[e] \in Nat /\ g[k] \in Nat /\ g[start] \in Nat
        BY <1>3, <2>1, <4>1
      <4>4. L(e) = IF g[e] - base <= VecSz THEN g[e] - base ELSE VecSz
        BY <2>3
      <4> HIDE DEF e, L
      <4>5. g[e] > base
        BY <1>1, <1>7, <4>2, <4>3
      <4> QED BY <4>2, <4>3, <4>4, <4>5 DEF L
    <3>6. /\ e = start => left = g[e] - base /\ k < start /\ g[k] <= base
          /\ e # start => left = g[e] - g[k] /\ ~ (k < start) /\ g[k] > base
      <4>1. e = start => left = g[e] - base /\ k < start /\ g[k] <= base
        <5> SUFFICES ASSUME e = start PROVE left = g[e] - base /\ k < start /\ g[k] <= base
          OBVIOUS
        <5>1. left = g[e] - base
          BY <1>12, <3>1
        <5>2. start - 1 = k /\ k < start
          BY <2>1
        <5> HIDE DEF e, left
        <5> QED BY <1>7, <5>1, <5>2
      <4>2. e # start => left = g[e] - g[k] /\ ~ (k < start) /\ g[k] > base
        <5> SUFFICES ASSUME e # start PROVE left = g[e] - g[k] /\ ~ (k < start) /\ g[k] > base
          OBVIOUS
        <5>1. left = g[e] - g[e - 1]
          BY <1>12, <3>1
        <5>2. start <= k /\ start \in 0 .. m
          BY <1>7, <2>1, <3>1
        <5>3. g[start] <= g[k] /\ g[start] \in Nat
          BY <1>3, <2>1, <5>2
        <5>4. g[k] > base
          BY <1>1, <1>7, <3>5, <5>3
        <5> HIDE DEF e, left
        <5> QED BY <1>7, <2>1, <5>1, <5>2, <5>4
      <4> QED BY <4>1, <4>2
    <3> HIDE DEF e, left, len, x, y
    <3>7. more = IF left <= VecSz - Len(x) THEN left ELSE VecSz - Len(x)
      <4> DEFINE room == VecSz - Len(x)
      <4>1. left \in Int /\ room \in Int
        BY <1>1, <3>3 DEF UpToVector
      <4>2. more = Min({left, room})
        OBVIOUS
      <4> HIDE DEF room, more
      <4>3. more = IF left <= room THEN left ELSE room
        BY <4>1, <4>2, MinOfTwo
      <4> QED BY <4>3 DEF room
    <3>8. /\ more \in Nat /\ Len(y) = Len(x) + more
          /\ \A i \in 1 .. Len(x) : y[i] = x[i]
          /\ \A i \in 1 .. more : y[Len(x) + i] = vals[e]
      BY <3>3, RunTaken DEF y
    <3> HIDE DEF more
    <3>9. len \in Int /\ more = IF left <= VecSz - len THEN left ELSE VecSz - len
      <4>1. len \in Int
        BY <1>1, <3>5
      <4> QED BY <3>4, <3>7, <4>1, Zenon
    <3> HIDE DEF L
    <3> DEFINE before == g[k]
               end == g[e]
    <3>10. /\ more \in Nat /\ len \in Nat
           /\ len + more = IF end - base <= VecSz THEN end - base ELSE VecSz
           /\ \A i \in 1 .. more : base + (len + i) \in before + 1 .. end
      <4>1. \/ before <= base /\ len = 0 /\ left = end - base
            \/ /\ before > base /\ left = end - before
               /\ len = IF before - base <= VecSz THEN before - base ELSE VecSz
        <5>1. CASE e = start
          BY <3>5, <3>6, <5>1
        <5>2. CASE e # start
          BY <3>5, <3>6, <5>2
        <5> QED BY <5>1, <5>2
      <4>2. before \in Nat /\ end \in Nat /\ before <= end /\ end > base
        BY <3>5
      <4> HIDE DEF before, end
      <4> QED BY <1>1, <3>3, <3>9, <4>1, <4>2, TakenCount
    <3>11. Len(y) = L(e) /\ Len(y) = len + more
      BY <3>4, <3>5, <3>8, <3>10
    <3>12. ASSUME NEW i \in 1 .. L(e) PROVE y[i] = s[base + i]
      <4>1. CASE i <= len
        BY <3>4, <3>8, <3>10, <4>1
      <4>2. CASE ~ (i <= len)
        <5>1. i - len \in 1 .. more /\ len + (i - len) = i
          BY <3>10, <3>11, <4>2
        <5>2. y[i] = vals[e]
          BY <3>4, <3>8, <5>1
        <5>3. base + i \in g[e - 1] + 1 .. g[e]
          <6>1. base + (len + (i - len)) \in g[k] + 1 .. g[e]
            BY <3>10, <5>1
          <6> QED BY <2>1, <5>1, <6>1
        <5> QED BY <1>4, <2>1, <5>2, <5>3
      <4> QED BY <4>1, <4>2
    <3>13. Good(e)
      BY <3>2, <3>11, <3>12
    <3> HIDE DEF Good
    <3> QED BY <3>13 DEF e
  <2> QED BY <2>2, <2>3
<1>16. Nat \subseteq S
  <2> HIDE DEF S
  <2> QED BY <1>14, <1>15, Successors
<1>17. Good(m)
  <2>1. m \in Nat /\ m <= m
    BY <1>2
  <2> HIDE DEF Good
  <2> QED BY <1>16, <2>1
<1>18. L(m) = VecSz
  <2>1. ~ (m < start)
    BY <1>2, <1>7
  <2> QED BY <1>1, <1>4, <2>1
<1>19. h[m] \in Seq(A)
  <2>1. m \in 0 .. m
    BY <1>2
  <2>2. h[m] \in UpToVector(A)
    BY <1>10, <2>1
  <2> QED BY <2>2 DEF UpToVector
<1>20. Len(h[m]) = VecSz /\ \A i \in 1 .. VecSz : h[m][i] = s[base + i]
  <2> HIDE DEF L
  <2> QED BY <1>17, <1>18
<1>21. DecodeRleRange(lengths, vals, v) = h[m]
  BY <1>9, <1>11
<1> QED BY <1>19, <1>20, <1>21 DEF base

-----------------------------------------------------------------------------
(* Strings *)

\* Where a string begins and ends, its bytes are.
LEMMA PieceIs ==
  ASSUME NEW A, NEW ss \in Seq(Seq(A)), NEW k \in 1 .. Len(ss), NEW from, NEW to,
         from = Sums(LengthsOf(ss))[k - 1], to = Sums(LengthsOf(ss))[k]
  PROVE  Between(Bytes(ss), from, to) = ss[k]
<1> DEFINE lens == LengthsOf(ss)
           n == Len(ss)
           s == ss[k]
           b == Bytes(ss)
<1>1. n \in Nat /\ k \in 1 .. n /\ k - 1 \in 0 .. n /\ k \in 0 .. n /\ s \in Seq(A) /\ Len(s) \in Nat
  OBVIOUS
<1>2. lens \in Seq(Nat) /\ lens \in Seq(Int) /\ Len(lens) = n /\ lens[k] = Len(s)
  <2>1. lens \in [1 .. n -> Nat]
    BY DEF LengthsOf
  <2>2. lens[k] = Len(s)
    BY DEF LengthsOf
  <2> HIDE DEF lens, s
  <2>3. lens \in Seq(Nat) /\ Len(lens) = n
    BY <1>1, <2>1, FunctionsAreSequences
  <2> QED BY <2>2, <2>3
<1>3. from \in Int /\ to = from + Len(s)
  <2>1. Sums(lens) \in [0 .. n -> Int] /\ Sums(lens)[k] = Sums(lens)[k - 1] + lens[k]
    <3> HIDE DEF lens
    <3> QED BY <1>1, <1>2, SumsSteps DEF SumsBy
  <2> HIDE DEF lens
  <2>2. Sums(lens)[k - 1] \in Int
    BY <1>1, <2>1
  <2> QED BY <1>2, <2>1, <2>2 DEF lens
<1>4. \A i \in 1 .. Len(s) : b[from + i] = s[i]
  <2>1. Tiled(ss, n, b)
    BY JoinedFacts DEF Bytes
  <2> QED BY <2>1 DEF Tiled
<1> HIDE DEF s, b
<1>5. to - from = Len(s)
  BY <1>1, <1>3
<1>6. Between(b, from, to) = [i \in 1 .. Len(s) |-> b[from + i]]
  BY <1>5, Zenon DEF Between
<1>7. [i \in 1 .. Len(s) |-> b[from + i]] = [i \in 1 .. Len(s) |-> s[i]]
  BY <1>4
<1>8. s = [i \in 1 .. Len(s) |-> s[i]]
  BY <1>1
<1> QED BY <1>6, <1>7, <1>8, Zenon DEF s, b

\* Strings are had back from their bytes and where they end.
Unjoined(ss) ==
  /\ Ends(ss) \in Seq(Nat) /\ Len(Ends(ss)) = Len(ss)
  /\ \A k \in 0 .. Len(ss) - 1 : Slice(Bytes(ss), Ends(ss), k) = ss[k + 1]
  /\ \A k \in 0 .. Len(ss) - 1 : SliceFromZero(Bytes(ss), <<0>> \o Ends(ss), k) = ss[k + 1]
  /\ AllStrings(Bytes(ss), Ends(ss)) = ss
  /\ LengthsOf(ss) \in Seq(Nat) /\ Len(LengthsOf(ss)) = Len(ss)
  /\ Sums(LengthsOf(ss))[Len(ss)] = Len(Bytes(ss))

\* That holds for all strings.
LEMMA UnjoinedIs ==
  ASSUME NEW A, NEW ss \in Seq(Seq(A))
  PROVE  Unjoined(ss)
<1> DEFINE lens == LengthsOf(ss)
           n == Len(ss)
           g == Sums(lens)
           ends == Ends(ss)
           off == <<0>> \o ends
<1>1. n \in Nat /\ lens \in Seq(Nat) /\ lens \in Seq(Int) /\ Len(lens) = n
  <2>1. n \in Nat /\ lens \in [1 .. n -> Nat]
    BY DEF LengthsOf
  <2> HIDE DEF lens, n
  <2>2. lens \in Seq(Nat) /\ Len(lens) = n
    BY <2>1, FunctionsAreSequences
  <2> QED BY <2>1, <2>2
<1>2. g \in [0 .. n -> Nat] /\ g[0] = 0
  <2> HIDE DEF lens
  <2> QED BY <1>1, SumsSteps, SumsGrow DEF SumsBy
<1>3. ends = [k \in 1 .. n |-> g[k]]
  <2>1. DOMAIN lens = 1 .. n
    <3> HIDE DEF lens
    <3> QED BY <1>1
  <2> HIDE DEF lens, n
  <2> QED BY <2>1 DEF Ends, EndsOf, lens
<1>4. g[n] = Len(Bytes(ss))
  <2>1. Tiled(ss, n, Bytes(ss))
    BY JoinedFacts DEF Bytes
  <2> QED BY <2>1 DEF Tiled
<1>5. \A k \in 1 .. n : \A from, to : from = g[k - 1] /\ to = g[k] => Between(Bytes(ss), from, to) = ss[k]
  BY PieceIs
<1> HIDE DEF g, ends
<1>6. ends \in Seq(Nat) /\ Len(ends) = n
  <2>1. ends \in [1 .. n -> Nat]
    BY <1>1, <1>2, <1>3
  <2> QED BY <1>1, <2>1, FunctionsAreSequences
<1>7. ASSUME NEW k \in 0 .. n - 1
      PROVE  Slice(Bytes(ss), ends, k) = ss[k + 1]
  <2> DEFINE from == IF k = 0 THEN 0 ELSE ends[k]
             to == ends[k + 1]
  <2>1. k + 1 \in 1 .. n /\ (k + 1) - 1 = k /\ k \in 0 .. n /\ (k # 0 => k \in 1 .. n)
    BY <1>1
  <2>2. from = g[k] /\ to = g[k + 1]
    BY <1>2, <1>3, <2>1
  <2>3. Slice(Bytes(ss), ends, k) = Between(Bytes(ss), from, to)
    BY Zenon DEF Slice
  <2> HIDE DEF from, to
  <2>4. Between(Bytes(ss), from, to) = ss[k + 1]
    BY <1>5, <2>1, <2>2
  <2> QED BY <2>3, <2>4
<1>8. ASSUME NEW k \in 0 .. n - 1
      PROVE  SliceFromZero(Bytes(ss), off, k) = ss[k + 1]
  <2> DEFINE from == off[k + 1]
             to == off[k + 2]
  <2>1. k + 1 \in 1 .. n /\ (k + 1) - 1 = k /\ k \in 0 .. n /\ (k # 0 => k \in 1 .. n)
    BY <1>1
  <2>2. off[1] = 0 /\ \A j \in 1 .. n : off[j + 1] = ends[j]
    <3>1. <<0>> \in Seq(Nat) /\ Len(<<0>>) = 1 /\ <<0>>[1] = 0
      OBVIOUS
    <3>2. /\ \A i \in 1 .. Len(<<0>>) : off[i] = <<0>>[i]
          /\ \A j \in 1 .. Len(ends) : off[Len(<<0>>) + j] = ends[j]
      <4>1. ends \in Seq(Nat)
        BY <1>6
      <4> QED BY <3>1, <4>1, Concatenation
    <3>3. \A j \in 1 .. n : off[1 + j] = ends[j]
      BY <1>6, <3>1, <3>2
    <3>4. \A j \in 1 .. n : 1 + j = j + 1
      BY <1>1
    <3>5. off[1] = 0
      <4> HIDE DEF off
      <4> QED BY <3>1, <3>2
    <3> HIDE DEF off
    <3> QED BY <3>3, <3>4, <3>5
  <2> HIDE DEF off
  <2>3. to = g[k + 1]
    <3>1. k + 2 = (k + 1) + 1
      BY <2>1
    <3>2. off[(k + 1) + 1] = ends[k + 1]
      BY <2>1, <2>2
    <3>3. ends[k + 1] = g[k + 1]
      BY <1>3, <2>1
    <3> QED BY <3>1, <3>2, <3>3
  <2>4. from = g[k]
    <3>1. CASE k = 0
      BY <1>2, <2>2, <3>1
    <3>2. CASE k # 0
      <4>1. k \in 1 .. n
        BY <2>1, <3>2
      <4> QED BY <1>3, <2>2, <4>1
    <3> QED BY <3>1, <3>2
  <2>5. SliceFromZero(Bytes(ss), off, k) = Between(Bytes(ss), from, to)
    BY Zenon DEF SliceFromZero
  <2> HIDE DEF from, to
  <2>6. Between(Bytes(ss), from, to) = ss[k + 1]
    BY <1>5, <2>1, <2>3, <2>4
  <2> QED BY <2>5, <2>6
<1>9. AllStrings(Bytes(ss), ends) = ss
  <2>1. DOMAIN ends = 1 .. n /\ ss = [k \in 1 .. n |-> ss[k]]
    BY <1>6
  <2>2. \A k \in 1 .. n : Slice(Bytes(ss), ends, k - 1) = ss[k]
    <3> TAKE k \in 1 .. n
    <3>1. k - 1 \in 0 .. n - 1 /\ (k - 1) + 1 = k
      BY <1>1
    <3>2. \A j \in 0 .. n - 1 : Slice(Bytes(ss), ends, j) = ss[j + 1]
      BY <1>7
    <3>3. Slice(Bytes(ss), ends, k - 1) = ss[(k - 1) + 1]
      BY <3>1, <3>2
    <3> QED BY <3>1, <3>3
  <2>3. AllStrings(Bytes(ss), ends) = [k \in 1 .. n |-> Slice(Bytes(ss), ends, k - 1)]
    BY <2>1, Zenon DEF AllStrings
  <2>4. [k \in 1 .. n |-> Slice(Bytes(ss), ends, k - 1)] = [k \in 1 .. n |-> ss[k]]
    BY <2>2
  <2> QED BY <2>1, <2>3, <2>4, Zenon
<1> QED BY <1>1, <1>4, <1>6, <1>7, <1>8, <1>9 DEF Unjoined, g, ends

-----------------------------------------------------------------------------
(* Keys and frequent values *)

\* keys are values of d, and each has its index.
KeysOf(n, A, d) ==
  /\ Keys(d) \in Seq(A)
  /\ \A i \in 1 .. n : /\ KeyOf(d, d[i]) \in 0 .. Len(Keys(d)) - 1
                       /\ Keys(d)[KeyOf(d, d[i]) + 1] = d[i]

\* The keys of a column are.
LEMMA KeysAre ==
  ASSUME NEW n \in Nat, NEW A, NEW d \in [1 .. n -> A]
  PROVE  KeysOf(n, A, d)
<1> DEFINE P == {i \in 1 .. n : \A j \in 1 .. i - 1 : d[j] # d[i]}
           t == InOrder(d, P)
           keys == Keys(d)
<1>1. DOMAIN d = 1 .. n /\ P \in SUBSET (1 .. n) /\ P \in SUBSET Int
  <2>1. P \in SUBSET (1 .. n)
    OBVIOUS
  <2> HIDE DEF P
  <2>2. \A p \in P : p \in Int
    BY <2>1
  <2> QED BY <2>1, <2>2
<1>2. keys = ValuesAt(d, P)
  BY <1>1, Zenon DEF Keys
<1>3. Ordered(t, P)
  <2> HIDE DEF P
  <2> QED BY <1>1, InOrderIs
<1>4. /\ Len(t) \in Nat
      /\ \A p \in P : \E k \in 1 .. Len(t) : t[k] = p
  <2> HIDE DEF P, t
  <2> QED BY <1>1, <1>3, OrderedIs
<1>5. keys \in Seq(A) /\ Len(keys) = Len(t) /\ \A k \in 1 .. Len(t) : keys[k] = d[t[k]]
  <2> HIDE DEF P
  <2> QED BY <1>1, <1>2, ValuesAtIs
<1>6. ASSUME NEW i \in 1 .. n
      PROVE  \E k \in DOMAIN keys : keys[k] = d[i]
  <2> DEFINE T == {j \in 1 .. n : d[j] = d[i]}
  <2>1. T \in SUBSET Nat /\ T # {}
    <3>1. i \in T
      OBVIOUS
    <3>2. \A j \in T : j \in Nat
      OBVIOUS
    <3> HIDE DEF T
    <3> QED BY <3>1, <3>2
  <2>2. PICK j \in T : \A k \in T : j <= k
    <3> HIDE DEF T
    <3> QED BY <2>1, LeastElement
  <2>3. j \in P
    <3>1. j \in 1 .. n /\ d[j] = d[i]
      OBVIOUS
    <3>2. ASSUME NEW k \in 1 .. j - 1, d[k] = d[j] PROVE FALSE
      <4>1. k \in T /\ ~ (j <= k)
        BY <3>1, <3>2
      <4> HIDE DEF T
      <4> QED BY <2>2, <4>1
    <3> QED BY <3>1, <3>2
  <2> HIDE DEF P
  <2>4. PICK k \in 1 .. Len(t) : t[k] = j
    BY <1>4, <2>3
  <2> HIDE DEF t
  <2>5. keys[k] = d[j] /\ d[j] = d[i] /\ k \in 1 .. Len(keys)
    BY <1>5, <2>4
  <2> HIDE DEF keys
  <2>6. k \in DOMAIN keys
    BY <1>5, <2>5
  <2> QED BY <2>5, <2>6
<1>7. ASSUME NEW i \in 1 .. n
      PROVE  KeyOf(d, d[i]) \in 0 .. Len(keys) - 1 /\ keys[KeyOf(d, d[i]) + 1] = d[i]
  <2> DEFINE k == CHOOSE k \in DOMAIN keys : keys[k] = d[i]
  <2>1. KeyOf(d, d[i]) = k - 1
    BY DEF KeyOf
  <2> HIDE DEF keys
  <2>2. k \in DOMAIN keys /\ keys[k] = d[i]
    BY <1>6
  <2> HIDE DEF k
  <2>3. k \in 1 .. Len(keys) /\ Len(keys) \in Nat
    BY <1>5, <2>2
  <2>4. k - 1 \in 0 .. Len(keys) - 1 /\ (k - 1) + 1 = k
    BY <2>3
  <2> QED BY <2>1, <2>2, <2>4
<1> QED BY <1>5, <1>7 DEF KeysOf

\* The keys of d, and the indexes of the values of s, which lead to them.
KeyIndexes(A, d, s) ==
  /\ Keys(d) \in Seq(A)
  /\ DictOf(d, s) \in [1 .. VecSz -> 0 .. Len(Keys(d)) - 1]
  /\ \A i \in 1 .. VecSz : Keys(d)[DictOf(d, s)[i] + 1] = s[i]

\* That is how the values of a vector are stored.
LEMMA DictIs ==
  ASSUME NEW n \in Nat, NEW A, NEW d \in [1 .. n -> A], NEW s, DOMAIN s = 1 .. VecSz,
         \A i \in 1 .. VecSz : \E j \in 1 .. n : s[i] = d[j]
  PROVE  KeyIndexes(A, d, s)
<1>1. KeysOf(n, A, d)
  BY KeysAre
<1>2. DictOf(d, s) = [i \in 1 .. VecSz |-> KeyOf(d, s[i])]
  BY Zenon DEF DictOf
<1>3. \A i \in 1 .. VecSz : /\ KeyOf(d, s[i]) \in 0 .. Len(Keys(d)) - 1
                            /\ Keys(d)[KeyOf(d, s[i]) + 1] = s[i]
  <2> TAKE i \in 1 .. VecSz
  <2>1. PICK j \in 1 .. n : s[i] = d[j]
    OBVIOUS
  <2> QED BY <1>1, <2>1, Zenon DEF KeysOf
<1> DEFINE m == Len(Keys(d)) - 1
<1> HIDE DEF m
<1>4. DictOf(d, s) \in [1 .. VecSz -> 0 .. m]
  <2>1. \A i \in 1 .. VecSz : KeyOf(d, s[i]) \in 0 .. m
    BY <1>3 DEF m
  <2> QED BY <1>2, <2>1
<1>5. \A i \in 1 .. VecSz : Keys(d)[DictOf(d, s)[i] + 1] = s[i]
  BY <1>2, <1>3
<1> QED BY <1>1, <1>4, <1>5 DEF KeysOf, m, KeyIndexes

\* Some value is the most frequent, and is one of the column.
LEMMA MostFrequentIs ==
  ASSUME NEW n \in Nat \ {0}, NEW A, NEW c, NEW d, d = Data(c), d \in [1 .. n -> A]
  PROVE  MostFrequent(c) \in A
<1>1. CASE IsString(c)
  <2>1. MostFrequent(c) = d[1]
    BY <1>1 DEF MostFrequent
  <2> QED BY <2>1
<1>2. CASE ~ IsString(c)
  <2> DEFINE R == Range(d)
             occ(x) == Occurrences(d, x)
             count == [x \in R |-> 0 - Cardinality(occ(x))]
             last == [x \in R |-> Max(occ(x))]
             First(x) == \A y \in R \ {x} :
                           \/ Cardinality(occ(x)) > Cardinality(occ(y))
                           \/ Cardinality(occ(x)) = Cardinality(occ(y)) /\ Max(occ(x)) < Max(occ(y))
  <2>1. IsFiniteSet(R) /\ R \subseteq A /\ R # {}
    <3>1. d \in Seq(A) /\ Len(d) = n
      BY FunctionsAreSequences
    <3>2. d # <<>>
      BY <3>1
    <3> HIDE DEF R
    <3>3. IsFiniteSet(Range(d)) /\ Range(d) \subseteq A /\ (d # <<>> => Range(d) # {})
      BY <3>1, RangeFinite
    <3> QED BY <3>2, <3>3 DEF R
  <2>2. \A x \in R : /\ Cardinality(occ(x)) \in Nat
                     /\ Max(occ(x)) \in Int
                     /\ d[Max(occ(x))] = x
    <3> TAKE x \in R
    <3>1. occ(x) \in SUBSET (1 .. n)
      BY DEF Occurrences
    <3>2. IsFiniteSet(occ(x)) /\ Cardinality(occ(x)) \in Nat
      <4>1. IsFiniteSet(1 .. n)
        BY FS_Interval
      <4> HIDE DEF occ
      <4> QED BY <3>1, <4>1, FS_Subset, FS_CardinalityType
    <3>3. occ(x) # {}
      <4>1. PICK i \in DOMAIN d : d[i] = x
        BY DEF Range
      <4> QED BY <4>1 DEF Occurrences
    <3>4. Max(occ(x)) \in occ(x) /\ occ(x) \in SUBSET Int
      <4> HIDE DEF occ
      <4>1. \A i \in occ(x) : i \in Int
        BY <3>1
      <4>2. occ(x) \in SUBSET Int
        BY <4>1
      <4> QED BY <3>2, <3>3, <4>2, MaxIs
    <3>5. d[Max(occ(x))] = x
      BY <3>4 DEF Occurrences
    <3> HIDE DEF occ
    <3> QED BY <3>2, <3>4, <3>5
  <2> HIDE DEF occ, R
  <2>3. PICK a \in R : \A y \in R : count[a] <= count[y]
    <3>1. count \in [R -> Int]
      BY <2>2
    <3> HIDE DEF count
    <3> QED BY <2>1, <3>1, LeastOf
  <2> DEFINE T == {x \in R : Cardinality(occ(x)) = Cardinality(occ(a))}
             f == [x \in T |-> Max(occ(x))]
  <2>4. PICK x \in T : \A y \in T : f[x] <= f[y]
    <3>1. T \subseteq R /\ a \in T
      OBVIOUS
    <3>2. f \in [T -> Int]
      BY <2>2
    <3>3. IsFiniteSet(T)
      <4> HIDE DEF T
      <4> QED BY <2>1, <3>1, FS_Subset
    <3> HIDE DEF T, f
    <3> QED BY <3>1, <3>2, <3>3, LeastOf
  <2>5. x \in R /\ Cardinality(occ(x)) = Cardinality(occ(a))
    OBVIOUS
  <2>6. First(x)
    <3> SUFFICES ASSUME NEW y \in R \ {x}
                 PROVE  \/ Cardinality(occ(x)) > Cardinality(occ(y))
                        \/ Cardinality(occ(x)) = Cardinality(occ(y)) /\ Max(occ(x)) < Max(occ(y))
      OBVIOUS
    <3> DEFINE p == Cardinality(occ(x))
               q == Cardinality(occ(y))
               i == Max(occ(x))
               j == Max(occ(y))
    <3>1. p \in Nat /\ q \in Nat /\ i \in Int /\ j \in Int /\ d[i] = x /\ d[j] = y
      BY <2>2, <2>5
    <3>2. q <= p
      <4>1. count[a] = 0 - p /\ count[y] = 0 - q
        BY <2>5
      <4>2. count[a] <= count[y]
        BY <2>3
      <4> HIDE DEF p, q, count
      <4> QED BY <3>1, <4>1, <4>2
    <3>3. q = p => i <= j
      <4> SUFFICES ASSUME q = p PROVE i <= j
        OBVIOUS
      <4>1. y \in T
        BY <2>5
      <4>2. f[x] = i /\ f[y] = j
        BY <4>1
      <4> HIDE DEF T, f, i, j
      <4> QED BY <2>4, <4>1, <4>2
    <3>4. i # j
      BY <3>1
    <3> HIDE DEF p, q, i, j
    <3>5. p > q \/ (p = q /\ i < j)
      BY <3>1, <3>2, <3>3, <3>4
    <3> QED BY <3>5 DEF p, q, i, j
  <2>7. MostFrequent(c) = CHOOSE z \in R : First(z)
    BY <1>2, Zenon DEF MostFrequent, R, occ
  <2> HIDE DEF First
  <2>8. MostFrequent(c) \in R
    BY <2>5, <2>6, <2>7
  <2> QED BY <2>1, <2>8
<1> QED BY <1>1, <1>2

\* The positions before the one of index k.
Earlier(t, k) == {j \in 1 .. Len(t) : t[j] < t[k]}

\* There are as many as its index says.
LEMMA BeforeNext ==
  ASSUME NEW P \in SUBSET Int, NEW t, Ordered(t, P), NEW k \in 1 .. Len(t)
  PROVE  Cardinality(Earlier(t, k)) = k - 1
<1>1. /\ Len(t) \in Nat /\ \A j \in 1 .. Len(t) : t[j] \in Int
      /\ \A i, j \in 1 .. Len(t) : i < j => t[i] < t[j]
  BY OrderedIs
<1>2. Earlier(t, k) = 1 .. k - 1
  <2>1. ASSUME NEW j \in 1 .. Len(t) PROVE t[j] < t[k] <=> j < k
    <3>1. t[j] \in Int /\ t[k] \in Int /\ (j < k => t[j] < t[k]) /\ (k < j => t[k] < t[j])
      BY <1>1
    <3> QED BY <1>1, <3>1
  <2> QED BY <1>1, <2>1 DEF Earlier
<1>3. Cardinality(1 .. k - 1) = k - 1
  <2>1. k - 1 \in Nat
    BY <1>1
  <2> QED BY <2>1, FS_Interval
<1> QED BY <1>2, <1>3

\* What is stored of strings that are not the frequent one.
OthersStored(x) == [pos |-> [k \in DOMAIN x |-> x[k].pos], bytes |-> Bytes(Vals(x)), ends |-> Ends(Vals(x))]

\* Strings other than the frequent one are met at their positions.
LEMMA MergeRecovers ==
  ASSUME NEW A, NEW s \in [1 .. VecSz -> Seq(A)], NEW m \in Seq(A), NEW x, x = Apart(s, Others(s, m)),
         NEW c, c = OthersStored(x),
         NEW b, b = [bytes |-> m, size |-> Len(m)]
  PROVE  MergeFrequent(c, b) = s
<1> USE DEF OthersStored
<1> DEFINE P == Others(s, m)
           vals == Vals(x)
<1>1. VecSz \in Nat /\ DOMAIN s = 1 .. VecSz
  BY SizesAssumption
<1>2. P \in SUBSET (1 .. VecSz) /\ P \in SUBSET Int /\ \A i \in 1 .. VecSz : i \notin P => s[i] = m
  <2>1. P \in SUBSET (1 .. VecSz) /\ \A i \in 1 .. VecSz : i \notin P => s[i] = m
    BY <1>1 DEF Others
  <2> HIDE DEF P
  <2>2. \A p \in P : p \in Int
    BY <2>1
  <2> QED BY <2>1, <2>2
<1> HIDE DEF P
<1>3. KeptApart(s, P, x)
  BY <1>1, <1>2, ApartIs DEF P
<1>4. PICK t : /\ Ordered(t, P)
               /\ x = [k \in 1 .. Len(t) |-> [pos |-> t[k] - 1, val |-> s[t[k]]]]
  BY <1>3 DEF KeptApart
<1> DEFINE L == Len(t)
<1>5. /\ L \in Nat
      /\ \A k \in 1 .. L : t[k] \in P /\ t[k] \in Int /\ t[k] \in 1 .. VecSz
      /\ \A p \in P : \E k \in 1 .. L : t[k] = p
  <2>1. /\ L \in Nat
        /\ \A k \in 1 .. L : t[k] \in P
        /\ \A p \in P : \E k \in 1 .. L : t[k] = p
    BY <1>2, <1>4, OrderedIs
  <2> QED BY <1>2, <2>1
<1>6. /\ DOMAIN x = 1 .. L
      /\ \A k \in 1 .. L : x[k].pos = t[k] - 1 /\ x[k].val = s[t[k]]
  BY <1>4
<1>7. vals \in [1 .. L -> Seq(A)] /\ \A k \in 1 .. L : vals[k] = s[t[k]]
  BY <1>5, <1>6 DEF Vals
<1>8. vals \in Seq(Seq(A)) /\ Len(vals) = L
  <2> HIDE DEF vals, L
  <2> QED BY <1>5, <1>7, FunctionsAreSequences
<1> HIDE DEF vals
<1>9. \A k \in 0 .. L - 1 : Slice(Bytes(vals), Ends(vals), k) = vals[k + 1]
  BY <1>8, UnjoinedIs DEF Unjoined
<1>10. /\ DOMAIN c.pos = 1 .. L /\ Len(c.pos) = L
       /\ \A k \in 1 .. L : c.pos[k] = t[k] - 1
       /\ c.bytes = Bytes(vals) /\ c.ends = Ends(vals)
  <2> DEFINE pos == [k \in DOMAIN x |-> x[k].pos]
  <2>1. c.pos = pos /\ c.bytes = Bytes(vals) /\ c.ends = Ends(vals)
    BY DEF vals
  <2>2. pos = [k \in 1 .. L |-> t[k] - 1]
    BY <1>6
  <2> HIDE DEF pos, L
  <2>3. Len(pos) = L
    BY <1>5, <2>2
  <2> QED BY <2>1, <2>2, <2>3
<1>11. Between(b.bytes, 0, b.size) = m
  <2>1. Between(b.bytes, 0, b.size) = Between(m, 0, Len(m))
    OBVIOUS
  <2>2. Len(m) \in Nat /\ m = [i \in 1 .. Len(m) |-> m[i]]
    OBVIOUS
  <2>3. Between(m, 0, Len(m)) = [i \in 1 .. Len(m) - 0 |-> m[0 + i]]
    BY Zenon DEF Between
  <2>4. Len(m) - 0 = Len(m) /\ \A i \in 1 .. Len(m) : 0 + i = i
    BY <2>2
  <2> QED BY <2>1, <2>2, <2>3, <2>4
<1> DEFINE Before(i) == Cardinality({k \in DOMAIN c.pos : c.pos[k] < i - 1})
           IsNext(i) == Before(i) < Len(c.pos) /\ c.pos[Before(i) + 1] = i - 1
<1>12. MergeFrequent(c, b) =
         [i \in 1 .. VecSz |-> IF IsNext(i) THEN Slice(c.bytes, c.ends, Before(i)) ELSE m]
  <2> DEFINE w == Between(b.bytes, 0, b.size)
  <2>1. MergeFrequent(c, b) =
          [i \in 1 .. VecSz |-> IF IsNext(i) THEN Slice(c.bytes, c.ends, Before(i)) ELSE w]
    BY Zenon DEF MergeFrequent
  <2> HIDE DEF w, IsNext, Before
  <2>2. w = m
    BY <1>11 DEF w
  <2> QED BY <2>1, <2>2
<1>13. ASSUME NEW i \in 1 .. VecSz PROVE Before(i) \in Nat
  <2>1. {k \in DOMAIN c.pos : c.pos[k] < i - 1} \in SUBSET (1 .. L)
    BY <1>10
  <2>2. IsFiniteSet(1 .. L)
    BY <1>5, FS_Interval
  <2> HIDE DEF L
  <2> QED BY <2>1, <2>2, FS_Subset, FS_CardinalityType
<1>14. ASSUME NEW i \in 1 .. VecSz
       PROVE  (IF IsNext(i) THEN Slice(c.bytes, c.ends, Before(i)) ELSE m) = s[i]
  <2>1. CASE i \in P
    <3>1. PICK k \in 1 .. L : t[k] = i
      BY <1>5, <2>1
    <3>2. {j \in DOMAIN c.pos : c.pos[j] < i - 1} = {j \in 1 .. L : t[j] < t[k]}
      <4>1. \A j \in 1 .. L : c.pos[j] < i - 1 <=> t[j] < t[k]
        <5> TAKE j \in 1 .. L
        <5>1. c.pos[j] = t[j] - 1 /\ t[j] \in Int /\ t[k] = i /\ i \in Int
          BY <1>5, <1>10, <3>1
        <5> QED BY <5>1
      <4> QED BY <1>10, <4>1
    <3>3. Before(i) = k - 1
      <4>1. Cardinality(Earlier(t, k)) = k - 1
        BY <1>2, <1>4, BeforeNext
      <4> QED BY <3>2, <4>1 DEF Earlier
    <3>4. k \in Int /\ k - 1 < L /\ (k - 1) + 1 = k /\ k - 1 \in 0 .. L - 1 /\ c.pos[k] = i - 1
      BY <1>5, <1>10, <3>1
    <3> HIDE DEF Before
    <3>5. IsNext(i)
      BY <1>10, <3>3, <3>4
    <3>6. Slice(c.bytes, c.ends, Before(i)) = vals[k]
      BY <1>9, <1>10, <3>3, <3>4
    <3> HIDE DEF IsNext
    <3> QED BY <1>7, <3>1, <3>5, <3>6
  <2>2. CASE i \notin P
    <3>1. ~ IsNext(i)
      <4> SUFFICES ASSUME IsNext(i) PROVE FALSE
        OBVIOUS
      <4> DEFINE k == Before(i) + 1
      <4>1. k \in 1 .. L /\ c.pos[k] = i - 1
        <5>1. Before(i) < L /\ c.pos[Before(i) + 1] = i - 1
          BY <1>10
        <5>2. Before(i) \in Nat
          BY <1>13
        <5> HIDE DEF Before
        <5> QED BY <1>5, <5>1, <5>2
      <4> HIDE DEF k
      <4>2. t[k] - 1 = i - 1 /\ t[k] \in Int
        BY <1>5, <1>10, <4>1
      <4>3. t[k] = i
        BY <4>2
      <4> QED BY <1>5, <2>2, <4>1, <4>3
    <3> HIDE DEF IsNext
    <3> QED BY <1>2, <2>2, <3>1
  <2> QED BY <2>1, <2>2
<1> HIDE DEF Before, IsNext
<1>15. MergeFrequent(c, b) = [i \in 1 .. VecSz |-> s[i]]
  BY <1>12, <1>14
<1> QED BY <1>15

-----------------------------------------------------------------------------
(* FSST *)

\* e says after which codes a byte follows.
EscapedBy(symbols, codes, e) ==
  /\ Decompress(symbols, codes) = ValuesAt(codes, {n \in DOMAIN codes : ~ e[n]})
  /\ ~ e[0]
  /\ \A n \in 1 .. Len(codes) : e[n] <=> ~ e[n - 1] /\ codes[n] \notin symbols

\* Codes are taken one after the other.
LEMMA EscapeSteps ==
  ASSUME NEW symbols, NEW codes, Len(codes) \in Nat
  PROVE  \E e : EscapedBy(symbols, codes, e)
<1> DEFINE top == Len(codes)
           S == BOOLEAN
           Step(n, x) == ~ x /\ codes[n] \notin symbols
           F == [p \in (1 .. top) \X S |-> Step(p[1], p[2])]
           Eq(g) == g = [n \in 0 .. top |-> IF n = 0 THEN FALSE ELSE Step(n, g[n - 1])]
<1>1. top \in Nat /\ FALSE \in S
  OBVIOUS
<1>2. F \in [(1 .. top) \X S -> S]
  <2>1. ASSUME NEW n \in 1 .. top, NEW x \in S PROVE Step(n, x) \in S
    OBVIOUS
  <2>2. \A p \in (1 .. top) \X S : Step(p[1], p[2]) \in S
    <3> HIDE DEF Step, S
    <3> QED BY <2>1
  <2> HIDE DEF Step, S
  <2> QED BY <2>2
<1>3. PICK g \in [0 .. top -> S] : Recursive(top, FALSE, F, g)
  <2> HIDE DEF F, S, top
  <2> QED BY <1>1, <1>2, Recursion, Zenon
<1>4. g[0] = FALSE /\ \A n \in 1 .. top : g[n] = Step(n, g[n - 1])
  <2>1. g[0] = FALSE /\ \A n \in 1 .. top : g[n] = F[<<n, g[n - 1]>>]
    BY <1>3 DEF Recursive
  <2>2. ASSUME NEW n \in 1 .. top PROVE F[<<n, g[n - 1]>>] = Step(n, g[n - 1])
    <3>1. n - 1 \in 0 .. top
      BY <1>1
    <3>2. g[n - 1] \in S
      <4> HIDE DEF S
      <4> QED BY <3>1
    <3>3. <<n, g[n - 1]>> \in (1 .. top) \X S
      <4> HIDE DEF S
      <4> QED BY <3>2
    <3> DEFINE p == <<n, g[n - 1]>>
    <3>4. p \in (1 .. top) \X S /\ p[1] = n /\ p[2] = g[n - 1]
      BY <3>3
    <3> HIDE DEF p, Step, S
    <3>5. F[p] = Step(p[1], p[2])
      BY <3>4
    <3>6. F[p] = Step(n, g[n - 1])
      BY <3>4, <3>5
    <3> QED BY <3>6 DEF p
  <2> HIDE DEF Step, S, F
  <2> QED BY <2>1, <2>2
<1>5. Eq(g)
  <2>1. \A n \in 0 .. top : g[n] = IF n = 0 THEN FALSE ELSE Step(n, g[n - 1])
    <3> TAKE n \in 0 .. top
    <3>1. n = 0 \/ n \in 1 .. top
      BY <1>1
    <3> HIDE DEF Step, S, F
    <3> QED BY <1>4, <3>1
  <2> HIDE DEF Step, S, F
  <2>2. g = [n \in 0 .. top |-> g[n]]
    OBVIOUS
  <2> QED BY <2>1, <2>2
<1>6. Decompress(symbols, codes) = LET escape == CHOOSE h : Eq(h)
                                   IN  ValuesAt(codes, {n \in DOMAIN codes : ~ escape[n]})
  BY Zenon DEF Decompress
<1> DEFINE e == CHOOSE h : Eq(h)
<1>7. Eq(e)
  <2> HIDE DEF Eq
  <2> QED BY <1>5, Zenon
<1>8. Decompress(symbols, codes) = ValuesAt(codes, {n \in DOMAIN codes : ~ e[n]})
  <2> HIDE DEF Eq
  <2> QED BY <1>6
<1> HIDE DEF e
<1>9. e[0] = FALSE /\ \A n \in 1 .. top : e[n] = Step(n, e[n - 1])
  <2> HIDE DEF Step
  <2>1. 0 \in 0 .. top /\ \A n \in 1 .. top : n \in 0 .. top /\ n # 0
    BY <1>1
  <2> QED BY <2>1, <1>7
<1>10. ~ e[0] /\ \A n \in 1 .. top : e[n] <=> ~ e[n - 1] /\ codes[n] \notin symbols
  <2>1. ASSUME NEW n \in 1 .. top
        PROVE  e[n] <=> ~ e[n - 1] /\ codes[n] \notin symbols
    BY <1>9, Zenon
  <2> QED BY <1>9, <2>1
<1> QED BY <1>8, <1>10 DEF EscapedBy

\* What has been compressed is decompressed.
LEMMA DecompressIs ==
  ASSUME NEW symbols, Escape \notin symbols, NEW string \in Seq(Nat)
  PROVE  /\ Code(symbols, string) \in Seq(Nat \cup {Escape})
         /\ Decompress(symbols, Code(symbols, string)) = string
<1> DEFINE A == Nat \cup {Escape}
           n == Len(string)
           Piece(i) == IF string[i] \in symbols THEN <<string[i]>> ELSE <<Escape, string[i]>>
           q == [i \in 1 .. n |-> Piece(i)]
           codes == Joined(q)
           g == Sums(LengthsOf(q))
<1>1. n \in Nat /\ DOMAIN string = 1 .. n /\ \A i \in 1 .. n : string[i] \in Nat
  OBVIOUS
<1>2. \A i \in 1 .. n : Piece(i) \in Seq(A)
  <2> TAKE i \in 1 .. n
  <2>1. string[i] \in A /\ Escape \in A
    BY <1>1
  <2> HIDE DEF A
  <2> QED BY <2>1
<1>3. q \in Seq(Seq(A)) /\ Len(q) = n
  <2>1. q \in [1 .. n -> Seq(A)]
    <3> HIDE DEF A, Piece
    <3> QED BY <1>2
  <2> HIDE DEF q, A
  <2> QED BY <1>1, <2>1, FunctionsAreSequences
<1>4. Code(symbols, string) = codes
  BY <1>1, Zenon DEF Code
<1>5. codes \in Seq(A) /\ Tiled(q, n, codes)
  <2> HIDE DEF q, A
  <2> QED BY <1>3, JoinedFacts
<1>6. /\ Len(codes) = g[n]
      /\ \A i \in 1 .. n : \A k \in 1 .. Len(q[i]) : codes[g[i - 1] + k] = q[i][k]
      /\ \A j \in 1 .. Len(codes) : \E i \in 1 .. n : j \in g[i - 1] + 1 .. g[i]
  BY <1>5 DEF Tiled
<1>7. /\ g \in [0 .. n -> Nat] /\ g[0] = 0 /\ \A i \in 1 .. n : g[i] = g[i - 1] + Len(q[i])
      /\ \A i \in 0 .. n, j \in 0 .. n : i <= j => g[i] <= g[j]
  <2> DEFINE lens == LengthsOf(q)
  <2>1. lens \in [1 .. n -> Nat] /\ \A i \in 1 .. n : lens[i] = Len(q[i])
    <3>1. \A i \in 1 .. n : q[i] \in Seq(A)
      BY <1>3
    <3> HIDE DEF q, A
    <3> QED BY <1>3, <3>1 DEF LengthsOf
  <2> HIDE DEF lens
  <2>2. lens \in Seq(Nat) /\ Len(lens) = n
    BY <1>1, <2>1, FunctionsAreSequences
  <2>3. lens \in Seq(Int)
    BY <2>2
  <2> HIDE DEF q
  <2> QED BY <2>1, <2>2, <2>3, SumsSteps, SumsGrow DEF SumsBy, lens
<1>8. \A i \in 1 .. n : q[i] = Piece(i)
  OBVIOUS
<1> HIDE DEF g, codes, q
<1>9. Len(codes) \in Nat /\ DOMAIN codes = 1 .. Len(codes)
  BY <1>5
<1>10. PICK e : EscapedBy(symbols, codes, e)
  BY <1>9, EscapeSteps
<1> DEFINE P == {j \in 1 .. Len(codes) : ~ e[j]}
<1>11. /\ Decompress(symbols, codes) = ValuesAt(codes, P)
       /\ ~ e[0]
       /\ \A j \in 1 .. Len(codes) : e[j] <=> ~ e[j - 1] /\ codes[j] \notin symbols
  BY <1>9, <1>10 DEF EscapedBy
\* A piece ends with the byte it stands for, which an escape announces or no code does.
<1>12. ASSUME NEW i \in 1 .. n
       PROVE  /\ g[i] \in 1 .. Len(codes) /\ g[i - 1] \in Nat /\ g[i - 1] < g[i]
              /\ codes[g[i]] = string[i]
              /\ ~ e[g[i - 1]] => ~ e[g[i]]
              /\ ~ e[g[i - 1]] => \A j \in g[i - 1] + 1 .. g[i] : j # g[i] => e[j]
  <2> DEFINE a == g[i - 1]
             b == g[i]
  <2>1. a \in Nat /\ b \in Nat /\ b = a + Len(q[i]) /\ b <= Len(codes)
    <3>1. i - 1 \in 0 .. n /\ i \in 0 .. n /\ n \in 0 .. n /\ i <= n
      BY <1>1
    <3> QED BY <1>6, <1>7, <3>1
  <2>2. \A k \in 1 .. Len(q[i]) : codes[a + k] = q[i][k]
    BY <1>6
  <2> HIDE DEF a, b
  <2>3. CASE string[i] \in symbols
    <3>1. q[i] = <<string[i]>>
      BY <1>8, <2>3
    <3>2. b = a + 1 /\ codes[b] = string[i]
      BY <2>1, <2>2, <3>1
    <3>3. b \in 1 .. Len(codes)
      BY <1>9, <2>1, <3>2
    <3>4. ~ e[b]
      BY <1>11, <2>3, <3>2, <3>3
    <3>5. \A j \in a + 1 .. b : j = b
      BY <2>1, <3>2
    <3> QED BY <2>1, <3>2, <3>3, <3>4, <3>5 DEF a, b
  <2>4. CASE string[i] \notin symbols
    <3>1. q[i] = <<Escape, string[i]>>
      BY <1>8, <2>4
    <3>2. b = a + 2 /\ codes[a + 1] = Escape /\ codes[b] = string[i]
      BY <2>1, <2>2, <3>1
    <3>3. a + 1 \in 1 .. Len(codes) /\ b \in 1 .. Len(codes) /\ b - 1 = a + 1 /\ (a + 1) - 1 = a
      BY <1>9, <2>1, <3>2
    <3>4. ~ e[a] => e[a + 1]
      <4>1. e[a + 1] <=> ~ e[(a + 1) - 1] /\ codes[a + 1] \notin symbols
        BY <1>11, <3>3, Zenon
      <4>2. e[a + 1] <=> ~ e[a] /\ codes[a + 1] \notin symbols
        BY <3>3, <4>1, Zenon
      <4> QED BY <3>2, <4>2
    <3>5. ~ e[a] => ~ e[b]
      <4>1. e[b] <=> ~ e[b - 1] /\ codes[b] \notin symbols
        BY <1>11, <3>3, Zenon
      <4>2. e[b] => ~ e[a + 1]
        BY <3>3, <4>1, Zenon
      <4> QED BY <3>4, <4>2
    <3>6. \A j \in a + 1 .. b : j # b => j = a + 1
      BY <2>1, <3>2
    <3>7. ~ e[a] => \A j \in a + 1 .. b : j # b => e[j]
      BY <3>4, <3>6, Zenon
    <3> QED BY <2>1, <3>2, <3>3, <3>5, <3>7 DEF a, b
  <2> QED BY <2>3, <2>4
<1>13. \A i \in Nat : i <= n => ~ e[g[i]]
  <2> DEFINE S == {i \in Nat : i <= n => ~ e[g[i]]}
  <2>1. 0 \in S
    BY <1>7, <1>11
  <2>2. ASSUME NEW i \in Nat, i \in S PROVE i + 1 \in S
    <3> SUFFICES ASSUME i + 1 <= n PROVE ~ e[g[i + 1]]
      OBVIOUS
    <3>1. i + 1 \in 1 .. n /\ (i + 1) - 1 = i
      BY <1>1
    <3>2. ~ e[g[i]]
      BY <1>1, <2>2
    <3>3. ~ e[g[(i + 1) - 1]] => ~ e[g[i + 1]]
      BY <1>12, <3>1
    <3> QED BY <3>1, <3>2, <3>3, Zenon
  <2>3. Nat \subseteq S
    <3> HIDE DEF S
    <3> QED BY <2>1, <2>2, Successors
  <2> QED BY <2>3
<1> DEFINE u == [i \in 1 .. n |-> g[i]]
<1>14. u \in Seq(Int) /\ Len(u) = n /\ Increasing(u)
  <2>1. u \in [1 .. n -> Int]
    BY <1>12
  <2>2. \A i, j \in 1 .. n : i < j => u[i] < u[j]
    <3> SUFFICES ASSUME NEW i \in 1 .. n, NEW j \in 1 .. n, i < j PROVE g[i] < g[j]
      OBVIOUS
    <3>1. i \in 0 .. n /\ j - 1 \in 0 .. n /\ i <= j - 1
      BY <1>1
    <3>2. g[i] <= g[j - 1] /\ g[i] \in Nat
      BY <1>7, <3>1
    <3>3. g[j - 1] < g[j] /\ g[j - 1] \in Nat /\ g[j] \in Nat
      BY <1>12, <1>9
    <3> QED BY <3>2, <3>3
  <2> HIDE DEF u
  <2>3. u \in Seq(Int) /\ Len(u) = n
    BY <1>1, <2>1, FunctionsAreSequences
  <2> QED BY <2>2, <2>3 DEF Increasing
<1>15. P = {g[i] : i \in 1 .. n}
  <2>1. ASSUME NEW i \in 1 .. n PROVE g[i] \in P
    <3>1. ~ e[g[i]]
      BY <1>1, <1>13
    <3> QED BY <1>12, <3>1
  <2>2. ASSUME NEW j \in P PROVE \E i \in 1 .. n : j = g[i]
    <3>1. j \in 1 .. Len(codes) /\ ~ e[j]
      OBVIOUS
    <3>2. PICK i \in 1 .. n : j \in g[i - 1] + 1 .. g[i]
      BY <1>6, <3>1
    <3>3. ~ e[g[i - 1]]
      <4>1. i - 1 \in Nat /\ i - 1 <= n
        BY <1>1
      <4> QED BY <1>13, <4>1
    <3>4. j # g[i] => e[j]
      BY <1>12, <3>2, <3>3
    <3> QED BY <3>1, <3>4
  <2> HIDE DEF P
  <2> QED BY <2>1, <2>2
<1>16. P \in SUBSET (1 .. Len(codes))
  OBVIOUS
<1> HIDE DEF P
<1>17. Ordered(InOrder(codes, P), P)
  BY <1>9, <1>16, InOrderIs
<1> DEFINE t == InOrder(codes, P)
<1>18. t = u
  <2>1. t \in Seq(P) /\ Increasing(t) /\ Range(t) = P
    BY <1>17 DEF Ordered
  <2>2. P \in SUBSET Int
    <3>1. \A p \in P : p \in Int
      BY <1>16
    <3> QED BY <3>1
  <2>3. Range(u) = P
    <3>1. DOMAIN u = 1 .. n
      OBVIOUS
    <3>2. Range(u) = {u[i] : i \in DOMAIN u}
      BY DEF Range
    <3> QED BY <1>15, <3>2
  <2> HIDE DEF t, u
  <2>4. t \in Seq(Int)
    <3>1. Len(t) \in Nat /\ t \in [1 .. Len(t) -> P]
      BY <2>1
    <3>2. t \in [1 .. Len(t) -> Int]
      BY <2>2, <3>1
    <3> QED BY <3>1, <3>2, FunctionsAreSequences
  <2> QED BY <1>14, <2>1, <2>3, <2>4, IncreasingUnique
<1>19. ValuesAt(codes, P) = [k \in DOMAIN u |-> codes[u[k]]]
  <2>1. ValuesAt(codes, P) = [k \in DOMAIN t |-> codes[t[k]]]
    BY Zenon DEF ValuesAt
  <2> HIDE DEF t, u
  <2> QED BY <1>18, <2>1
<1>20. [k \in DOMAIN u |-> codes[u[k]]] = [k \in 1 .. n |-> string[k]]
  <2>1. DOMAIN u = 1 .. n /\ \A k \in 1 .. n : u[k] = g[k]
    OBVIOUS
  <2> HIDE DEF u
  <2> QED BY <1>12, <2>1
<1>21. string = [k \in 1 .. n |-> string[k]]
  BY <1>1
<1>22. Decompress(symbols, codes) = string
  BY <1>11, <1>19, <1>20, <1>21
<1> QED BY <1>4, <1>5, <1>22

-----------------------------------------------------------------------------
(* Columns *)

\* c is a column as it is ingested, NullMap() right for its rows.
IsColumn(c) ==
  /\ \E input \in Inputs : c.expr = input.expr /\ c.rows = input.rows /\ c.table = input.table
  /\ c.nulls \in Seq(BOOLEAN) /\ Len(c.nulls) = VecSz * NumVecs(c)
  /\ \A i \in 1 .. Len(c.rows) : c.nulls[i] <=> c.rows[i] = Null

\* What is stored of it.
Cell(c) == IF IsString(c) THEN Seq(Nat) ELSE OfType(ValueType)

\* The values stored for a column.
DataIs(c, d) ==
  /\ NumVecs(c) \in Nat \ {0} /\ VecSz * NumVecs(c) \in Nat \ {0}
  /\ d \in [1 .. VecSz * NumVecs(c) -> Cell(c)] /\ d \in Seq(Cell(c))
  /\ Len(d) = VecSz * NumVecs(c)
  /\ Len(c.rows) \in Nat /\ Len(c.rows) <= VecSz * NumVecs(c)
  /\ \A i \in 1 .. Len(c.rows) : c.rows[i] # Null => d[i] = c.rows[i]

\* They are values, with all rows that are not null among them.
LEMMA ColumnIs ==
  ASSUME NEW c, IsColumn(c)
  PROVE  DataIs(c, Data(c)) /\ c.expr \in NumericExprs \cup StringExprs /\ Escape \notin c.table
<1>1. PICK input \in Inputs : c.expr = input.expr /\ c.rows = input.rows /\ c.table = input.table
  BY DEF IsColumn
<1> DEFINE init == IF IsString(c) THEN NullText ELSE 0
           A == CellsOf(c.expr)
           rows == c.rows
           d == StoredAs(rows, Null, init, VecSz)
<1>2. /\ c.expr \in NumericExprs \cup StringExprs /\ Escape \notin c.table
      /\ rows \in Seq(A) /\ rows # <<>>
  BY <1>1, InputsAssumption
<1>3. VecSz \in Nat \ {0} /\ Null \notin Int /\ Null \notin Seq(Nat) /\ NullText \in Seq(Nat)
  BY SizesAssumption
<1>4. IsStored(d, A, rows, Null, init, VecSz)
  <2> HIDE DEF A, init, rows
  <2> QED BY <1>2, <1>3, StoredAsIs
<1>5. {init} \cup (A \ {Null}) = Cell(c)
  <2>1. CASE IsString(c)
    BY <1>3, <2>1 DEF IsString, CellsOf, Cell
  <2>2. CASE ~ IsString(c)
    <3>1. 0 \in OfType(ValueType) /\ Null \notin OfType(ValueType)
      <4>1. IsType(ValueType) /\ 0 \in OfType(ValueType)
        BY TypesAre
      <4> QED BY <1>3, <4>1, OfTypeIs
    <3> QED BY <2>2, <3>1 DEF IsString, CellsOf, Cell
  <2> QED BY <2>1, <2>2
<1>6. Data(c) = d
  BY DEF Data
<1> HIDE DEF d, A, init
<1> DEFINE n == Len(rows)
           m == VecSz * NumVecs(c)
<1>7. n \in Nat \ {0}
  BY <1>2
<1>8. NumVecs(c) \in Nat \ {0} /\ m \in Nat \ {0} /\ n <= m
  <2> DEFINE q == NumVecs(c)
  <2>1. n + VecSz - 1 \in Nat /\ q = (n + VecSz - 1) \div VecSz
    BY <1>3, <1>7 DEF NumVecs
  <2>2. q \in Nat
    BY <1>3, <2>1, DivisionFacts
  <2>3. n <= m
    <3>1. Len(d) >= n /\ Len(d) = VecSz * ((n + VecSz - 1) \div VecSz)
      BY <1>4 DEF IsStored
    <3>2. Len(d) = m
      BY <2>1, <3>1
    <3>3. m \in Int
      BY <1>3, <2>2
    <3> HIDE DEF m, n
    <3> QED BY <1>7, <3>1, <3>2, <3>3
  <2>4. q # 0
    BY <1>3, <1>7, <2>3
  <2>5. m \in Nat
    <3> HIDE DEF q
    <3> QED BY <1>3, <2>2, Z3 DEF q
  <2> HIDE DEF m, n, q
  <2> QED BY <1>7, <2>2, <2>3, <2>4, <2>5 DEF q
<1>9. d \in Seq(Cell(c)) /\ Len(d) = m /\ \A i \in 1 .. n : rows[i] # Null => d[i] = rows[i]
  BY <1>4, <1>5 DEF IsStored, NumVecs
<1>10. d \in [1 .. m -> Cell(c)]
  BY <1>9
<1> QED BY <1>2, <1>6, <1>7, <1>8, <1>9, <1>10 DEF DataIs

\* A sequence is a function on its domain.
LEMMA SequenceFunctions == \A A : \A s \in Seq(A) : s \in [DOMAIN s -> A]
OBVIOUS

\* A vector of a column.
VectorIs(c, v, s, isNull) ==
  /\ s = VecOf(Data(c), v) /\ isNull = VecOf(c.nulls, v)
  /\ s \in [1 .. VecSz -> Cell(c)] /\ isNull \in [1 .. VecSz -> BOOLEAN]
  /\ \A i \in 1 .. VecSz : /\ v * VecSz + i \in 1 .. VecSz * NumVecs(c)
                           /\ s[i] = Data(c)[v * VecSz + i]
                           /\ isNull[i] = c.nulls[v * VecSz + i]

\* Its values and nulls are cut out of the column's.
LEMMA VectorOfColumn ==
  ASSUME NEW c, IsColumn(c), NEW v \in 0 .. NumVecs(c) - 1
  PROVE  VectorIs(c, v, VecOf(Data(c), v), VecOf(c.nulls, v))
<1> DEFINE n == NumVecs(c)
           d == Data(c)
           w == c.nulls
<1>1. VecSz \in Nat \ {0}
  BY SizesAssumption
<1>2. n \in Nat /\ d \in Seq(Cell(c)) /\ Len(d) = VecSz * n
  BY ColumnIs DEF DataIs
<1>3. w \in Seq(BOOLEAN) /\ Len(w) = VecSz * n
  BY DEF IsColumn
<1> HIDE DEF n, d, w
<1>4. v \in 0 .. n - 1
  BY DEF n
<1> DEFINE s == VecOf(d, v)
           isNull == VecOf(w, v)
<1>5. CutOut(Cell(c), d, v, VecSz, s)
  BY <1>1, <1>2, <1>4, VectorOfCuts DEF VecOf
<1>6. CutOut(BOOLEAN, w, v, VecSz, isNull)
  BY <1>1, <1>2, <1>3, <1>4, VectorOfCuts DEF VecOf
<1> HIDE DEF s, isNull
<1>7. s \in Seq(Cell(c)) /\ DOMAIN s = 1 .. VecSz /\ isNull \in Seq(BOOLEAN) /\ DOMAIN isNull = 1 .. VecSz
  BY <1>5, <1>6 DEF CutOut
<1>8. s \in [1 .. VecSz -> Cell(c)] /\ isNull \in [1 .. VecSz -> BOOLEAN]
  BY <1>7, SequenceFunctions
<1>9. \A i \in 1 .. VecSz : /\ v * VecSz + i \in 1 .. VecSz * n
                            /\ s[i] = d[v * VecSz + i]
                            /\ isNull[i] = w[v * VecSz + i]
  BY <1>2, <1>5, <1>6 DEF CutOut
<1> QED BY <1>8, <1>9 DEF VectorIs, s, isNull, n, d, w

\* vals are the values of a vector, but for null cells.
Restores(c, v, vals) ==
  /\ vals \in [1 .. VecSz -> Cell(c)]
  /\ \A i \in 1 .. VecSz : ~ VecOf(c.nulls, v)[i] => vals[i] = VecOf(Data(c), v)[i]

\* What a vector is materialized as, whatever offsets were there before.
Materialized(c, v, before) == DecodeChunk(c.expr, v, EncodeChunk(c, v, before), FinalizeBlock(c))

\* FFOR and FFOR_SLPATCH.
LEMMA FforRestores ==
  ASSUME NEW c, IsColumn(c), NEW v \in 0 .. NumVecs(c) - 1, NEW before, c.expr \in {"FFOR", "FFOR_SLPATCH"}
  PROVE  Restores(c, v, Materialized(c, v, before))
<1> DEFINE s == VecOf(Data(c), v)
           isNull == VecOf(c.nulls, v)
           vals == Materialized(c, v, before)
<1>1. /\ Cell(c) = OfType(ValueType)
      /\ s \in [1 .. VecSz -> OfType(ValueType)] /\ isNull \in [1 .. VecSz -> BOOLEAN]
  <2>1. Cell(c) = OfType(ValueType)
    BY DEF Cell, IsString, StringExprs
  <2>2. VectorIs(c, v, s, isNull)
    BY VectorOfColumn
  <2> QED BY <2>1, <2>2 DEF VectorIs
<1>2. VecSz \in Nat /\ IsType(ValueType) /\ ValueType.bits <= MaxWidth /\ 0 \in OfType(ValueType)
  BY SizesAssumption, TypesAre
<1>3. Recovered(VecSz, ValueType, s, isNull, FALSE, vals)
  <2>1. CASE c.expr = "FFOR"
    <3>1. EncodeChunk(c, v, before) = EncodeFfor(ValueType, s, isNull)
      BY <2>1 DEF EncodeChunk
    <3>2. vals = Unffor(ValueType, EncodeFfor(ValueType, s, isNull).ffor)
      BY <2>1, <3>1 DEF DecodeChunk, Materialized
    <3>3. EncodeFfor(ValueType, s, isNull).ffor = FforOf(Analyze(ValueType, s, isNull, FALSE))
      BY DEF EncodeFfor
    <3> HIDE DEF s, isNull, vals
    <3> QED BY <1>1, <1>2, <3>2, <3>3, AnalyzeRecovers
  <2>2. CASE c.expr = "FFOR_SLPATCH"
    <3> DEFINE a == AnalyzePatched(ValueType, s, isNull, FALSE)
    <3>1. EncodeChunk(c, v, before) = EncodeFforPatched(ValueType, s, isNull)
      BY <2>2 DEF EncodeChunk
    <3>2. EncodeFforPatched(ValueType, s, isNull) = [ffor |-> FforOf(a), exceptions |-> a.exceptions]
      BY DEF EncodeFforPatched
    <3> HIDE DEF a
    <3>3. vals = Patch(Unffor(ValueType, FforOf(a)), a.exceptions)
      BY <2>2, <3>1, <3>2 DEF DecodeChunk, Materialized
    <3> HIDE DEF s, isNull, vals
    <3> QED BY <1>1, <1>2, <3>3, PatchedRecovers DEF a
  <2> QED BY <2>1, <2>2
<1> HIDE DEF s, isNull, vals
<1> QED BY <1>1, <1>3 DEF Recovered, Restores, s, isNull, vals

\* DELTA.
LEMMA DeltaRestores ==
  ASSUME NEW c, IsColumn(c), NEW v \in 0 .. NumVecs(c) - 1, NEW before, c.expr = "DELTA"
  PROVE  Restores(c, v, Materialized(c, v, before))
<1> DEFINE s == VecOf(Data(c), v)
           isNull == VecOf(c.nulls, v)
           vals == Materialized(c, v, before)
<1>1. /\ Cell(c) = OfType(ValueType)
      /\ s \in [1 .. VecSz -> OfType(ValueType)] /\ isNull \in [1 .. VecSz -> BOOLEAN]
  <2>1. Cell(c) = OfType(ValueType)
    BY DEF Cell, IsString, StringExprs
  <2>2. VectorIs(c, v, s, isNull)
    BY VectorOfColumn
  <2> QED BY <2>1, <2>2 DEF VectorIs
<1>2. EncodeChunk(c, v, before) = EncodeSums(ValueType, s, isNull)
  BY DEF EncodeChunk
<1>3. vals = Untranspose(DecodeSums(ValueType, EncodeSums(ValueType, s, isNull)))
  BY <1>2 DEF DecodeChunk, Materialized
<1> HIDE DEF s, isNull, vals
<1>4. DecodeSums(ValueType, EncodeSums(ValueType, s, isNull)) = Transpose(s)
  <2>1. IsType(ValueType) /\ ValueType.bits <= MaxWidth /\ 0 \in OfType(ValueType)
    BY TypesAre
  <2> QED BY <1>1, <2>1, SumsRecover
<1>5. Untranspose(Transpose(s)) = s
  BY <1>1, TransposeIs DEF Untransposed
<1>6. vals = s
  BY <1>3, <1>4, <1>5
<1> QED BY <1>1, <1>6 DEF Restores, s, isNull, vals

\* FREQUENCY and NULL.
LEMMA ApartRestores ==
  ASSUME NEW c, IsColumn(c), NEW v \in 0 .. NumVecs(c) - 1, NEW before, c.expr \in {"FREQUENCY", "NULL"}
  PROVE  Restores(c, v, Materialized(c, v, before))
<1> DEFINE s == VecOf(Data(c), v)
           isNull == VecOf(c.nulls, v)
           vals == Materialized(c, v, before)
           x == IF c.expr = "NULL" THEN 0 ELSE MostFrequent(c)
           P == {i \in 1 .. VecSz : ~ isNull[i] /\ (c.expr = "NULL" \/ s[i] # x)}
           u == [i \in 1 .. VecSz |-> x]
<1>1. /\ Cell(c) = OfType(ValueType)
      /\ s \in [1 .. VecSz -> OfType(ValueType)] /\ isNull \in [1 .. VecSz -> BOOLEAN]
  <2>1. Cell(c) = OfType(ValueType)
    BY DEF Cell, IsString, StringExprs
  <2>2. VectorIs(c, v, s, isNull)
    BY VectorOfColumn
  <2> QED BY <2>1, <2>2 DEF VectorIs
<1>2. VecSz \in Nat
  BY SizesAssumption
<1>3. x \in OfType(ValueType)
  <2>1. 0 \in OfType(ValueType)
    BY TypesAre
  <2>2. MostFrequent(c) \in Cell(c)
    <3>1. VecSz * NumVecs(c) \in Nat \ {0} /\ Data(c) \in [1 .. VecSz * NumVecs(c) -> Cell(c)]
      BY ColumnIs DEF DataIs
    <3> QED BY <3>1, MostFrequentIs
  <2> QED BY <1>1, <2>1, <2>2
<1>4. vals = Patch(u, Apart(s, P))
  <2>1. CASE c.expr = "FREQUENCY"
    <3> DEFINE kept == {i \in DOMAIN s : ~ isNull[i]}
               apart == Apart(s, Others(s, MostFrequent(c)) \cap kept)
    <3>1. EncodeChunk(c, v, before) = [exceptions |-> apart]
      BY <2>1 DEF EncodeChunk
    <3>2. FinalizeBlock(c) = [val |-> MostFrequent(c)]
      BY <2>1 DEF FinalizeBlock
    <3>3. Others(s, MostFrequent(c)) \cap kept = P
      BY <1>1, <2>1 DEF Others
    <3>4. apart = Apart(s, P)
      BY <3>3
    <3> HIDE DEF apart, s, P
    <3>5. vals = Patch([i \in 1 .. VecSz |-> MostFrequent(c)], apart)
      BY <2>1, <3>1, <3>2 DEF DecodeChunk, Materialized
    <3> QED BY <2>1, <3>4, <3>5
  <2>2. CASE c.expr = "NULL"
    <3> DEFINE kept == {i \in DOMAIN s : ~ isNull[i]}
               apart == Apart(s, kept)
    <3>1. EncodeChunk(c, v, before) = [exceptions |-> apart]
      BY <2>2 DEF EncodeChunk
    <3>2. kept = P
      BY <1>1, <2>2
    <3>3. apart = Apart(s, P)
      BY <3>2
    <3> HIDE DEF apart, s, P
    <3>4. vals = Patch([i \in 1 .. VecSz |-> 0], apart)
      BY <2>2, <3>1 DEF DecodeChunk, Materialized
    <3> QED BY <2>2, <3>3, <3>4
  <2> QED BY <2>1, <2>2
<1>5. P \in SUBSET (1 .. VecSz) /\ \A i \in 1 .. VecSz : ~ isNull[i] => i \in P \/ s[i] = x
  OBVIOUS
<1>6. DOMAIN u = 1 .. VecSz /\ \A i \in 1 .. VecSz : u[i] = x
  OBVIOUS
<1> HIDE DEF s, isNull, vals, P, u, x
<1>7. PutBack(VecSz, s, P, u, vals)
  <2>1. DOMAIN s = 1 .. VecSz
    BY <1>1
  <2>2. KeptApart(s, P, Apart(s, P))
    BY <1>2, <1>5, <2>1, ApartIs
  <2>3. PutBack(VecSz, s, P, u, Patch(u, Apart(s, P)))
    BY <1>2, <1>5, <1>6, <2>2, PatchIs
  <2> QED BY <1>4, <2>3
<1>8. /\ DOMAIN vals = 1 .. VecSz /\ vals = [i \in 1 .. VecSz |-> vals[i]]
      /\ \A i \in 1 .. VecSz : vals[i] = IF i \in P THEN s[i] ELSE u[i]
  BY <1>7 DEF PutBack
<1>9. \A i \in 1 .. VecSz : vals[i] \in OfType(ValueType) /\ (~ isNull[i] => vals[i] = s[i])
  BY <1>1, <1>3, <1>5, <1>6, <1>8
<1>10. vals \in [1 .. VecSz -> OfType(ValueType)]
  BY <1>8, <1>9
<1> QED BY <1>1, <1>9, <1>10 DEF Restores, s, isNull, vals

\* The indexes of a vector's runs are of their type, and lead to the values.
LEMMA RunIndexes ==
  ASSUME NEW A, NEW s \in [1 .. VecSz -> A]
  PROVE  /\ RleIdxs(s) \in [1 .. VecSz -> OfType(IndexType)]
         /\ RleVals(s) \in Seq(A)
         /\ RleIdxs(s) \in [1 .. VecSz -> 0 .. Len(RleVals(s)) - 1]
         /\ [i \in 1 .. VecSz |-> RleVals(s)[RleIdxs(s)[i] + 1]] = s
<1>1. VecSz \in Nat \ {0} /\ VecSz <= 2 ^ Width
  BY SizesAssumption
<1>2. /\ RleVals(s) \in Seq(A) /\ Len(RleVals(s)) \in 1 .. VecSz
      /\ RleIdxs(s) \in [1 .. VecSz -> 0 .. Len(RleVals(s)) - 1]
      /\ \A i \in 1 .. VecSz : RleVals(s)[RleIdxs(s)[i] + 1] = s[i]
  <2>1. Numbered(VecSz, A, s)
    BY <1>1, RunsRecover
  <2> QED BY <2>1 DEF Numbered
<1> DEFINE m == Len(RleVals(s))
           idxs == RleIdxs(s)
<1>3. \A i \in 0 .. m - 1 : i \in OfType(IndexType)
  <2>1. IsType(IndexType) /\ IndexType.least = 0 /\ IndexType.bits = Width
    BY TypesAre DEF IndexType
  <2>2. 2 ^ Width \in Nat
    BY <2>1, OfTypeIs
  <2> HIDE DEF m
  <2>3. \A i \in 0 .. m - 1 : i \in Int /\ 0 <= i /\ i < 0 + 2 ^ Width
    BY <1>1, <1>2, <2>2 DEF m
  <2> QED BY <2>1, <2>3, OfTypeIs
<1>4. idxs \in [1 .. VecSz -> 0 .. m - 1]
  BY <1>2
<1> HIDE DEF m, idxs
<1>5. idxs \in [1 .. VecSz -> OfType(IndexType)]
  BY <1>3, <1>4
<1>6. [i \in 1 .. VecSz |-> RleVals(s)[RleIdxs(s)[i] + 1]] = s
  BY <1>2
<1> QED BY <1>2, <1>5, <1>6 DEF idxs

\* RLE, RLE_SLPATCH and STR_RLE.
LEMMA RleRestores ==
  ASSUME NEW c, IsColumn(c), NEW v \in 0 .. NumVecs(c) - 1, NEW before,
         c.expr \in {"RLE", "RLE_SLPATCH", "STR_RLE"}
  PROVE  Restores(c, v, Materialized(c, v, before))
<1> DEFINE s == VecOf(Data(c), v)
           isNull == VecOf(c.nulls, v)
           vals == Materialized(c, v, before)
           runs == RleVals(s)
           idxs == RleIdxs(s)
           plain == EncodeSums(IndexType, idxs, isNull)
           patched == EncodeSumsPatched(IndexType, idxs, isNull)
<1>1. s \in [1 .. VecSz -> Cell(c)] /\ isNull \in [1 .. VecSz -> BOOLEAN]
  <2>1. VectorIs(c, v, s, isNull)
    BY VectorOfColumn
  <2> QED BY <2>1 DEF VectorIs
<1> HIDE DEF s, isNull
<1>2. /\ idxs \in [1 .. VecSz -> OfType(IndexType)] /\ runs \in Seq(Cell(c))
      /\ idxs \in [1 .. VecSz -> 0 .. Len(runs) - 1]
      /\ [i \in 1 .. VecSz |-> runs[idxs[i] + 1]] = s
  BY <1>1, RunIndexes
<1> HIDE DEF runs, idxs
<1>3. DecodeSums(IndexType, plain) = Transpose(idxs) /\ DecodeSumsPatched(IndexType, patched) = Transpose(idxs)
  <2>1. IsType(IndexType) /\ IndexType.bits <= MaxWidth /\ 0 \in OfType(IndexType)
    BY TypesAre
  <2> QED BY <1>1, <1>2, <2>1, SumsRecover
<1>4. /\ Untranspose(Transpose(idxs)) = idxs
      /\ Untranspose(Lookup(runs, Transpose(idxs))) = [i \in 1 .. VecSz |-> runs[idxs[i] + 1]]
  <2>1. Untransposed(idxs)
    BY <1>2, TransposeIs
  <2> QED BY <2>1, Zenon DEF Untransposed
<1> HIDE DEF plain, patched
<1>5. ASSUME c.expr = "RLE" PROVE vals = s
  <2>1. EncodeChunk(c, v, before) = [sums |-> plain, vals |-> runs]
    BY <1>5 DEF EncodeChunk, plain, runs, idxs, s, isNull
  <2>2. vals = Untranspose(Lookup(runs, DecodeSums(IndexType, plain)))
    BY <1>5, <2>1 DEF DecodeChunk, Materialized
  <2> HIDE DEF vals
  <2>3. vals = s
    BY <1>2, <1>3, <1>4, <2>2
  <2> QED BY <2>3 DEF vals
<1>6. ASSUME c.expr = "RLE_SLPATCH" PROVE vals = s
  <2>1. EncodeChunk(c, v, before) = [sums |-> patched, vals |-> runs]
    BY <1>6 DEF EncodeChunk, patched, runs, idxs, s, isNull
  <2>2. vals = Untranspose(Lookup(runs, DecodeSumsPatched(IndexType, patched)))
    BY <1>6, <2>1 DEF DecodeChunk, Materialized
  <2> HIDE DEF vals
  <2>3. vals = s
    BY <1>2, <1>3, <1>4, <2>2
  <2> QED BY <2>3 DEF vals
<1>7. ASSUME c.expr = "STR_RLE" PROVE vals = s
  <2> DEFINE bytes == Bytes(runs)
             offsets == <<0>> \o Ends(runs)
  <2>1. EncodeChunk(c, v, before) = [sums |-> plain, bytes |-> bytes, offsets |-> offsets]
    BY <1>7 DEF EncodeChunk, plain, runs, idxs, s, isNull
  <2>2. Cell(c) = Seq(Nat)
    BY <1>7 DEF Cell, IsString, StringExprs
  <2>3. \A k \in 0 .. Len(runs) - 1 : SliceFromZero(bytes, offsets, k) = runs[k + 1]
    BY <1>2, <2>2, UnjoinedIs DEF Unjoined
  <2> HIDE DEF bytes, offsets
  <2> DEFINE back == Untranspose(DecodeSums(IndexType, plain))
  <2>4. vals = [i \in DOMAIN back |-> SliceFromZero(bytes, offsets, back[i])]
    BY <1>7, <2>1 DEF DecodeChunk, Materialized
  <2>5. back = idxs
    BY <1>3, <1>4
  <2> HIDE DEF back, vals
  <2>6. vals = [i \in DOMAIN idxs |-> SliceFromZero(bytes, offsets, idxs[i])]
    BY <2>4, <2>5
  <2>7. DOMAIN idxs = 1 .. VecSz /\ \A i \in 1 .. VecSz : idxs[i] \in 0 .. Len(runs) - 1
    BY <1>2
  <2>8. \A i \in 1 .. VecSz : SliceFromZero(bytes, offsets, idxs[i]) = runs[idxs[i] + 1]
    BY <2>3, <2>7
  <2>9. vals = [i \in 1 .. VecSz |-> runs[idxs[i] + 1]]
    BY <2>6, <2>7, <2>8
  <2>10. vals = s
    BY <1>2, <2>9
  <2> QED BY <2>10 DEF vals
<1>8. vals = s
  BY <1>5, <1>6, <1>7
<1> HIDE DEF vals
<1> QED BY <1>1, <1>8 DEF Restores, vals, s, isNull

\* The expressions with a dictionary.
DictExprs == {"DICT", "DICT_SLPATCH", "STR_DICT", "STR_FSST_DICT"}

\* The numbers below one that is no greater than 2 ^ Width are indexes.
LEMMA IndexesAre ==
  ASSUME NEW m \in Nat, m <= 2 ^ Width, NEW i \in 0 .. m - 1
  PROVE  i \in OfType(IndexType)
<1>1. IsType(IndexType) /\ IndexType.least = 0 /\ IndexType.bits = Width
  BY TypesAre DEF IndexType
<1>2. 2 ^ Width \in Nat
  BY <1>1, OfTypeIs
<1>3. i \in Int /\ 0 <= i /\ i < 0 + 2 ^ Width
  BY <1>2
<1> QED BY <1>1, <1>3, OfTypeIs

\* The keys of a column and the indexes of a vector's values, which lead to them.
Indexes(c, s, keys, dict) ==
  /\ keys = Keys(Data(c)) /\ dict = DictOf(Data(c), s)
  /\ keys \in Seq(Cell(c)) /\ Len(keys) \in Nat \ {0}
  /\ dict \in [1 .. VecSz -> OfType(IndexType)]
  /\ \A i \in 1 .. VecSz : dict[i] \in 0 .. Len(keys) - 1 /\ keys[dict[i] + 1] = s[i]

\* That is how the values of a vector are.
LEMMA IndexesOfVector ==
  ASSUME NEW c, IsColumn(c), NEW v \in 0 .. NumVecs(c) - 1, c.expr \in DictExprs,
         NEW s, s = VecOf(Data(c), v)
  PROVE  Indexes(c, s, Keys(Data(c)), DictOf(Data(c), s))
<1> DEFINE d == Data(c)
           n == VecSz * NumVecs(c)
           keys == Keys(d)
           dict == DictOf(d, s)
<1>1. n \in Nat \ {0} /\ d \in [1 .. n -> Cell(c)]
  BY ColumnIs DEF DataIs
<1>2. DOMAIN s = 1 .. VecSz /\ \A i \in 1 .. VecSz : \E j \in 1 .. n : s[i] = d[j]
  <2>1. VectorIs(c, v, VecOf(Data(c), v), VecOf(c.nulls, v))
    BY VectorOfColumn
  <2>2. s \in [1 .. VecSz -> Cell(c)]
    BY <2>1 DEF VectorIs
  <2>3. \A i \in 1 .. VecSz : v * VecSz + i \in 1 .. n /\ s[i] = d[v * VecSz + i]
    BY <2>1 DEF VectorIs
  <2> HIDE DEF n, d
  <2>4. \A i \in 1 .. VecSz : \E j \in 1 .. n : s[i] = d[j]
    BY <2>3
  <2> QED BY <2>2, <2>4
<1> HIDE DEF n, d
<1>3. /\ keys \in Seq(Cell(c)) /\ dict \in [1 .. VecSz -> 0 .. Len(keys) - 1]
      /\ \A i \in 1 .. VecSz : keys[dict[i] + 1] = s[i]
  <2>1. KeyIndexes(Cell(c), d, s)
    BY <1>1, <1>2, DictIs
  <2> QED BY <2>1 DEF KeyIndexes
<1>4. Len(keys) <= 2 ^ Width
  <2>1. PICK input \in Inputs : c.expr = input.expr /\ c.rows = input.rows /\ c.table = input.table
    BY DEF IsColumn
  <2>2. Data(input) = Data(c)
    BY <2>1 DEF Data, IsString
  <2>3. Len(Keys(Data(input))) <= 2 ^ Width
    BY <2>1, KeysAssumption DEF DictExprs
  <2> QED BY <2>2, <2>3 DEF d
<1> HIDE DEF keys, dict
<1>5. VecSz \in Nat \ {0}
  BY SizesAssumption
<1>6. Len(keys) \in Nat \ {0}
  <2>1. Len(keys) \in Nat
    BY <1>3
  <2>2. 1 \in 1 .. VecSz
    BY <1>5
  <2>3. dict[1] \in 0 .. Len(keys) - 1
    BY <1>3, <2>2
  <2> QED BY <2>1, <2>3
<1>7. \A i \in 1 .. VecSz : dict[i] \in 0 .. Len(keys) - 1
  BY <1>3
<1>8. \A i \in 1 .. VecSz : dict[i] \in OfType(IndexType)
  BY <1>4, <1>6, <1>7, IndexesAre
<1>9. dict \in [1 .. VecSz -> OfType(IndexType)]
  BY <1>3, <1>8
<1> QED BY <1>3, <1>6, <1>7, <1>9 DEF Indexes, keys, dict, d

\* u are indexes of keys, those of s but for null cells.
Lead(c, s, keys, isNull, u) ==
  /\ DOMAIN u = 1 .. VecSz /\ DOMAIN keys = 1 .. Len(keys)
  /\ \A i \in 1 .. VecSz : /\ u[i] \in 0 .. Len(keys) - 1
                           /\ keys[u[i] + 1] \in Cell(c)
                           /\ ~ isNull[i] => keys[u[i] + 1] = s[i]

\* Indexes that are recovered, but for null cells, lead to keys.
LEMMA IndexesLead ==
  ASSUME NEW c, NEW s, NEW keys, NEW dict, Indexes(c, s, keys, dict), NEW isNull,
         NEW u, Recovered(VecSz, IndexType, dict, isNull, FALSE, u)
  PROVE  Lead(c, s, keys, isNull, u)
<1>1. /\ keys \in Seq(Cell(c)) /\ Len(keys) \in Nat \ {0}
      /\ DOMAIN dict = 1 .. VecSz
      /\ \A i \in 1 .. VecSz : dict[i] \in 0 .. Len(keys) - 1 /\ keys[dict[i] + 1] = s[i]
  BY DEF Indexes
<1>2. /\ DOMAIN u = 1 .. VecSz
      /\ \A i \in 1 .. VecSz : u[i] \in Range(dict) \cup {0} /\ (~ isNull[i] => u[i] = dict[i])
  BY DEF Recovered
<1>3. DOMAIN keys = 1 .. Len(keys) /\ \A k \in 1 .. Len(keys) : keys[k] \in Cell(c)
  BY <1>1
<1>4. ASSUME NEW i \in 1 .. VecSz
      PROVE  /\ u[i] \in 0 .. Len(keys) - 1
             /\ keys[u[i] + 1] \in Cell(c)
             /\ ~ isNull[i] => keys[u[i] + 1] = s[i]
  <2>1. u[i] \in 0 .. Len(keys) - 1
    <3>1. CASE u[i] = 0
      BY <1>1, <3>1
    <3>2. CASE u[i] # 0
      <4>1. PICK j \in DOMAIN dict : u[i] = dict[j]
        BY <1>2, <3>2 DEF Range
      <4> QED BY <1>1, <4>1
    <3> QED BY <3>1, <3>2
  <2>2. u[i] + 1 \in 1 .. Len(keys)
    BY <1>1, <2>1
  <2>3. ~ isNull[i] => keys[u[i] + 1] = s[i]
    BY <1>1, <1>2
  <2> QED BY <1>3, <2>1, <2>2, <2>3
<1> QED BY <1>2, <1>3, <1>4 DEF Lead

\* DICT, DICT_SLPATCH, STR_DICT and STR_FSST_DICT.
LEMMA DictRestores ==
  ASSUME NEW c, IsColumn(c), NEW v \in 0 .. NumVecs(c) - 1, NEW before, c.expr \in DictExprs
  PROVE  Restores(c, v, Materialized(c, v, before))
<1> DEFINE s == VecOf(Data(c), v)
           isNull == VecOf(c.nulls, v)
           keys == Keys(Data(c))
           dict == DictOf(Data(c), s)
           vals == Materialized(c, v, before)
           a == AnalyzePatched(IndexType, dict, isNull, FALSE)
           plain == Unffor(IndexType, FforOf(Analyze(IndexType, dict, isNull, FALSE)))
           patched == Patch(Unffor(IndexType, FforOf(a)), a.exceptions)
           coded == Codes(c.table, keys)
<1>1. s \in [1 .. VecSz -> Cell(c)] /\ isNull \in [1 .. VecSz -> BOOLEAN]
  <2>1. VectorIs(c, v, s, isNull)
    BY VectorOfColumn
  <2> QED BY <2>1 DEF VectorIs
<1>2. Indexes(c, s, keys, dict)
  BY IndexesOfVector
<1> HIDE DEF s, isNull, keys, dict
<1>3. dict \in [1 .. VecSz -> OfType(IndexType)] /\ keys \in Seq(Cell(c)) /\ Len(keys) \in Nat \ {0}
  BY <1>2 DEF Indexes
<1>4. /\ Recovered(VecSz, IndexType, dict, isNull, FALSE, plain)
      /\ Recovered(VecSz, IndexType, dict, isNull, FALSE, patched)
  <2>1. /\ IsType(IndexType) /\ IndexType.bits <= MaxWidth /\ 0 \in OfType(IndexType)
        /\ VecSz \in Nat
    BY TypesAre, SizesAssumption
  <2>2. Recovered(VecSz, IndexType, dict, isNull, FALSE, plain)
    BY <1>1, <1>3, <2>1, AnalyzeRecovers
  <2> HIDE DEF a
  <2>3. Recovered(VecSz, IndexType, dict, isNull, FALSE, patched)
    BY <1>1, <1>3, <2>1, PatchedRecovers DEF a
  <2> QED BY <2>2, <2>3
<1>5. EncodeFfor(IndexType, dict, isNull).ffor = FforOf(Analyze(IndexType, dict, isNull, FALSE))
  BY DEF EncodeFfor
<1>6. EncodeFforPatched(IndexType, dict, isNull) = [ffor |-> FforOf(a), exceptions |-> a.exceptions]
  BY DEF EncodeFforPatched
<1>7. c.expr \in {"DICT_SLPATCH", "STR_DICT", "STR_FSST_DICT"} =>
        EncodeChunk(c, v, before) = [ffor |-> FforOf(a), exceptions |-> a.exceptions]
  <2>1. c.expr \in {"DICT_SLPATCH", "STR_DICT", "STR_FSST_DICT"} =>
          EncodeChunk(c, v, before) = EncodeFforPatched(IndexType, dict, isNull)
    BY DEF EncodeChunk, dict, s, isNull
  <2> HIDE DEF a
  <2> QED BY <1>6, <2>1
<1> HIDE DEF a
<1>8. PICK u : /\ Recovered(VecSz, IndexType, dict, isNull, FALSE, u)
               /\ vals = [i \in DOMAIN u |-> keys[u[i] + 1]]
  <2>1. CASE c.expr = "DICT"
    <3>1. EncodeChunk(c, v, before) = EncodeFfor(IndexType, dict, isNull)
      BY <2>1 DEF EncodeChunk, dict, s, isNull
    <3>2. FinalizeBlock(c) = [vals |-> keys]
      BY <2>1 DEF FinalizeBlock, keys
    <3>3. vals = Lookup(keys, Unffor(IndexType, EncodeFfor(IndexType, dict, isNull).ffor))
      BY <2>1, <3>1, <3>2 DEF DecodeChunk, Materialized
    <3>4. vals = Lookup(keys, plain)
      BY <1>5, <3>3
    <3> HIDE DEF plain, vals
    <3>5. vals = [i \in DOMAIN plain |-> keys[plain[i] + 1]]
      BY <3>4 DEF Lookup
    <3> QED BY <1>4, <3>5
  <2>2. CASE c.expr = "DICT_SLPATCH"
    <3>1. FinalizeBlock(c) = [vals |-> keys]
      BY <2>2 DEF FinalizeBlock, keys
    <3>2. vals = Lookup(keys, patched)
      BY <1>7, <2>2, <3>1 DEF DecodeChunk, Materialized
    <3> HIDE DEF patched, vals
    <3>3. vals = [i \in DOMAIN patched |-> keys[patched[i] + 1]]
      BY <3>2 DEF Lookup
    <3> QED BY <1>4, <3>3
  <2>3. CASE c.expr = "STR_DICT"
    <3> DEFINE bytes == Bytes(keys)
               ends == Ends(keys)
    <3>1. FinalizeBlock(c) = [bytes |-> bytes, ends |-> ends]
      BY <2>3 DEF FinalizeBlock, keys
    <3>2. Cell(c) = Seq(Nat)
      BY <2>3 DEF Cell, IsString, StringExprs
    <3>3. \A k \in 0 .. Len(keys) - 1 : Slice(bytes, ends, k) = keys[k + 1]
      BY <1>3, <3>2, UnjoinedIs DEF Unjoined
    <3> HIDE DEF bytes, ends
    <3>4. vals = Slices(bytes, ends, patched)
      BY <1>7, <2>3, <3>1 DEF DecodeChunk, Materialized
    <3> HIDE DEF patched, vals
    <3>5. vals = [i \in DOMAIN patched |-> Slice(bytes, ends, patched[i])]
      BY <3>4 DEF Slices
    <3>6. DOMAIN patched = 1 .. VecSz /\ \A i \in 1 .. VecSz : patched[i] \in 0 .. Len(keys) - 1
      <4>1. Lead(c, s, keys, isNull, patched)
        BY <1>2, <1>4, IndexesLead DEF patched
      <4> QED BY <4>1, Zenon DEF Lead
    <3>7. vals = [i \in DOMAIN patched |-> keys[patched[i] + 1]]
      BY <3>3, <3>5, <3>6
    <3> QED BY <1>4, <3>7
  <2>4. CASE c.expr = "STR_FSST_DICT"
    <3> DEFINE bytes == Bytes(coded)
               ends == Ends(coded)
    <3>1. FinalizeBlock(c) = [bytes |-> bytes, ends |-> ends, symbols |-> c.table]
      BY <2>4 DEF FinalizeBlock, keys
    <3>2. Cell(c) = Seq(Nat)
      BY <2>4 DEF Cell, IsString, StringExprs
    <3>3. coded = [k \in 1 .. Len(keys) |-> Code(c.table, keys[k])]
      BY <1>3 DEF Codes
    <3> HIDE DEF coded
    <3>4. ASSUME NEW k \in 1 .. Len(keys)
          PROVE  /\ Code(c.table, keys[k]) \in Seq(Nat \cup {Escape})
                 /\ Decompress(c.table, Code(c.table, keys[k])) = keys[k]
      <4>1. keys[k] \in Seq(Nat)
        BY <1>3, <3>2
      <4>2. Escape \notin c.table
        BY ColumnIs
      <4> QED BY <4>1, <4>2, DecompressIs
    <3>5. coded \in Seq(Seq(Nat \cup {Escape})) /\ Len(coded) = Len(keys)
      <4> DEFINE B == Seq(Nat \cup {Escape})
      <4> HIDE DEF B
      <4>1. coded \in [1 .. Len(keys) -> B]
        BY <3>3, <3>4 DEF B
      <4>2. Len(keys) \in Nat
        BY <1>3
      <4>3. coded \in Seq(B) /\ Len(coded) = Len(keys)
        BY <4>1, <4>2, FunctionsAreSequences
      <4> QED BY <4>3 DEF B
    <3>6. \A k \in 0 .. Len(keys) - 1 : Slice(bytes, ends, k) = coded[k + 1]
      BY <3>5, UnjoinedIs DEF Unjoined
    <3> HIDE DEF bytes, ends
    <3>7. vals = [i \in DOMAIN patched |-> Decompress(c.table, Slice(bytes, ends, patched[i]))]
      BY <1>7, <2>4, <3>1 DEF DecodeChunk, Materialized
    <3> HIDE DEF patched, vals
    <3>8. DOMAIN patched = 1 .. VecSz /\ \A i \in 1 .. VecSz : patched[i] \in 0 .. Len(keys) - 1
      <4>1. Lead(c, s, keys, isNull, patched)
        BY <1>2, <1>4, IndexesLead DEF patched
      <4> QED BY <4>1, Zenon DEF Lead
    <3>9. ASSUME NEW k \in 0 .. Len(keys) - 1
          PROVE  Decompress(c.table, Slice(bytes, ends, k)) = keys[k + 1]
      <4>1. k + 1 \in 1 .. Len(keys)
        BY <1>3
      <4>2. coded[k + 1] = Code(c.table, keys[k + 1])
        BY <3>3, <4>1
      <4> QED BY <3>4, <3>6, <4>1, <4>2
    <3>10. vals = [i \in DOMAIN patched |-> keys[patched[i] + 1]]
      BY <3>7, <3>8, <3>9
    <3> QED BY <1>4, <3>10
  <2> QED BY <2>1, <2>2, <2>3, <2>4 DEF DictExprs
<1> HIDE DEF vals
<1>9. /\ DOMAIN u = 1 .. VecSz
      /\ \A i \in 1 .. VecSz : keys[u[i] + 1] \in Cell(c) /\ (~ isNull[i] => keys[u[i] + 1] = s[i])
  <2>1. Lead(c, s, keys, isNull, u)
    BY <1>2, <1>8, IndexesLead
  <2> QED BY <2>1, Zenon DEF Lead
<1>10. vals \in [1 .. VecSz -> Cell(c)] /\ \A i \in 1 .. VecSz : ~ isNull[i] => vals[i] = s[i]
  BY <1>8, <1>9
<1> QED BY <1>10 DEF Restores, s, isNull, vals
\* The strings of a vector are strings one behind the other.
LEMMA StringsOfVector ==
  ASSUME NEW c, IsColumn(c), NEW v \in 0 .. NumVecs(c) - 1, c.expr \in StringExprs
  PROVE  /\ Cell(c) = Seq(Nat)
         /\ VecOf(Data(c), v) \in [1 .. VecSz -> Seq(Nat)]
         /\ VecOf(Data(c), v) \in Seq(Seq(Nat)) /\ Len(VecOf(Data(c), v)) = VecSz
<1> DEFINE s == VecOf(Data(c), v)
           A == Seq(Nat)
<1>1. Cell(c) = A
  BY DEF Cell, IsString
<1>2. VectorIs(c, v, s, VecOf(c.nulls, v))
  BY VectorOfColumn
<1> HIDE DEF s, A
<1>3. s \in [1 .. VecSz -> A]
  BY <1>1, <1>2 DEF VectorIs
<1>4. VecSz \in Nat
  BY SizesAssumption
<1>5. s \in Seq(A) /\ Len(s) = VecSz
  BY <1>3, <1>4, FunctionsAreSequences
<1> QED BY <1>1, <1>3, <1>5 DEF s, A

\* STR.
LEMMA StrRestores ==
  ASSUME NEW c, IsColumn(c), NEW v \in 0 .. NumVecs(c) - 1, NEW before, c.expr = "STR"
  PROVE  Restores(c, v, Materialized(c, v, before))
<1> DEFINE s == VecOf(Data(c), v)
           vals == Materialized(c, v, before)
           bytes == Bytes(s)
           lengths == LengthsOf(s)
<1>1. Cell(c) = Seq(Nat) /\ s \in [1 .. VecSz -> Seq(Nat)] /\ s \in Seq(Seq(Nat))
  BY StringsOfVector DEF StringExprs
<1>2. EncodeChunk(c, v, before) = [bytes |-> bytes, lengths |-> lengths]
  BY DEF EncodeChunk
<1> HIDE DEF s
<1>3. AllStrings(bytes, EndsOf(lengths)) = s
  <2>1. Unjoined(s)
    BY <1>1, UnjoinedIs
  <2> QED BY <2>1, Zenon DEF Unjoined, Ends
<1> HIDE DEF bytes, lengths
<1>4. vals = AllStrings(bytes, EndsOf(lengths))
  BY <1>2 DEF DecodeChunk, Materialized
<1> HIDE DEF vals
<1> QED BY <1>1, <1>3, <1>4 DEF Restores, s, vals

\* STR_FREQUENCY.
LEMMA FrequentRestores ==
  ASSUME NEW c, IsColumn(c), NEW v \in 0 .. NumVecs(c) - 1, NEW before, c.expr = "STR_FREQUENCY"
  PROVE  Restores(c, v, Materialized(c, v, before))
<1> DEFINE s == VecOf(Data(c), v)
           vals == Materialized(c, v, before)
           m == MostFrequent(c)
           x == Apart(s, Others(s, m))
           pos == [k \in DOMAIN x |-> x[k].pos]
           chunk == [pos |-> pos, bytes |-> Bytes(Vals(x)), ends |-> Ends(Vals(x))]
           b == [bytes |-> m, size |-> Len(m)]
<1>1. Cell(c) = Seq(Nat) /\ s \in [1 .. VecSz -> Seq(Nat)]
  BY StringsOfVector DEF StringExprs
<1>2. m \in Seq(Nat)
  <2>1. VecSz * NumVecs(c) \in Nat \ {0} /\ Data(c) \in [1 .. VecSz * NumVecs(c) -> Cell(c)]
    BY ColumnIs DEF DataIs
  <2> QED BY <1>1, <2>1, MostFrequentIs
<1>3. EncodeChunk(c, v, before) = chunk
  BY DEF EncodeChunk
<1>4. FinalizeBlock(c) = b
  BY DEF FinalizeBlock
<1> HIDE DEF s, m, x
<1>5. MergeFrequent(chunk, b) = s
  <2>1. x = Apart(s, Others(s, m))
    BY DEF x
  <2>2. chunk = OthersStored(x)
    BY DEF OthersStored
  <2>3. b = [bytes |-> m, size |-> Len(m)]
    OBVIOUS
  <2> HIDE DEF chunk, b
  <2> QED BY <1>1, <1>2, <2>1, <2>2, <2>3, MergeRecovers
<1> HIDE DEF chunk, b
<1>6. vals = MergeFrequent(chunk, b)
  BY <1>3, <1>4 DEF DecodeChunk, Materialized
<1> HIDE DEF vals
<1> QED BY <1>1, <1>5, <1>6 DEF Restores, s, vals

\* A vector lies within the column.
LEMMA VectorWithin ==
  ASSUME NEW n \in Nat, NEW v \in 0 .. n - 1, NEW w \in Nat
  PROVE  v * w + w <= w * n
<1>1. v \in Nat /\ v + 1 <= n
  OBVIOUS
<1>2. w * n - (v * w + w) = w * (n - (v + 1))
  BY <1>1
<1>3. \A y \in Nat : w * y \in Nat
  OBVIOUS
<1>4. w * (n - (v + 1)) \in Nat
  BY <1>1, <1>3
<1>5. v * w + w \in Int /\ w * n \in Int
  BY <1>1
<1> QED BY <1>2, <1>4, <1>5

\* CROSS_RLE and STR_CROSS_RLE.
LEMMA CrossRestores ==
  ASSUME NEW c, IsColumn(c), NEW v \in 0 .. NumVecs(c) - 1, NEW before,
         c.expr \in {"CROSS_RLE", "STR_CROSS_RLE"}
  PROVE  Restores(c, v, Materialized(c, v, before))
<1> DEFINE n == VecSz * NumVecs(c)
           d == Data(c)
           A == Cell(c)
           s == VecOf(Data(c), v)
           vals == Materialized(c, v, before)
           runs == RleVals(d)
           lengths == Lengths(d)
<1>1. n \in Nat \ {0} /\ d \in [1 .. n -> A] /\ NumVecs(c) \in Nat
  BY ColumnIs DEF DataIs
<1>2. VecSz \in Nat
  BY SizesAssumption
<1>3. v * VecSz + VecSz <= n
  BY <1>1, <1>2, VectorWithin
<1>4. vals = DecodeRleRange(lengths, runs, v)
  <2>1. CASE c.expr = "CROSS_RLE"
    <3>1. FinalizeBlock(c) = [vals |-> runs, lengths |-> lengths]
      BY <2>1 DEF FinalizeBlock
    <3> HIDE DEF runs, lengths
    <3> QED BY <2>1, <3>1 DEF DecodeChunk, Materialized
  <2>2. CASE c.expr = "STR_CROSS_RLE"
    <3> DEFINE bytes == Bytes(runs)
               ends == Ends(runs)
    <3>1. FinalizeBlock(c) = [bytes |-> bytes, ends |-> ends, lengths |-> lengths]
      BY <2>2 DEF FinalizeBlock
    <3>2. runs \in Seq(Seq(Nat))
      <4>1. A = Seq(Nat)
        BY <2>2 DEF Cell, IsString, StringExprs
      <4>2. Numbered(n, A, d)
        <5> HIDE DEF n, A, d
        <5> QED BY <1>1, RunsRecover
      <4> HIDE DEF n, d, A
      <4> QED BY <4>1, <4>2 DEF Numbered
    <3>3. AllStrings(bytes, ends) = runs
      <4> HIDE DEF runs
      <4>1. Unjoined(runs)
        BY <3>2, UnjoinedIs
      <4> QED BY <4>1, Zenon DEF Unjoined
    <3> HIDE DEF runs, lengths, bytes, ends
    <3>4. vals = DecodeRleRange(lengths, AllStrings(bytes, ends), v)
      BY <2>2, <3>1 DEF DecodeChunk, Materialized
    <3> QED BY <3>3, <3>4
  <2> QED BY <2>1, <2>2
<1>5. \A i \in 1 .. VecSz : s[i] = d[v * VecSz + i]
  <2>1. VectorIs(c, v, s, VecOf(c.nulls, v))
    BY VectorOfColumn
  <2> HIDE DEF s
  <2> QED BY <2>1 DEF VectorIs
<1> HIDE DEF n, d, A, vals, s
<1>6. /\ vals \in Seq(A) /\ Len(vals) = VecSz
      /\ \A i \in 1 .. VecSz : vals[i] = d[v * VecSz + i]
  <2>1. RunsOf(n, d, lengths, runs)
    BY <1>1, LengthsAre
  <2> HIDE DEF lengths, runs
  <2> QED BY <1>1, <1>3, <1>4, <2>1, RangeRecovers
<1>7. vals \in [1 .. VecSz -> A]
  BY <1>6
<1>8. \A i \in 1 .. VecSz : vals[i] = s[i]
  BY <1>5, <1>6
<1> QED BY <1>7, <1>8 DEF Restores, s, vals, A
\* FsstData leaves strings out for nulls only.
LEMMA FsstDataIs ==
  ASSUME NEW c, IsColumn(c), c.expr = "STR_FSST"
  PROVE  /\ FsstData(c) \in [1 .. VecSz * NumVecs(c) -> Seq(Nat)]
         /\ \A i \in 1 .. VecSz * NumVecs(c) : ~ c.nulls[i] => FsstData(c)[i] = Data(c)[i]
<1> DEFINE n == VecSz * NumVecs(c)
           d == Data(c)
           f == FsstData(c)
<1>1. /\ n \in Nat /\ d \in [1 .. n -> Cell(c)]
      /\ Len(c.rows) \in Nat /\ Len(c.rows) <= n
  BY ColumnIs DEF DataIs
<1>2. Cell(c) = Seq(Nat)
  BY DEF Cell, IsString, StringExprs
<1>3. \A i \in 1 .. Len(c.rows) : c.nulls[i] <=> c.rows[i] = Null
  BY DEF IsColumn
<1>4. f = [i \in DOMAIN d |-> IF i <= Len(c.rows) /\ c.rows[i] = Null THEN <<>> ELSE d[i]]
  BY DEF FsstData
<1> HIDE DEF n, d, f
<1>5. DOMAIN d = 1 .. n /\ \A i \in 1 .. n : d[i] \in Seq(Nat)
  BY <1>1, <1>2
<1>6. f \in [1 .. n -> Seq(Nat)]
  BY <1>4, <1>5
<1>7. ASSUME NEW i \in 1 .. n, ~ c.nulls[i] PROVE f[i] = d[i]
  <2>1. f[i] = IF i <= Len(c.rows) /\ c.rows[i] = Null THEN <<>> ELSE d[i]
    BY <1>4, <1>5
  <2>2. ~ (i <= Len(c.rows) /\ c.rows[i] = Null)
    BY <1>1, <1>3, <1>7
  <2> QED BY <2>1, <2>2
<1> QED BY <1>6, <1>7 DEF n, d, f

\* The strings of a vector for FSST, their codes, and where these end.
FsstVectorIs(c, v, strings, codes, ends) ==
  /\ strings = VecOf(FsstData(c), v) /\ strings \in [1 .. VecSz -> Seq(Nat)]
  /\ codes = Codes(c.table, strings) /\ ends = Ends(codes)
  /\ codes \in [1 .. VecSz -> Seq(Nat \cup {Escape})]
  /\ codes \in Seq(Seq(Nat \cup {Escape})) /\ Len(codes) = VecSz
  /\ \A i \in 1 .. VecSz : /\ Decompress(c.table, codes[i]) = strings[i]
                           /\ ~ VecOf(c.nulls, v)[i] => strings[i] = VecOf(Data(c), v)[i]
  /\ ends \in [1 .. VecSz -> OfType(OffsetType)] /\ ends[VecSz] = Len(Bytes(codes))
  /\ Bytes(codes) \in Seq(Nat \cup {Escape}) /\ Len(Bytes(codes)) \in Nat
  /\ NEncoded(c, strings, ends) = VecSz

\* All are encoded, and their offsets fit.
LEMMA FsstVector ==
  ASSUME NEW c, IsColumn(c), NEW v \in 0 .. NumVecs(c) - 1, c.expr = "STR_FSST",
         NEW strings, strings = VecOf(FsstData(c), v), NEW codes, codes = Codes(c.table, strings),
         NEW ends, ends = Ends(codes)
  PROVE  FsstVectorIs(c, v, strings, codes, ends)
<1> DEFINE n == NumVecs(c)
           f == FsstData(c)
           A == Seq(Nat)
           B == Seq(Nat \cup {Escape})
           lens == LengthsOf(codes)
<1>1. VecSz \in Nat \ {0}
  BY SizesAssumption
<1>2. n \in Nat /\ VecSz * n \in Nat
  BY ColumnIs DEF DataIs
<1>3. f \in [1 .. VecSz * n -> A] /\ \A i \in 1 .. VecSz * n : ~ c.nulls[i] => f[i] = Data(c)[i]
  BY FsstDataIs
<1>4. \A i \in 1 .. VecSz : /\ v * VecSz + i \in 1 .. VecSz * n
                            /\ VecOf(Data(c), v)[i] = Data(c)[v * VecSz + i]
                            /\ VecOf(c.nulls, v)[i] = c.nulls[v * VecSz + i]
  <2>1. VectorIs(c, v, VecOf(Data(c), v), VecOf(c.nulls, v))
    BY VectorOfColumn
  <2> QED BY <2>1, Zenon DEF VectorIs
<1> HIDE DEF n, f, A, B
<1>5. strings = [i \in 1 .. VecSz |-> f[v * VecSz + i]]
  BY DEF VecOf, VectorOf, f
<1>6. \A i \in 1 .. VecSz : f[v * VecSz + i] \in A
  BY <1>3, <1>4
<1>7. strings \in [1 .. VecSz -> A]
  BY <1>5, <1>6
<1>8. ASSUME NEW i \in 1 .. VecSz, ~ VecOf(c.nulls, v)[i] PROVE strings[i] = VecOf(Data(c), v)[i]
  <2> DEFINE p == v * VecSz + i
  <2>1. strings[i] = f[p]
    BY <1>5
  <2>2. p \in 1 .. VecSz * n /\ VecOf(Data(c), v)[i] = Data(c)[p] /\ ~ c.nulls[p]
    BY <1>4, <1>8, Zenon
  <2> HIDE DEF p
  <2> QED BY <1>3, <2>1, <2>2
<1>9. ASSUME NEW i \in 1 .. VecSz
      PROVE  codes[i] \in B /\ Decompress(c.table, codes[i]) = strings[i]
  <2>1. strings[i] \in Seq(Nat)
    BY <1>7 DEF A
  <2>2. Escape \notin c.table
    BY ColumnIs
  <2>3. codes[i] = Code(c.table, strings[i])
    BY <1>7 DEF Codes
  <2> QED BY <2>1, <2>2, <2>3, DecompressIs DEF B
<1>10. codes \in [1 .. VecSz -> B]
  <2>1. codes = [i \in 1 .. VecSz |-> Code(c.table, strings[i])]
    BY <1>7 DEF Codes
  <2> QED BY <1>9, <2>1
<1>11. codes \in Seq(B) /\ Len(codes) = VecSz
  BY <1>1, <1>10, FunctionsAreSequences
<1>12. Unjoined(codes)
  BY <1>11, UnjoinedIs DEF B
<1>13. lens \in Seq(Nat) /\ Len(lens) = VecSz /\ Sums(lens)[VecSz] = Len(Bytes(codes))
  BY <1>11, <1>12 DEF Unjoined
<1>14. Bytes(codes) \in Seq(Nat \cup {Escape})
  BY <1>11, JoinedFacts DEF Bytes, B
<1>15. Len(Bytes(codes)) \in Nat
  BY <1>14
<1>16. NEncoded(c, strings, ends) = VecSz /\ ends[VecSz] < 2 ^ OfsWidth
  <2>1. PICK input \in Inputs : c.expr = input.expr /\ c.rows = input.rows /\ c.table = input.table
    BY DEF IsColumn
  <2>2. Data(input) = Data(c) /\ NumVecs(input) = NumVecs(c)
    BY <2>1 DEF Data, IsString, NumVecs
  <2>3. FsstData(input) = FsstData(c)
    BY <2>1, <2>2 DEF FsstData
  <2>4. FsstCapacity(input) = FsstCapacity(c)
    BY <2>2 DEF FsstCapacity
  <2>5. \A ss, es : NEncoded(input, ss, es) = NEncoded(c, ss, es)
    BY <2>1, <2>4 DEF NEncoded
  <2>6. /\ NEncoded(input, VecOf(FsstData(input), v), Ends(Codes(input.table, VecOf(FsstData(input), v)))) = VecSz
        /\ Ends(Codes(input.table, VecOf(FsstData(input), v)))[VecSz] < 2 ^ OfsWidth
    BY <2>1, <2>2, FsstAssumption
  <2> QED BY <2>1, <2>3, <2>5, <2>6
<1> HIDE DEF lens
<1>17. ends = [k \in 1 .. VecSz |-> Sums(lens)[k]]
  <2>1. DOMAIN lens = 1 .. VecSz
    BY <1>13
  <2>2. ends = EndsOf(lens)
    BY Zenon DEF Ends, lens
  <2> QED BY <2>1, <2>2 DEF EndsOf
<1>18. ends[VecSz] = Len(Bytes(codes))
  <2>1. VecSz \in 1 .. VecSz
    BY <1>1
  <2> QED BY <1>13, <1>17, <2>1
<1>19. ends \in [1 .. VecSz -> OfType(OffsetType)]
  <2>1. ASSUME NEW k \in 1 .. VecSz PROVE Sums(lens)[k] \in OfType(OffsetType)
    <3>1. Sums(lens) \in [0 .. VecSz -> Nat] /\ Sums(lens)[k] <= Sums(lens)[VecSz]
      <4>1. k \in 0 .. VecSz /\ VecSz \in 0 .. VecSz /\ k <= VecSz
        BY <1>1
      <4> QED BY <1>13, <4>1, SumsGrow
    <3>2. Sums(lens)[k] \in Nat
      BY <1>1, <3>1
    <3>3. Sums(lens)[VecSz] < 2 ^ OfsWidth
      BY <1>13, <1>16, <1>18
    <3>4. IsType(OffsetType) /\ OffsetType.least = 0 /\ OffsetType.bits = OfsWidth
      BY TypesAre DEF OffsetType
    <3>5. 2 ^ OfsWidth \in Nat
      BY <3>4, OfTypeIs
    <3> DEFINE x == Sums(lens)[k]
    <3>6. x \in Int /\ 0 <= x /\ x < 0 + 2 ^ OfsWidth
      BY <1>13, <1>15, <3>1, <3>2, <3>3, <3>5
    <3> HIDE DEF x
    <3>7. x \in OfType(OffsetType)
      BY <3>4, <3>6, OfTypeIs
    <3> QED BY <3>7 DEF x
  <2> QED BY <1>17, <2>1
<1>20. \A i \in 1 .. VecSz : /\ Decompress(c.table, codes[i]) = strings[i]
                             /\ ~ VecOf(c.nulls, v)[i] => strings[i] = VecOf(Data(c), v)[i]
  BY <1>8, <1>9, Zenon
<1> QED BY <1>7, <1>10, <1>11, <1>14, <1>15, <1>16, <1>18, <1>19, <1>20, Zenon DEF FsstVectorIs, A, B, f
\* The chunk holds all codes, and where they end.
LEMMA FsstChunkIs ==
  ASSUME NEW c, NEW v, NEW strings, NEW codes, NEW ends, FsstVectorIs(c, v, strings, codes, ends), NEW before
  PROVE  FsstChunk(c, v, before) =
           [offsets |-> ends, bytes |-> Bytes(codes),
            sums |-> EncodeSumsPatched(OffsetType, ends, VecOf(c.nulls, v))]
<1> DEFINE isNull == VecOf(c.nulls, v)
           offsets == FsstOffsets(codes, NEncoded(c, strings, Ends(codes)), before)
<1>1. /\ strings = VecOf(FsstData(c), v) /\ codes = Codes(c.table, strings) /\ ends = Ends(codes)
      /\ ends \in [1 .. VecSz -> OfType(OffsetType)] /\ ends[VecSz] = Len(Bytes(codes))
      /\ Bytes(codes) \in Seq(Nat \cup {Escape}) /\ Len(Bytes(codes)) \in Nat
      /\ NEncoded(c, strings, ends) = VecSz
  BY Zenon DEF FsstVectorIs
<1> HIDE DEF isNull
<1>2. FsstChunk(c, v, before) =
        [offsets |-> offsets, bytes |-> Between(Bytes(codes), 0, offsets[VecSz]),
         sums |-> EncodeSumsPatched(OffsetType, offsets, isNull)]
  BY <1>1 DEF FsstChunk, isNull
<1>3. offsets = ends
  <2>1. offsets = [k \in 1 .. VecSz |-> IF VecSz = VecSz \/ k <= VecSz THEN ends[k] ELSE before[k]]
    BY <1>1 DEF FsstOffsets
  <2>2. offsets = [k \in 1 .. VecSz |-> ends[k]]
    BY <2>1
  <2>3. ends = [k \in 1 .. VecSz |-> ends[k]]
    BY <1>1
  <2> QED BY <2>2, <2>3
<1>4. Between(Bytes(codes), 0, ends[VecSz]) = Bytes(codes)
  <2> DEFINE b == Bytes(codes)
  <2>1. b = [i \in 1 .. Len(b) |-> b[i]] /\ Len(b) \in Nat
    BY <1>1
  <2> HIDE DEF b
  <2>2. Between(b, 0, Len(b)) = [i \in 1 .. Len(b) - 0 |-> b[0 + i]]
    BY Zenon DEF Between
  <2>3. Len(b) - 0 = Len(b) /\ \A i \in 1 .. Len(b) : 0 + i = i
    BY <2>1
  <2>4. Between(b, 0, Len(b)) = b
    BY <2>1, <2>2, <2>3
  <2> QED BY <1>1, <2>4 DEF b
<1> HIDE DEF offsets
<1> QED BY <1>2, <1>3, <1>4 DEF isNull

\* STR_FSST.
LEMMA FsstRestores ==
  ASSUME NEW c, IsColumn(c), NEW v \in 0 .. NumVecs(c) - 1, NEW before, c.expr = "STR_FSST"
  PROVE  Restores(c, v, Materialized(c, v, before))
<1> DEFINE strings == VecOf(FsstData(c), v)
           codes == Codes(c.table, strings)
           ends == Ends(codes)
           isNull == VecOf(c.nulls, v)
           s == VecOf(Data(c), v)
           vals == Materialized(c, v, before)
           bytes == Bytes(codes)
           sums == EncodeSumsPatched(OffsetType, ends, isNull)
<1>1. FsstVectorIs(c, v, strings, codes, ends)
  BY FsstVector
<1>2. Cell(c) = Seq(Nat) /\ isNull \in [1 .. VecSz -> BOOLEAN]
  <2>1. VectorIs(c, v, s, isNull)
    BY VectorOfColumn
  <2> QED BY <2>1 DEF VectorIs, Cell, IsString, StringExprs
<1> HIDE DEF strings, codes, ends
<1>3. EncodeChunk(c, v, before) = [offsets |-> ends, bytes |-> bytes, sums |-> sums]
  <2>1. FsstChunk(c, v, before) = [offsets |-> ends, bytes |-> bytes, sums |-> sums]
    BY <1>1, FsstChunkIs
  <2> QED BY <2>1 DEF EncodeChunk
<1>4. FinalizeBlock(c) = [symbols |-> c.table]
  BY DEF FinalizeBlock
<1>5. /\ strings \in [1 .. VecSz -> Seq(Nat)] /\ ends = Ends(codes)
      /\ codes \in Seq(Seq(Nat \cup {Escape})) /\ Len(codes) = VecSz
      /\ \A i \in 1 .. VecSz : /\ Decompress(c.table, codes[i]) = strings[i]
                               /\ ~ isNull[i] => strings[i] = s[i]
      /\ ends \in [1 .. VecSz -> OfType(OffsetType)]
  BY <1>1, Zenon DEF FsstVectorIs
<1> HIDE DEF isNull, s
<1>6. Untranspose(DecodeSumsPatched(OffsetType, sums)) = ends
  <2>1. IsType(OffsetType) /\ OffsetType.bits <= MaxWidth /\ 0 \in OfType(OffsetType)
    BY TypesAre
  <2>2. DecodeSumsPatched(OffsetType, sums) = Transpose(ends)
    BY <1>2, <1>5, <2>1, SumsRecover
  <2>3. Untransposed(ends)
    BY <1>5, TransposeIs
  <2> HIDE DEF sums
  <2> QED BY <2>2, <2>3, Zenon DEF Untransposed
<1>7. \A k \in 0 .. VecSz - 1 : Slice(bytes, ends, k) = codes[k + 1]
  <2>1. Unjoined(codes)
    BY <1>5, UnjoinedIs
  <2> QED BY <1>5, <2>1 DEF Unjoined
<1> HIDE DEF bytes, sums
<1>8. vals = FsstStrings([offsets |-> ends, bytes |-> bytes, sums |-> sums], [symbols |-> c.table].symbols)
  BY <1>3, <1>4 DEF DecodeChunk, Materialized
<1> HIDE DEF vals
<1>9. vals = [i \in 1 .. VecSz |-> Decompress(c.table, Slice(bytes, Untranspose(DecodeSumsPatched(OffsetType, sums)), i - 1))]
  BY <1>8 DEF FsstStrings
<1>10. vals = [i \in 1 .. VecSz |-> Decompress(c.table, Slice(bytes, ends, i - 1))]
  BY <1>6, <1>9
<1>11. ASSUME NEW i \in 1 .. VecSz PROVE vals[i] = strings[i]
  <2>1. i - 1 \in 0 .. VecSz - 1 /\ (i - 1) + 1 = i
    BY SizesAssumption
  <2>2. Slice(bytes, ends, i - 1) = codes[i]
    BY <1>7, <2>1
  <2> QED BY <1>5, <1>10, <2>2
<1>12. vals \in [1 .. VecSz -> Seq(Nat)]
  <2>1. \A i \in 1 .. VecSz : vals[i] \in Seq(Nat)
    BY <1>5, <1>11
  <2> QED BY <1>10, <2>1
<1>13. \A i \in 1 .. VecSz : ~ isNull[i] => vals[i] = s[i]
  BY <1>5, <1>11, Zenon
<1> QED BY <1>2, <1>12, <1>13, Zenon DEF Restores, isNull, s, vals

\* Every expression restores the vectors of a column.
LEMMA EveryRestores ==
  ASSUME NEW c, IsColumn(c), NEW v \in 0 .. NumVecs(c) - 1, NEW before
  PROVE  Restores(c, v, Materialized(c, v, before))
<1>1. c.expr \in NumericExprs \cup StringExprs
  BY ColumnIs
<1>2. CASE c.expr \in {"FFOR", "FFOR_SLPATCH"}
  BY <1>2, FforRestores
<1>3. CASE c.expr = "DELTA"
  BY <1>3, DeltaRestores
<1>4. CASE c.expr \in {"FREQUENCY", "NULL"}
  BY <1>4, ApartRestores
<1>5. CASE c.expr \in {"RLE", "RLE_SLPATCH", "STR_RLE"}
  BY <1>5, RleRestores
<1>6. CASE c.expr \in DictExprs
  BY <1>6, DictRestores
<1>7. CASE c.expr = "STR"
  BY <1>7, StrRestores
<1>8. CASE c.expr = "STR_FREQUENCY"
  BY <1>8, FrequentRestores
<1>9. CASE c.expr \in {"CROSS_RLE", "STR_CROSS_RLE"}
  BY <1>9, CrossRestores
<1>10. CASE c.expr = "STR_FSST"
  BY <1>10, FsstRestores
<1> QED
  BY <1>1, <1>2, <1>3, <1>4, <1>5, <1>6, <1>7, <1>8, <1>9, <1>10 DEF NumericExprs, StringExprs, DictExprs
-----------------------------------------------------------------------------
(* What is materialized *)

\* A vector's chunk is the same whatever offsets were there before.
LEMMA ChunkAsAny ==
  ASSUME NEW c, IsColumn(c), NEW v \in 0 .. NumVecs(c) - 1, NEW before, NEW after
  PROVE  EncodeChunk(c, v, before) = EncodeChunk(c, v, after)
<1>1. CASE c.expr = "STR_FSST"
  <2> DEFINE strings == VecOf(FsstData(c), v)
             codes == Codes(c.table, strings)
             ends == Ends(codes)
  <2>1. FsstVectorIs(c, v, strings, codes, ends)
    BY <1>1, FsstVector
  <2> HIDE DEF strings, codes, ends
  <2>2. FsstChunk(c, v, before) = FsstChunk(c, v, after)
    BY <2>1, FsstChunkIs
  <2> QED BY <1>1, <2>2 DEF EncodeChunk
<1>2. CASE c.expr # "STR_FSST"
  BY <1>2 DEF EncodeChunk
<1> QED BY <1>1, <1>2

\* The column of the reader that holds some values.
Holding(c, vals) ==
  IF IsString(c) THEN [data |-> <<>>, lengths |-> LengthsOf(vals), bytes |-> Bytes(vals)]
  ELSE [data |-> vals, lengths |-> <<>>, bytes |-> <<>>]

\* The values it holds.
Written(c, o) == IF IsString(c) THEN AllStrings(o.bytes, EndsOf(o.lengths)) ELSE o.data

\* It holds those values, and as many.
LEMMA HoldingIs ==
  ASSUME NEW c, NEW vals \in Seq(Cell(c)), NEW o, o = Holding(c, vals)
  PROVE  /\ Written(c, o) = vals
         /\ IsString(c) => /\ o.data = <<>> /\ o.lengths \in Seq(Nat) /\ Len(o.lengths) = Len(vals)
                           /\ Sums(o.lengths)[Len(o.lengths)] = Len(o.bytes)
         /\ ~ IsString(c) => o.data = vals /\ o.lengths = <<>> /\ o.bytes = <<>>
<1>1. CASE IsString(c)
  <2>1. vals \in Seq(Seq(Nat))
    BY <1>1 DEF Cell
  <2>2. /\ AllStrings(Bytes(vals), EndsOf(LengthsOf(vals))) = vals
        /\ LengthsOf(vals) \in Seq(Nat) /\ Len(LengthsOf(vals)) = Len(vals)
        /\ Sums(LengthsOf(vals))[Len(vals)] = Len(Bytes(vals))
    <3>1. Unjoined(vals)
      BY <2>1, UnjoinedIs
    <3> QED BY <3>1, Zenon DEF Unjoined, Ends
  <2>3. o.data = <<>> /\ o.lengths = LengthsOf(vals) /\ o.bytes = Bytes(vals)
    BY <1>1 DEF Holding
  <2> QED BY <1>1, <2>2, <2>3 DEF Written
<1>2. CASE ~ IsString(c)
  BY <1>2 DEF Holding, Written
<1> QED BY <1>1, <1>2

\* A column that holds nothing is as it begins.
LEMMA HoldingNothing == \A c : Holding(c, <<>>) = NoOutput
<1>1. <<>> \in Seq(Seq(Nat)) /\ Len(<<>>) = 0
  OBVIOUS
<1>2. Joined(<<>>) = <<>>
  <2>1. PICK g \in [0 .. Len(<<>>) -> Seq(Nat)] : JoinedBy(<<>>, g)
    BY <1>1, JoinedSteps
  <2> QED BY <1>1, <2>1 DEF JoinedBy
<1>3. LengthsOf(<<>>) = <<>>
  BY <1>1 DEF LengthsOf
<1> QED BY <1>2, <1>3 DEF Holding, NoOutput, Bytes

\* More values are held one behind the other.
LEMMA HoldingMore ==
  ASSUME NEW c, NEW x \in Seq(Cell(c)), NEW y \in Seq(Cell(c))
  PROVE  Extended(Holding(c, x), c, y) = Holding(c, x \o y)
<1>1. CASE IsString(c)
  <2>1. x \in Seq(Seq(Nat)) /\ y \in Seq(Seq(Nat))
    BY <1>1 DEF Cell
  <2>2. Joined(x \o y) = Joined(x) \o Joined(y) /\ LengthsOf(x \o y) = LengthsOf(x) \o LengthsOf(y)
    BY <2>1, JoinedBoth
  <2> DEFINE h == Holding(c, x)
             lengths == LengthsOf(x) \o LengthsOf(y)
             bytes == Joined(x) \o Joined(y)
  <2>3. h = [data |-> <<>>, lengths |-> LengthsOf(x), bytes |-> Joined(x)]
    BY <1>1 DEF Holding, Bytes
  <2>4. Holding(c, x \o y) = [data |-> <<>>, lengths |-> lengths, bytes |-> bytes]
    BY <1>1, <2>2 DEF Holding, Bytes
  <2> HIDE DEF h
  <2>5. Extended(h, c, y) =
          [h EXCEPT !.lengths = h.lengths \o LengthsOf(y), !.bytes = h.bytes \o Joined(y)]
    BY <1>1, Zenon DEF Extended, Bytes
  <2>6. h.lengths \o LengthsOf(y) = lengths /\ h.bytes \o Joined(y) = bytes
    BY <2>3
  <2> HIDE DEF lengths, bytes
  <2>7. Extended(h, c, y) = [h EXCEPT !.lengths = lengths, !.bytes = bytes]
    BY <2>5, <2>6
  <2>8. [h EXCEPT !.lengths = lengths, !.bytes = bytes] = [data |-> <<>>, lengths |-> lengths, bytes |-> bytes]
    <3> DEFINE g == [h EXCEPT !.lengths = lengths]
    <3>1. g = [data |-> <<>>, lengths |-> lengths, bytes |-> Joined(x)]
      BY <2>3
    <3>2. [h EXCEPT !.lengths = lengths, !.bytes = bytes] = [g EXCEPT !.bytes = bytes]
      OBVIOUS
    <3> HIDE DEF g
    <3> QED BY <3>1, <3>2
  <2>9. Extended(h, c, y) = Holding(c, x \o y)
    BY <2>4, <2>7, <2>8, Zenon
  <2> QED BY <2>9 DEF h
<1>2. CASE ~ IsString(c)
  <2> DEFINE h == Holding(c, x)
             data == x \o y
  <2>1. h = [data |-> x, lengths |-> <<>>, bytes |-> <<>>]
    BY <1>2 DEF Holding
  <2>2. Holding(c, x \o y) = [data |-> data, lengths |-> <<>>, bytes |-> <<>>]
    BY <1>2 DEF Holding
  <2> HIDE DEF h
  <2>3. Extended(h, c, y) = [h EXCEPT !.data = h.data \o y]
    BY <1>2, Zenon DEF Extended
  <2>4. h.data \o y = data
    BY <2>1
  <2> HIDE DEF data
  <2>5. Extended(h, c, y) = [h EXCEPT !.data = data]
    BY <2>3, <2>4
  <2> QED BY <2>1, <2>2, <2>5 DEF h
<1> QED BY <1>1, <1>2

\* Values of k vectors of the column, but for null cells.
VectorsOf(c, k, vals) ==
  /\ vals \in Seq(Cell(c)) /\ Len(vals) = VecSz * k
  /\ \A i \in 1 .. VecSz * k : c.nulls[i] \/ vals[i] = Data(c)[i]

\* The vectors of a column and the next.
LEMMA NextVector ==
  ASSUME NEW c, IsColumn(c), NEW k \in 0 .. NumVecs(c) - 1, NEW x, VectorsOf(c, k, x),
         NEW y, Restores(c, k, y)
  PROVE  y \in Seq(Cell(c)) /\ VectorsOf(c, k + 1, x \o y)
<1> DEFINE n == VecSz * k
           m == VecSz * (k + 1)
           A == Cell(c)
           d == Data(c)
           z == x \o y
<1>1. VecSz \in Nat \ {0} /\ k \in Nat /\ n \in Nat /\ m = n + VecSz
  <2>1. VecSz \in Nat \ {0} /\ k \in Nat
    BY SizesAssumption, ColumnIs DEF DataIs
  <2> QED BY <2>1
<1>2. \A i \in 1 .. VecSz : /\ ~ c.nulls[k * VecSz + i] => y[i] = d[k * VecSz + i]
  <2>1. VectorIs(c, k, VecOf(d, k), VecOf(c.nulls, k))
    BY VectorOfColumn
  <2>2. \A i \in 1 .. VecSz : /\ VecOf(d, k)[i] = d[k * VecSz + i]
                              /\ VecOf(c.nulls, k)[i] = c.nulls[k * VecSz + i]
    BY <2>1, Zenon DEF VectorIs
  <2>3. \A i \in 1 .. VecSz : ~ VecOf(c.nulls, k)[i] => y[i] = VecOf(d, k)[i]
    BY Zenon DEF Restores
  <2> QED BY <2>2, <2>3, Zenon
<1>3. y \in [1 .. VecSz -> A]
  BY DEF Restores
<1>4. x \in Seq(A) /\ Len(x) = n /\ \A i \in 1 .. n : c.nulls[i] \/ x[i] = d[i]
  BY DEF VectorsOf
<1>5. k * VecSz = n
  BY <1>1
<1> HIDE DEF A, d, z, n, m
<1>6. y \in Seq(A) /\ Len(y) = VecSz
  BY <1>1, <1>3, FunctionsAreSequences
<1>7. /\ z \in Seq(A) /\ Len(z) = m
      /\ \A i \in 1 .. n : z[i] = x[i]
      /\ \A i \in 1 .. VecSz : z[n + i] = y[i]
  <2>1. /\ x \o y \in Seq(A) /\ Len(x \o y) = Len(x) + Len(y)
        /\ \A i \in 1 .. Len(x) : (x \o y)[i] = x[i]
        /\ \A i \in 1 .. Len(y) : (x \o y)[Len(x) + i] = y[i]
    <3>1. x \in Seq(A) /\ y \in Seq(A)
      BY <1>4, <1>6
    <3> QED BY <3>1, Concatenation
  <2> QED BY <1>1, <1>4, <1>6, <2>1 DEF z
<1>8. ASSUME NEW i \in 1 .. m PROVE c.nulls[i] \/ z[i] = d[i]
  <2>1. CASE i \in 1 .. n
    BY <1>4, <1>7, <2>1, Zenon
  <2>2. CASE i \notin 1 .. n
    <3> DEFINE j == i - n
    <3>1. j \in 1 .. VecSz /\ n + j = i
      BY <1>1, <2>2
    <3> HIDE DEF j
    <3>2. z[i] = y[j]
      BY <1>7, <3>1
    <3>3. ~ c.nulls[i] => y[j] = d[i]
      BY <1>2, <1>5, <3>1, Zenon
    <3> QED BY <3>2, <3>3, Zenon
  <2> QED BY <2>1, <2>2
<1> QED BY <1>6, <1>7, <1>8, Zenon DEF VectorsOf, z, m, A, d
-----------------------------------------------------------------------------
(* The invariant *)

\* The vectors encoded so far.
ChunksAre(c, chs) ==
  /\ Len(chs) \in 0 .. NumVecs(c) /\ DOMAIN chs = 1 .. Len(chs) /\ chs \in Seq(Range(chs))
  /\ \A v \in 1 .. Len(chs) : chs[v] = EncodeChunk(c, v - 1, <<>>)

\* What has been materialized: whole vectors, but for null cells.
OutIs(c, o) ==
  \E k \in 0 .. NumVecs(c) : VectorsOf(c, k, Written(c, o)) /\ o = Holding(c, Written(c, o))

IInv ==
  /\ IsColumn(column)
  /\ ChunksAre(column, chunks)
  /\ block \in {None, FinalizeBlock(column)}
  /\ OutIs(column, out)

\* Decoded counts the vectors that have been materialized.
LEMMA DecodedIs ==
  ASSUME IInv
  PROVE  /\ Decoded \in 0 .. NumVecs(column)
         /\ VectorsOf(column, Decoded, Written(column, out))
         /\ out = Holding(column, Written(column, out))
<1> DEFINE c == column
           vals == Written(c, out)
<1>1. PICK k \in 0 .. NumVecs(c) : VectorsOf(c, k, vals) /\ out = Holding(c, vals)
  BY Zenon DEF IInv, OutIs
<1>2. VecSz \in Nat \ {0} /\ k \in Nat
  <2>1. NumVecs(c) \in Nat
    BY ColumnIs DEF IInv, DataIs
  <2> QED BY <2>1, SizesAssumption
<1>3. vals \in Seq(Cell(c)) /\ Len(vals) = VecSz * k
  BY <1>1 DEF VectorsOf
<1>4. Decoded = Len(vals) \div VecSz
  <2> HIDE DEF vals
  <2>1. CASE IsString(c)
    <3>1. Len(out.lengths) = Len(vals)
      BY <1>1, <1>3, <2>1, HoldingIs
    <3> QED BY <2>1, <3>1 DEF Decoded
  <2>2. CASE ~ IsString(c)
    <3>1. out.data = vals
      BY <1>1, <1>3, <2>2, HoldingIs
    <3> QED BY <2>2, <3>1 DEF Decoded
  <2> QED BY <2>1, <2>2
<1>5. Decoded = k
  <2>1. (VecSz * k + 0) \div VecSz = k
    BY <1>2, RemainderUnique
  <2>2. VecSz * k + 0 = VecSz * k
    BY <1>2
  <2> QED BY <1>3, <1>4, <2>1, <2>2
<1> QED BY <1>1, <1>5

\* NullMap() has an entry for each row and something behind them.
LEMMA InitColumn ==
  ASSUME Init
  PROVE  IsColumn(column)
<1>1. PICK input \in Inputs : \E behind \in [1 .. NumVecs(input) * VecSz - Len(input.rows) -> BOOLEAN] :
        column = [expr |-> input.expr, rows |-> input.rows, table |-> input.table,
                  nulls |-> [i \in DOMAIN input.rows |-> input.rows[i] = Null] \o behind]
  BY DEF Init
<1> DEFINE n == Len(input.rows)
           q == NumVecs(input)
           own == [i \in DOMAIN input.rows |-> input.rows[i] = Null]
<1>2. PICK behind \in [1 .. q * VecSz - n -> BOOLEAN] :
        column = [expr |-> input.expr, rows |-> input.rows, table |-> input.table, nulls |-> own \o behind]
  BY <1>1
<1>3. VecSz \in Nat \ {0} /\ n \in Nat /\ DOMAIN input.rows = 1 .. n
  BY SizesAssumption, InputsAssumption
<1>4. q \in Nat /\ n <= VecSz * q /\ VecSz * q \in Nat /\ q * VecSz = VecSz * q
  <2>1. n + VecSz - 1 \in Nat /\ q = (n + VecSz - 1) \div VecSz
    BY <1>3 DEF NumVecs
  <2> DEFINE a == n + VecSz - 1
  <2>2. a = VecSz * q + (a % VecSz) /\ a % VecSz \in 0 .. VecSz - 1 /\ q \in Nat
    BY <1>3, <2>1, DivisionFacts
  <2> DEFINE r == a % VecSz
             p == VecSz * q
  <2>3. p \in Nat /\ q * VecSz = p
    BY <1>3, <2>2
  <2> HIDE DEF q, r, p, n
  <2>4. n + VecSz - 1 = p + r /\ r \in 0 .. VecSz - 1
    BY <2>2 DEF p, r
  <2>5. n <= p
    BY <1>3, <2>3, <2>4
  <2> QED BY <2>2, <2>3, <2>5 DEF p
<1>5. column.expr = input.expr /\ column.rows = input.rows /\ column.table = input.table
      /\ column.nulls = own \o behind
  BY <1>2
<1>6. NumVecs(column) = q
  BY <1>5 DEF NumVecs
<1>7. own \in [1 .. n -> BOOLEAN]
  <2>1. \A i \in 1 .. n : (input.rows[i] = Null) \in BOOLEAN
    OBVIOUS
  <2> QED BY <1>3, <2>1
<1>8. \A i \in 1 .. n : own[i] <=> input.rows[i] = Null
  BY <1>3, Zenon
<1> DEFINE left == q * VecSz - n
<1>9. left \in Nat /\ n + left = VecSz * q
  BY <1>3, <1>4
<1> HIDE DEF own, q, left, n
<1>10. own \in Seq(BOOLEAN) /\ Len(own) = n
  BY <1>3, <1>7, FunctionsAreSequences
<1>11. behind \in Seq(BOOLEAN) /\ Len(behind) = left
  <2>1. behind \in [1 .. left -> BOOLEAN]
    BY DEF left
  <2> QED BY <1>9, <2>1, FunctionsAreSequences
<1>12. /\ own \o behind \in Seq(BOOLEAN) /\ Len(own \o behind) = VecSz * q
       /\ \A i \in 1 .. n : (own \o behind)[i] = own[i]
  <2>1. own \in Seq(BOOLEAN) /\ behind \in Seq(BOOLEAN)
    BY <1>10, <1>11
  <2>2. /\ own \o behind \in Seq(BOOLEAN) /\ Len(own \o behind) = Len(own) + Len(behind)
        /\ \A i \in 1 .. Len(own) : (own \o behind)[i] = own[i]
    BY <2>1, Concatenation
  <2> QED BY <1>9, <1>10, <1>11, <2>2
<1>13. \A i \in 1 .. Len(column.rows) : column.nulls[i] <=> column.rows[i] = Null
  <2>1. Len(column.rows) = n
    BY <1>5 DEF n
  <2>2. \A i \in 1 .. n : column.nulls[i] = own[i]
    BY <1>5, <1>12
  <2> QED BY <1>5, <1>8, <2>1, <2>2, Zenon
<1> QED BY <1>5, <1>6, <1>12, <1>13, Zenon DEF IsColumn

\* At first nothing is encoded or materialized.
LEMMA InitIInv == Init => IInv
<1> SUFFICES ASSUME Init PROVE IInv
  OBVIOUS
<1> DEFINE c == column
<1>1. IsColumn(c)
  BY InitColumn
<1>2. NumVecs(c) \in Nat /\ VecSz \in Nat
  BY <1>1, ColumnIs, SizesAssumption DEF DataIs
<1>3. ChunksAre(c, chunks)
  BY <1>2 DEF Init, ChunksAre
<1>4. block = None
  BY DEF Init
<1>5. OutIs(c, out)
  <2>1. out = Holding(c, <<>>)
    BY HoldingNothing DEF Init
  <2>2. <<>> \in Seq(Cell(c)) /\ Len(<<>>) = 0
    OBVIOUS
  <2>3. Written(c, out) = <<>>
    BY <2>1, <2>2, HoldingIs
  <2>4. VectorsOf(c, 0, <<>>)
    BY <1>2, <2>2 DEF VectorsOf
  <2>5. 0 \in 0 .. NumVecs(c)
    BY <1>2
  <2> QED BY <2>1, <2>3, <2>4, <2>5 DEF OutIs
<1> QED BY <1>1, <1>3, <1>4, <1>5 DEF IInv
\* The block that a vector is materialized with is the column's.
LEMMA BlockIs ==
  ASSUME NEW c, NEW b \in {None, FinalizeBlock(c)}, b = None => FinalizeBlock(c) = None
  PROVE  b = FinalizeBlock(c)
OBVIOUS

\* A vector encoded.
LEMMA EncodeKeepsIInv ==
  ASSUME IInv, EncodeVector
  PROVE  IInv'
<1> DEFINE c == column
           n == Len(chunks)
<1>1. IsColumn(c) /\ ChunksAre(c, chunks) /\ block \in {None, FinalizeBlock(c)} /\ OutIs(c, out)
  BY DEF IInv
<1>2. PICK before \in Scratch : chunks' = Append(chunks, EncodeChunk(c, n, before))
  BY DEF EncodeVector
<1>3. n < NumVecs(c) /\ column' = c /\ block' = block /\ out' = out
  BY DEF EncodeVector
<1>4. /\ NumVecs(c) \in Nat /\ n \in 0 .. NumVecs(c) /\ chunks \in Seq(Range(chunks))
      /\ \A v \in 1 .. n : chunks[v] = EncodeChunk(c, v - 1, <<>>)
  BY <1>1, ColumnIs DEF ChunksAre, DataIs
<1>5. n \in 0 .. NumVecs(c) - 1
  BY <1>3, <1>4
<1> DEFINE e == EncodeChunk(c, n, before)
<1>6. e = EncodeChunk(c, n, <<>>)
  BY <1>1, <1>5, ChunkAsAny
<1> HIDE DEF e
<1>7. /\ Len(chunks') = n + 1 /\ DOMAIN chunks' = 1 .. n + 1
      /\ \A v \in 1 .. n : chunks'[v] = chunks[v]
      /\ chunks'[n + 1] = e
  BY <1>2, <1>4 DEF e
<1>8. ASSUME NEW v \in 1 .. n + 1 PROVE chunks'[v] = EncodeChunk(c, v - 1, <<>>)
  <2>1. CASE v \in 1 .. n
    BY <1>4, <1>7, <2>1
  <2>2. CASE v = n + 1
    <3>1. v - 1 = n
      BY <1>4, <2>2
    <3> QED BY <1>6, <1>7, <2>2, <3>1
  <2> QED BY <1>4, <2>1, <2>2
<1>9. chunks' \in Seq(Range(chunks'))
  <2>1. chunks' \in [1 .. n + 1 -> Range(chunks')] /\ n + 1 \in Nat
    <3>1. chunks' = [v \in 1 .. n + 1 |-> chunks'[v]]
      <4> DEFINE S == Range(chunks) \cup {e}
      <4>1. chunks \in Seq(S) /\ e \in S
        <5>1. chunks \in Seq(Range(chunks)) /\ Range(chunks) \subseteq S
          BY <1>4
        <5> QED BY <5>1
      <4> HIDE DEF S
      <4>2. chunks' \in Seq(S)
        BY <1>2, <4>1 DEF e
      <4> QED BY <1>7, <4>2, SequenceFunctions
    <3>2. \A v \in 1 .. n + 1 : chunks'[v] \in Range(chunks')
      BY <1>7 DEF Range
    <3> QED BY <1>4, <3>1, <3>2
  <2> QED BY <2>1, FunctionsAreSequences
<1>10. n + 1 \in 0 .. NumVecs(c)
  BY <1>4, <1>5
<1>11. ChunksAre(c, chunks')
  BY <1>7, <1>8, <1>9, <1>10 DEF ChunksAre
<1> QED BY <1>1, <1>3, <1>11 DEF IInv

\* A vector materialized.
LEMMA MaterializeKeepsIInv ==
  ASSUME IInv, MaterializeVector
  PROVE  IInv'
<1> DEFINE c == column
           k == Decoded
           x == Written(c, out)
           y == Materialized(c, k, <<>>)
<1>1. IsColumn(c) /\ ChunksAre(c, chunks) /\ block \in {None, FinalizeBlock(c)}
  BY DEF IInv
<1>2. /\ Len(chunks) = NumVecs(c) /\ (block = None => FinalizeBlock(c) = None) /\ k < NumVecs(c)
      /\ out' = Extended(out, c, DecodeChunk(c.expr, k, chunks[k + 1], block))
      /\ column' = c /\ chunks' = chunks /\ block' = block
  BY DEF MaterializeVector
<1>3. NumVecs(c) \in Nat
  BY <1>1, ColumnIs DEF DataIs
<1>4. k \in 0 .. NumVecs(c) /\ VectorsOf(c, k, x) /\ out = Holding(c, x)
  BY DecodedIs
<1> HIDE DEF c, k, x
<1>5. k \in 0 .. NumVecs(c) - 1 /\ k + 1 \in 1 .. NumVecs(c) /\ k + 1 \in 0 .. NumVecs(c) /\ (k + 1) - 1 = k
  BY <1>2, <1>3, <1>4
<1>6. DecodeChunk(c.expr, k, chunks[k + 1], block) = y
  <2>1. chunks[k + 1] = EncodeChunk(c, k, <<>>)
    BY <1>1, <1>2, <1>5 DEF ChunksAre
  <2>2. block = FinalizeBlock(c)
    BY <1>1, <1>2, BlockIs
  <2> QED BY <2>1, <2>2 DEF Materialized
<1>7. Restores(c, k, y)
  BY <1>1, <1>5, EveryRestores
<1> HIDE DEF y
<1>8. y \in Seq(Cell(c)) /\ VectorsOf(c, k + 1, x \o y)
  BY <1>1, <1>4, <1>5, <1>7, NextVector
<1>9. x \in Seq(Cell(c)) /\ x \o y \in Seq(Cell(c))
  BY <1>4, <1>8 DEF VectorsOf
<1>10. out' = Holding(c, x \o y)
  BY <1>2, <1>4, <1>6, <1>8, <1>9, HoldingMore
<1>11. Written(c, out') = x \o y
  BY <1>9, <1>10, HoldingIs
<1>12. OutIs(c, out')
  BY <1>5, <1>8, <1>10, <1>11 DEF OutIs
<1> QED BY <1>1, <1>2, <1>12 DEF IInv, c

\* Every step keeps the invariant.
LEMMA NextIInv == IInv /\ [Next]_vars => IInv'
<1> SUFFICES ASSUME IInv, [Next]_vars PROVE IInv'
  OBVIOUS
<1>1. CASE EncodeVector
  BY <1>1, EncodeKeepsIInv
<1>2. CASE Finalize
  <2>1. block' = FinalizeBlock(column) /\ column' = column /\ chunks' = chunks /\ out' = out
    BY <1>2 DEF Finalize
  <2> QED BY <2>1 DEF IInv
<1>3. CASE MaterializeVector
  BY <1>3, MaterializeKeepsIInv
<1>4. CASE UNCHANGED vars
  BY <1>4 DEF IInv, vars
<1> QED BY <1>1, <1>2, <1>3, <1>4 DEF Next

\* The invariant holds, for all columns, sizes, widths, and whatever
\* NullMap() finds behind the rows.
THEOREM OperatorKernelsInvariant == Spec => []IInv
<1>1. Init => IInv
  BY InitIInv
<1>2. IInv /\ [Next]_vars => IInv'
  BY NextIInv
<1> QED BY <1>1, <1>2, PTL DEF Spec

\* The types follow from it.
LEMMA IInvTypes == IInv => KernelsTypeOK
<1> SUFFICES ASSUME IInv PROVE KernelsTypeOK
  OBVIOUS
<1> DEFINE c == column
           k == Decoded
           x == Written(c, out)
<1>1. IsColumn(c) /\ ChunksAre(c, chunks)
  BY DEF IInv
<1>2. c.expr \in NumericExprs \cup StringExprs /\ NumVecs(c) \in Nat
  BY <1>1, ColumnIs DEF DataIs
<1>3. k \in 0 .. NumVecs(c) /\ VectorsOf(c, k, x) /\ out = Holding(c, x)
  BY DecodedIs
<1> HIDE DEF k, x
<1>4. VecSz \in Nat \ {0} /\ k \in Nat /\ x \in Seq(Cell(c)) /\ Len(x) = VecSz * k
  BY <1>2, <1>3, SizesAssumption DEF VectorsOf
<1>5. c.nulls \in Seq(BOOLEAN) /\ Len(c.nulls) = NumVecs(c) * VecSz
  <2>1. c.nulls \in Seq(BOOLEAN) /\ Len(c.nulls) = VecSz * NumVecs(c)
    BY <1>1 DEF IsColumn
  <2>2. VecSz * NumVecs(c) = NumVecs(c) * VecSz
    BY <1>2, <1>4
  <2> QED BY <2>1, <2>2
<1>6. Len(chunks) <= NumVecs(c)
  BY <1>1, <1>2 DEF ChunksAre
<1>7. Len(x) % VecSz = 0 /\ 0 % VecSz = 0
  <2>1. (VecSz * k + 0) % VecSz = 0 /\ (VecSz * 0 + 0) % VecSz = 0
    <3>1. 0 \in 0 .. VecSz - 1 /\ k \in Int /\ 0 \in Int
      BY <1>4
    <3> QED BY <1>4, <3>1, RemainderUnique
  <2>2. VecSz * k + 0 = VecSz * k /\ VecSz * 0 + 0 = 0
    BY <1>4
  <2> QED BY <1>4, <2>1, <2>2
<1>8. <<>> \in Seq(Nat) /\ <<>> \in Seq(OfType(ValueType)) /\ Len(<<>>) = 0
  OBVIOUS
<1>9. /\ out.data \in Seq(OfType(ValueType)) /\ Len(out.data) % VecSz = 0
      /\ out.lengths \in Seq(Nat) /\ Len(out.lengths) % VecSz = 0
      /\ Sums(out.lengths)[Len(out.lengths)] = Len(out.bytes)
  <2>1. CASE IsString(c)
    <3>1. /\ out.data = <<>> /\ out.lengths \in Seq(Nat) /\ Len(out.lengths) = Len(x)
          /\ Sums(out.lengths)[Len(out.lengths)] = Len(out.bytes)
      BY <1>3, <1>4, <2>1, HoldingIs
    <3> QED BY <1>7, <1>8, <3>1
  <2>2. CASE ~ IsString(c)
    <3>1. out.data = x /\ out.lengths = <<>> /\ out.bytes = <<>>
      BY <1>3, <1>4, <2>2, HoldingIs
    <3>2. Cell(c) = OfType(ValueType)
      BY <2>2 DEF Cell
    <3>3. Sums(<<>>)[0] = 0
      <4>1. <<>> \in Seq(Int)
        OBVIOUS
      <4> QED BY <4>1, SumsSteps DEF SumsBy
    <3> QED BY <1>4, <1>7, <1>8, <3>1, <3>2, <3>3
  <2> QED BY <2>1, <2>2
<1> QED BY <1>2, <1>5, <1>6, <1>9 DEF KernelsTypeOK

\* Types: whole vectors are encoded and materialized, numbers are of their
\* type, and the lengths of strings add up to their bytes.
THEOREM OperatorKernelsTypes == Spec => []KernelsTypeOK
<1>1. IInv => KernelsTypeOK
  BY IInvTypes
<1> QED BY <1>1, OperatorKernelsInvariant, PTL
\* What has been materialized are the rows, but for nulls.
LEMMA IInvRoundTrip == IInv => RoundTrip
<1> SUFFICES ASSUME IInv PROVE RoundTrip
  OBVIOUS
<1> DEFINE c == column
           k == Decoded
           x == Written(c, out)
<1>1. IsColumn(c) /\ DataIs(c, Data(c))
  BY ColumnIs DEF IInv
<1>2. /\ k \in 0 .. NumVecs(c) /\ NumVecs(c) \in Nat /\ VecSz \in Nat
      /\ \A i \in 1 .. VecSz * k : c.nulls[i] \/ x[i] = Data(c)[i]
  BY <1>1, DecodedIs, SizesAssumption DEF VectorsOf, DataIs
<1>3. /\ Len(c.rows) \in Nat
      /\ \A i \in 1 .. Len(c.rows) : /\ c.rows[i] # Null => Data(c)[i] = c.rows[i]
                                     /\ c.nulls[i] <=> c.rows[i] = Null
  <2>1. \A i \in 1 .. Len(c.rows) : c.nulls[i] <=> c.rows[i] = Null
    BY <1>1, Zenon DEF IsColumn
  <2>2. /\ Len(c.rows) \in Nat
        /\ \A i \in 1 .. Len(c.rows) : c.rows[i] # Null => Data(c)[i] = c.rows[i]
    BY <1>1 DEF DataIs
  <2> QED BY <2>1, <2>2, Zenon
<1>4. Values = x
  BY DEF Values, Written
<1> HIDE DEF k, x, c
<1>5. k * VecSz = VecSz * k
  BY <1>2
<1>6. ASSUME NEW i \in 1 .. k * VecSz, i <= Len(c.rows), c.rows[i] # Null
      PROVE  x[i] = c.rows[i]
  <2>1. i \in 1 .. VecSz * k
    BY <1>5
  <2>2. i \in 1 .. Len(c.rows)
    <3>1. k * VecSz \in Int
      BY <1>2
    <3> QED BY <1>3, <1>6, <3>1
  <2>3. ~ c.nulls[i] /\ Data(c)[i] = c.rows[i]
    BY <1>3, <1>6, <2>2, Zenon
  <2> QED BY <1>2, <2>1, <2>3, Zenon
<1> QED BY <1>4, <1>6 DEF RoundTrip, k, c

\* Round trip: a row that is not null is materialized as it was ingested, by
\* every expression, whatever NullMap() finds behind the rows.
THEOREM OperatorKernelsRoundTrip == Spec => []RoundTrip
<1>1. IInv => RoundTrip
  BY IInvRoundTrip
<1> QED BY <1>1, OperatorKernelsInvariant, PTL

\* The runs of a column are those stored in its block.
LEMMA IInvRuns == IInv => RunsTile
<1> SUFFICES ASSUME IInv, column.expr \in {"CROSS_RLE", "STR_CROSS_RLE"}, block # None PROVE RunsTile
  BY DEF RunsTile
<1> DEFINE c == column
           n == VecSz * NumVecs(c)
           d == Data(c)
           A == Cell(c)
           runs == RleVals(d)
           lengths == Lengths(d)
           vals == IF IsString(c) THEN AllStrings(block.bytes, block.ends) ELSE block.vals
<1>1. IsColumn(c) /\ block = FinalizeBlock(c)
  BY DEF IInv
<1>2. n \in Nat \ {0} /\ d \in [1 .. n -> A] /\ NumVecs(c) \in Nat /\ VecSz \in Nat
  BY <1>1, ColumnIs, SizesAssumption DEF DataIs
<1>3. RunsOf(n, d, lengths, runs) /\ Numbered(n, A, d)
  <2> HIDE DEF n, d, A
  <2> QED BY <1>2, LengthsAre, RunsRecover
<1>4. block.lengths = lengths /\ vals = runs
  <2>1. CASE c.expr = "CROSS_RLE"
    <3>1. block = [vals |-> runs, lengths |-> lengths]
      BY <1>1, <2>1 DEF FinalizeBlock
    <3>2. ~ IsString(c)
      BY <2>1 DEF IsString, StringExprs
    <3> HIDE DEF runs, lengths
    <3> QED BY <3>1, <3>2
  <2>2. CASE c.expr = "STR_CROSS_RLE"
    <3> DEFINE bytes == Bytes(runs)
               ends == Ends(runs)
    <3>1. block = [bytes |-> bytes, ends |-> ends, lengths |-> lengths]
      BY <1>1, <2>2 DEF FinalizeBlock
    <3>2. IsString(c) /\ A = Seq(Nat)
      BY <2>2 DEF Cell, IsString, StringExprs
    <3>3. runs \in Seq(Seq(Nat))
      <4> HIDE DEF n, d, A
      <4> QED BY <1>3, <3>2 DEF Numbered
    <3>4. AllStrings(bytes, ends) = runs
      <4> HIDE DEF runs
      <4>1. Unjoined(runs)
        BY <3>3, UnjoinedIs
      <4> QED BY <4>1, Zenon DEF Unjoined
    <3> HIDE DEF runs, lengths, bytes, ends
    <3> QED BY <3>1, <3>2, <3>4
  <2> QED BY <2>1, <2>2
<1> HIDE DEF n, d, A, runs, lengths, vals
<1>5. /\ lengths \in Seq(Nat \ {0}) /\ Len(lengths) \in Nat \ {0} /\ Len(runs) = Len(lengths)
      /\ Sums(lengths)[Len(lengths)] = n
      /\ \A k \in 1 .. Len(lengths) - 1 : runs[k] # runs[k + 1]
  BY <1>3 DEF RunsOf
<1>6. \A k \in 1 .. Len(lengths) : lengths[k] > 0
  <2>1. \A k \in 1 .. Len(lengths) : lengths[k] \in Nat \ {0}
    BY <1>5
  <2> QED BY <2>1
<1>7. n = NumVecs(c) * VecSz
  BY <1>2 DEF n
<1> QED BY <1>4, <1>5, <1>6, <1>7 DEF RunsTile, vals

\* The runs stored for a column are as long as they can be and cover its
\* vectors completely.
THEOREM OperatorKernelsRuns == Spec => []RunsTile
<1>1. IInv => RunsTile
  BY IInvRuns
<1> QED BY <1>1, OperatorKernelsInvariant, PTL
\* The exceptions and the bit width that have been found are stored.
StoredIs(e, a) == e.exceptions = a.exceptions /\ e.ffor.bw = a.bw

\* What is stored with patches of a vector's chunk.
StoredSmallest(c, v, chunk) ==
  \E a : /\ SmallestRange(AnalyzedType(c), Analyzed(c, v, chunk), a)
         /\ StoredIs(SlpatchOf(c, chunk), a)

\* FforOf keeps the bit width.
LEMMA PatchedStored ==
  ASSUME NEW type, NEW s, NEW isNull, NEW a, a = AnalyzePatched(type, s, isNull, FALSE)
  PROVE  StoredIs(EncodeFforPatched(type, s, isNull), a)
<1> DEFINE f == Ffor(a.data, a.base, a.bw)
<1>1. EncodeFforPatched(type, s, isNull) = [ffor |-> f, exceptions |-> a.exceptions]
  BY DEF EncodeFforPatched, FforOf
<1>2. f.bw = a.bw
  BY DEF Ffor
<1> DEFINE e == EncodeFforPatched(type, s, isNull)
           x == a.exceptions
<1> HIDE DEF f, e, x
<1>3. e.exceptions = x /\ e.ffor = f
  BY <1>1 DEF e, x
<1> QED BY <1>2, <1>3 DEF e, x, StoredIs

\* That is so for deltas.
LEMMA SumsStored ==
  ASSUME NEW type, NEW s, NEW isNull, NEW a, a = AnalyzePatched(type, Unrsum(type, Transpose(s)), isNull, TRUE)
  PROVE  StoredIs(EncodeSumsPatched(type, s, isNull), a)
<1> DEFINE f == Ffor(a.data, a.base, a.bw)
           b == Bases(Transpose(s))
<1>1. EncodeSumsPatched(type, s, isNull) = [bases |-> b, ffor |-> f, exceptions |-> a.exceptions]
  BY DEF EncodeSumsPatched, FforOf
<1>2. f.bw = a.bw
  BY DEF Ffor
<1> DEFINE e == EncodeSumsPatched(type, s, isNull)
           x == a.exceptions
<1> HIDE DEF f, b, e, x
<1>3. e.exceptions = x /\ e.ffor = f
  BY <1>1 DEF e, x
<1> QED BY <1>2, <1>3 DEF e, x, StoredIs

\* What is stored is as small as can be.
LEMMA ChunkSmallest ==
  ASSUME NEW c, IsColumn(c), Patched(c), NEW v \in 0 .. NumVecs(c) - 1,
         NEW chunk, chunk = EncodeChunk(c, v, <<>>)
  PROVE  StoredSmallest(c, v, chunk)
<1> DEFINE s == VecOf(Data(c), v)
           isNull == VecOf(c.nulls, v)
           t == AnalyzedType(c)
           u == Analyzed(c, v, chunk)
<1>1. /\ s \in [1 .. VecSz -> Cell(c)] /\ isNull \in [1 .. VecSz -> BOOLEAN]
      /\ VecSz \in Nat \ {0}
  <2>1. VectorIs(c, v, s, isNull)
    BY VectorOfColumn
  <2> QED BY <2>1, SizesAssumption DEF VectorIs
<1>2. IsType(t) /\ t.bits <= MaxWidth /\ 0 \in OfType(t)
  <2>1. t \in {ValueType, IndexType, OffsetType}
    BY DEF AnalyzedType
  <2> HIDE DEF t
  <2> QED BY <2>1, TypesAre
<1>3. CASE c.expr = "FFOR_SLPATCH"
  <2> DEFINE a == AnalyzePatched(t, u, isNull, FALSE)
  <2>1. t = ValueType /\ u = s /\ Cell(c) = OfType(ValueType) /\ SlpatchOf(c, chunk) = chunk
    BY <1>3 DEF AnalyzedType, Analyzed, Indexed, Cell, IsString, StringExprs, SlpatchOf, Summed
  <2>2. chunk = EncodeFforPatched(ValueType, s, isNull)
    BY <1>3 DEF EncodeChunk
  <2> HIDE DEF s, isNull, t, u
  <2>3. SmallestRange(t, u, a)
    <3> HIDE DEF a
    <3> QED BY <1>1, <1>2, <2>1, PatchedSmallest DEF a
  <2>4. StoredIs(chunk, a)
    <3> HIDE DEF a
    <3> QED BY <2>1, <2>2, PatchedStored DEF a
  <2> HIDE DEF a
  <2> QED BY <2>1, <2>3, <2>4 DEF StoredSmallest, t, u
<1>4. CASE c.expr \in Indexed
  <2> DEFINE a == AnalyzePatched(t, u, isNull, FALSE)
             keys == Keys(Data(c))
             dict == DictOf(Data(c), s)
  <2>1. t = IndexType /\ u = dict /\ SlpatchOf(c, chunk) = chunk
    BY <1>4 DEF AnalyzedType, Analyzed, Indexed, SlpatchOf, Summed
  <2>2. chunk = EncodeFforPatched(IndexType, dict, isNull)
    BY <1>4 DEF EncodeChunk, Indexed
  <2>3. dict \in [1 .. VecSz -> OfType(IndexType)]
    <3>1. Indexes(c, s, keys, dict)
      BY <1>4, IndexesOfVector DEF Indexed, DictExprs
    <3> QED BY <3>1 DEF Indexes
  <2> HIDE DEF s, isNull, t, u, dict
  <2>4. SmallestRange(t, u, a)
    <3> HIDE DEF a
    <3> QED BY <1>1, <1>2, <2>1, <2>3, PatchedSmallest DEF a
  <2>5. StoredIs(chunk, a)
    <3> HIDE DEF a
    <3> QED BY <2>1, <2>2, PatchedStored DEF a
  <2> HIDE DEF a
  <2> QED BY <2>1, <2>4, <2>5 DEF StoredSmallest, t, u
<1>5. ASSUME NEW x \in [1 .. VecSz -> OfType(t)], u = Unrsum(t, Transpose(x)),
             SlpatchOf(c, chunk) = EncodeSumsPatched(t, x, isNull)
      PROVE  StoredSmallest(c, v, chunk)
  <2> DEFINE a == AnalyzePatched(t, u, isNull, TRUE)
  <2> HIDE DEF s, isNull, t, u
  <2>1. u \in [1 .. VecSz -> OfType(t)]
    <3>1. Transpose(x) \in [1 .. VecSz -> OfType(t)]
      BY TransposeIs
    <3> QED BY <1>2, <1>5, <3>1, UnrsumIs
  <2>2. SmallestRange(t, u, a)
    <3> HIDE DEF a
    <3> QED BY <1>1, <1>2, <2>1, PatchedSmallest DEF a
  <2>3. StoredIs(SlpatchOf(c, chunk), a)
    <3> HIDE DEF a
    <3> QED BY <1>5, SumsStored DEF a
  <2> HIDE DEF a
  <2> QED BY <2>2, <2>3 DEF StoredSmallest, t, u
<1>6. CASE c.expr = "RLE_SLPATCH"
  <2> DEFINE x == RleIdxs(s)
  <2>1. t = IndexType /\ u = Unrsum(IndexType, Transpose(x))
    BY <1>6 DEF AnalyzedType, Analyzed, Indexed, Summed
  <2>2. x \in [1 .. VecSz -> OfType(IndexType)]
    BY <1>1, RunIndexes
  <2> DEFINE sums == EncodeSumsPatched(IndexType, x, isNull)
             runs == RleVals(s)
  <2>3. chunk = [sums |-> sums, vals |-> runs]
    BY <1>6 DEF EncodeChunk
  <2>4. SlpatchOf(c, chunk) = chunk.sums
    BY <1>6 DEF SlpatchOf, Summed
  <2> HIDE DEF s, isNull, t, u, x, sums, runs
  <2>5. SlpatchOf(c, chunk) = sums
    BY <2>3, <2>4
  <2> QED BY <1>5, <2>1, <2>2, <2>5 DEF sums
<1>7. CASE c.expr = "STR_FSST"
  <2> DEFINE strings == VecOf(FsstData(c), v)
             codes == Codes(c.table, strings)
             x == Ends(codes)
             sums == EncodeSumsPatched(OffsetType, x, isNull)
  <2>1. FsstVectorIs(c, v, strings, codes, x)
    BY <1>7, FsstVector
  <2>2. FsstChunk(c, v, <<>>) = [offsets |-> x, bytes |-> Bytes(codes), sums |-> sums]
    BY <2>1, FsstChunkIs
  <2>3. chunk = FsstChunk(c, v, <<>>)
    BY <1>7 DEF EncodeChunk
  <2>4. x \in [1 .. VecSz -> OfType(OffsetType)]
    BY <2>1, Zenon DEF FsstVectorIs
  <2> HIDE DEF strings, codes, x, sums
  <2>5. chunk.offsets = x /\ chunk.sums = sums
    BY <2>2, <2>3
  <2>6. t = OffsetType /\ u = Unrsum(OffsetType, Transpose(chunk.offsets)) /\ SlpatchOf(c, chunk) = chunk.sums
    BY <1>7 DEF AnalyzedType, Analyzed, Indexed, SlpatchOf, Summed
  <2> HIDE DEF s, isNull, t, u
  <2> QED BY <1>5, <2>4, <2>5, <2>6 DEF sums
<1> QED BY <1>3, <1>4, <1>6, <1>7 DEF Patched, Summed

\* So it is for the chunks of the column.
LEMMA IInvSmallest ==
  ASSUME IInv, Patched(column), NEW v \in DOMAIN chunks
  PROVE  StoredSmallest(column, v - 1, chunks[v])
<1> DEFINE c == column
<1>1. IsColumn(c) /\ ChunksAre(c, chunks)
  BY DEF IInv
<1>2. NumVecs(c) \in Nat
  BY <1>1, ColumnIs DEF DataIs
<1>3. /\ Len(chunks) \in 0 .. NumVecs(c) /\ DOMAIN chunks = 1 .. Len(chunks)
      /\ \A w \in 1 .. Len(chunks) : chunks[w] = EncodeChunk(c, w - 1, <<>>)
  BY <1>1 DEF ChunksAre
<1>4. v - 1 \in 0 .. NumVecs(c) - 1 /\ chunks[v] = EncodeChunk(c, v - 1, <<>>)
  BY <1>2, <1>3
<1> QED BY <1>1, <1>4, ChunkSmallest

\* Few exceptions: the exceptions of a vector are fewer than LOCAL_EXC_LIMIT_C,
\* at increasing positions, although is_exception and find_best_option do not
\* compare in the same way.
THEOREM OperatorKernelsExceptions == Spec => []FewExceptions
<1>1. ASSUME IInv, Patched(column), NEW v \in DOMAIN chunks
      PROVE  LET x == SlpatchOf(column, chunks[v]).exceptions
             IN  /\ Len(x) < ExcLimit
                 /\ \A k \in 1 .. Len(x) - 1 : x[k].pos < x[k + 1].pos
  <2>1. StoredSmallest(column, v - 1, chunks[v])
    BY <1>1, IInvSmallest
  <2> QED BY <2>1 DEF StoredSmallest, StoredIs, SmallestRange
<1>2. IInv => FewExceptions
  BY <1>1 DEF FewExceptions
<1> QED BY <1>2, OperatorKernelsInvariant, PTL

\* No better range: a vector takes no more bits than with any other range of
\* values that leaves fewer than LOCAL_EXC_LIMIT_C of them out.
THEOREM OperatorKernelsSmallest == Spec => []NoBetterRange
<1>1. ASSUME IInv, Patched(column), NEW v \in DOMAIN chunks
      PROVE  LET chunk == SlpatchOf(column, chunks[v])
                 s == Analyzed(column, v - 1, chunks[v])
                 t == AnalyzedType(column)
             IN  \A lo \in OfType(t) : \A bw \in 0 .. t.bits :
                   LET n == OutOf(s, lo, lo + 2 ^ bw - 1)
                   IN  n < ExcLimit =>
                         OptionSize(t, chunk.ffor.bw, Len(chunk.exceptions)) <= OptionSize(t, bw, n)
  <2>1. StoredSmallest(column, v - 1, chunks[v])
    BY <1>1, IInvSmallest
  <2> QED BY <2>1 DEF StoredSmallest, StoredIs, SmallestRange
<1>2. IInv => NoBetterRange
  BY <1>1 DEF NoBetterRange
<1> QED BY <1>2, OperatorKernelsInvariant, PTL
=============================================================================
