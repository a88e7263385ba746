------------------------- MODULE RowgroupIngestProofs -------------------------
(***************************************************************************)
(* What holds of RowgroupIngest for every schema, every size of vectors    *)
(* and rowgroups and every file: the lengths of columns and null maps, the *)
(* types of the values, and that the casts keep them.                      *)
(***************************************************************************)
EXTENDS RowgroupIngest, DataLemmas

-----------------------------------------------------------------------------
(* Division *)

\* What the CSV reader adds to n tuples makes whole vectors, as many as VecCount
\* rounds up to.
LEMMA FillingCompletes ==
  ASSUME NEW v \in Nat \ {0}, NEW n \in Nat
  PROVE  /\ (v - (n % v)) % v \in Nat
         /\ n + ((v - (n % v)) % v) = ((n + v - 1) \div v) * v
<1> DEFINE q == n \div v
           r == n % v
           p == (n + v - 1) \div v
           s == (n + v - 1) % v
<1>1. n = v * q + r /\ r \in 0 .. v - 1 /\ q \in Nat
  BY DivisionFacts, Zenon
<1>2. n + v - 1 \in Nat
  BY Z3
<1>3. n + v - 1 = v * p + s /\ s \in 0 .. v - 1 /\ p \in Nat
  BY <1>2, DivisionFacts, Zenon
<1>4. CASE r = 0
  <2>1. (v - r) % v = 0
    BY <1>4, Z3
  <2>2. v * q + (v - 1) = v * p + s
    <3> HIDE DEF q, r, p, s
    <3> QED BY <1>1, <1>3, <1>4, Z3
  <2>3. q = p
    <3> HIDE DEF q, r, p, s
    <3>1. v - 1 \in 0 .. v - 1
      BY Z3
    <3> QED BY <1>1, <1>3, <2>2, <3>1, DivisionUnique
  <2>4. n + ((v - r) % v) = p * v
    <3> HIDE DEF q, r, p, s
    <3> QED BY <1>1, <1>3, <1>4, <2>1, <2>3, Z3
  <2> QED BY <2>1, <2>4, Z3
<1>5. CASE r # 0
  <2> HIDE DEF q, r, p, s
  <2>1. v - r \in 0 .. v - 1
    BY <1>1, <1>5, Z3
  <2>2. (v - r) % v = v - r
    BY <2>1, Z3
  <2>3. v * (q + 1) = v * q + v
    BY <1>1, Z3
  <2>4. v * (q + 1) + (r - 1) = v * p + s /\ r - 1 \in 0 .. v - 1 /\ q + 1 \in Int
    BY <1>1, <1>3, <1>5, <2>3, Z3
  <2>5. q + 1 = p
    BY <1>1, <1>3, <2>4, DivisionUnique
  <2>6. n + ((v - r) % v) = p * v
    BY <1>1, <1>3, <2>2, <2>3, <2>5, Z3
  <2> QED BY <2>1, <2>2, <2>6, Z3 DEF q, r, p
<1> QED BY <1>4, <1>5

-----------------------------------------------------------------------------
(* The lengths of a column *)

IsSequence(s) == \E S : s \in Seq(S)

IsColumn(col) ==
  \E D, M, N, K : col \in [data : D, null_map_arr : M, n_nulls : N, keys : K]

\* A column of n values and m entries of its null map.
Sized(col, n, m) ==
  /\ IsColumn(col)
  /\ IsSequence(col.data) /\ Len(col.data) = n
  /\ IsSequence(col.null_map_arr) /\ Len(col.null_map_arr) = m

\* Append makes a sequence longer by one.
LEMMA AppendLength ==
  ASSUME NEW s, NEW e, IsSequence(s)
  PROVE  IsSequence(Append(s, e)) /\ Len(Append(s, e)) = Len(s) + 1
<1>1. PICK S : s \in Seq(S)
  BY DEF IsSequence
<1>2. s \in Seq(S \cup {e}) /\ e \in S \cup {e}
  BY <1>1
<1>3. Append(s, e) \in Seq(S \cup {e}) /\ Len(Append(s, e)) = Len(s) + 1
  BY <1>2
<1> QED BY <1>3 DEF IsSequence

\* Repeating an element n times behind a sequence makes it longer by n.
LEMMA RepeatLength ==
  ASSUME NEW s, NEW e, NEW n \in Nat, IsSequence(s)
  PROVE  IsSequence(s \o [i \in 1 .. n |-> e]) /\ Len(s \o [i \in 1 .. n |-> e]) = Len(s) + n
<1>1. PICK S : s \in Seq(S)
  BY DEF IsSequence
<1>2. PICK t : t = [i \in 1 .. n |-> e]
  OBVIOUS
<1>3. s \in Seq(S \cup {e}) /\ t \in Seq(S \cup {e}) /\ Len(t) = n
  BY <1>1, <1>2
<1>4. s \o t \in Seq(S \cup {e}) /\ Len(s \o t) = Len(s) + n
  BY <1>3
<1> QED BY <1>2, <1>4 DEF IsSequence

\* A function over the positions of a sequence is a sequence of its length.
LEMMA MapLength ==
  ASSUME NEW s, NEW t, IsSequence(s), t = [i \in DOMAIN s |-> t[i]]
  PROVE  IsSequence(t) /\ Len(t) = Len(s)
<1>1. DOMAIN s = 1 .. Len(s) /\ Len(s) \in Nat
  BY DEF IsSequence
<1>2. PICK T : T = {t[i] : i \in DOMAIN s}
  OBVIOUS
<1>3. t \in [1 .. Len(s) -> T]
  BY <1>1, <1>2
<1>4. t \in Seq(T) /\ Len(t) = Len(s)
  BY <1>1, <1>3
<1> QED BY <1>4 DEF IsSequence

\* A record of the four fields is a column.
LEMMA ColumnRecord ==
  \A d, m, n, k : IsColumn([data |-> d, null_map_arr |-> m, n_nulls |-> n, keys |-> k])
BY DEF IsColumn

\* Changing the data of a column leaves the other fields.
LEMMA DataUpdate ==
  \A col, x : IsColumn(col) =>
    [col EXCEPT !.data = x] = [data |-> x, null_map_arr |-> col.null_map_arr,
                               n_nulls |-> col.n_nulls, keys |-> col.keys]
<1> SUFFICES ASSUME NEW col, NEW x, IsColumn(col)
             PROVE  [col EXCEPT !.data = x] =
                      [data |-> x, null_map_arr |-> col.null_map_arr,
                       n_nulls |-> col.n_nulls, keys |-> col.keys]
  BY Zenon
<1>1. PICK D, M, N, K : col \in [data : D, null_map_arr : M, n_nulls : N, keys : K]
  BY DEF IsColumn
<1> QED BY <1>1

\* Changing the keys of a column leaves the other fields.
LEMMA KeysUpdate ==
  \A col, x : IsColumn(col) =>
    [col EXCEPT !.keys = x] = [data |-> col.data, null_map_arr |-> col.null_map_arr,
                               n_nulls |-> col.n_nulls, keys |-> x]
<1> SUFFICES ASSUME NEW col, NEW x, IsColumn(col)
             PROVE  [col EXCEPT !.keys = x] =
                      [data |-> col.data, null_map_arr |-> col.null_map_arr,
                       n_nulls |-> col.n_nulls, keys |-> x]
  BY Zenon
<1>1. PICK D, M, N, K : col \in [data : D, null_map_arr : M, n_nulls : N, keys : K]
  BY DEF IsColumn
<1> QED BY <1>1

\* A tuple adds one value and one entry.
LEMMA IngestedSized ==
  ASSUME NEW t, NEW col, NEW cell, NEW n \in Nat, Sized(col, n, n)
  PROVE  Sized(Ingested(t, col, cell), n + 1, n + 1)
<1>1. PICK e : e = (IF cell = Null THEN LastSeen(t, col.data) ELSE cell)
  OBVIOUS
<1>2. PICK k : k = (IF cell = Null /\ t # "FLS_STR" THEN col.n_nulls + 1 ELSE col.n_nulls)
  OBVIOUS
<1>3. Ingested(t, col, cell) =
        [data |-> Append(col.data, e), null_map_arr |-> Append(col.null_map_arr, cell = Null),
         n_nulls |-> k, keys |-> col.keys]
  BY <1>1, <1>2, Zenon DEF Ingested
<1> QED BY <1>3, AppendLength, ColumnRecord DEF Sized

\* Filling in adds values and no entries.
LEMMA FilledSized ==
  ASSUME NEW col, NEW n \in Nat, NEW m \in Nat, NEW k \in Nat, Sized(col, n, m)
  PROVE  Sized(Filled(col, k), n + k, m)
<1>1. PICK d : d = col.data \o [i \in 1 .. k |-> Last(col.data)]
  OBVIOUS
<1>2. Filled(col, k) = [data |-> d, null_map_arr |-> col.null_map_arr,
                        n_nulls |-> col.n_nulls, keys |-> col.keys]
  BY <1>1, DataUpdate, Zenon DEF Sized, Filled
<1>3. IsSequence(d) /\ Len(d) = n + k
  BY <1>1, RepeatLength DEF Sized
<1> QED BY <1>2, <1>3, ColumnRecord DEF Sized

\* A cast keeps both lengths.
LEMMA CastSized ==
  ASSUME NEW from, NEW to, NEW col, NEW n \in Nat, NEW m \in Nat, Sized(col, n, m)
  PROVE  Sized(CastColumn(from, to, col), n, m)
<1>1. CASE from = to
  BY <1>1 DEF CastColumn
<1>2. CASE from # to
  <2>1. PICK d : d = ToCast(from, col.data)
    OBVIOUS
  <2>2. IsSequence(d) /\ Len(d) = n
    <3>1. IsSequence(col.data) /\ Len(col.data) = n
      BY DEF Sized
    <3>2. CASE from \in {"DOUBLE", "FLS_STR"}
      <4>1. d = [i \in DOMAIN col.data |-> d[i]]
        BY <2>1, <3>2, SMTT(30) DEF ToCast, Halved
      <4>2. QED
        BY <3>1, <4>1, MapLength
    <3>3. CASE from \notin {"DOUBLE", "FLS_STR"}
      BY <2>1, <3>1, <3>3 DEF ToCast
    <3>4. QED
      BY <3>2, <3>3
  <2>3. PICK e : e = [i \in DOMAIN d |-> ToSigned(to, d[i])]
    OBVIOUS
  <2>4. IsSequence(e) /\ Len(e) = n
    BY <2>2, <2>3, MapLength
  <2>5. CastColumn(from, to, col) =
          [data |-> e, null_map_arr |-> col.null_map_arr, n_nulls |-> 0, keys |-> <<>>]
    BY <1>2, <2>1, <2>3, Zenon DEF CastColumn
  <2> QED BY <2>4, <2>5, ColumnRecord DEF Sized
<1> QED BY <1>1, <1>2

\* Numbering the values keeps both lengths.
LEMMA NumberedSized ==
  ASSUME NEW col, NEW n \in Nat, NEW m \in Nat, Sized(col, n, m)
  PROVE  Sized(Numbered(col), n, m)
<1>1. PICK k : Numbered(col) = [col EXCEPT !.keys = k]
  BY DEF Numbered
<1>2. Numbered(col) =
        [data |-> col.data, null_map_arr |-> col.null_map_arr, n_nulls |-> col.n_nulls, keys |-> k]
  BY <1>1, KeysUpdate, Zenon DEF Sized
<1> QED BY <1>2, ColumnRecord DEF Sized

-----------------------------------------------------------------------------
(* The lengths of all columns *)

\* The inductive invariant: until the rowgroup is ended, columns and null maps
\* are as long as the tuples; then the columns are longer by what was filled in.
IInv ==
  /\ stage \in {"reading", "read", "prepared"}
  /\ IsSequence(tuples)
  /\ \A c \in Cols :
       Sized(cols[c],
             IF stage = "reading" THEN Len(tuples) ELSE Len(tuples) + HowManyToFill,
             Len(tuples))

\* A number of values is filled in.
LEMMA HowManyType == IsSequence(tuples) => Len(tuples) \in Nat /\ HowManyToFill \in Nat
<1> SUFFICES ASSUME IsSequence(tuples) PROVE Len(tuples) \in Nat /\ HowManyToFill \in Nat
  OBVIOUS
<1>1. Len(tuples) \in Nat
  BY DEF IsSequence
<1> QED BY <1>1, FillingCompletes, SizesAssumption DEF HowManyToFill

LEMMA InitIInv == Init => IInv
<1> SUFFICES ASSUME Init PROVE IInv
  OBVIOUS
<1>1. IsSequence(<<>>) /\ Len(<<>>) = 0
  BY DEF IsSequence
<1> QED BY <1>1, ColumnRecord DEF Init, IInv, Sized, NewColumn

LEMMA TupleIInv == IInv /\ IngestTuple => IInv'
<1> SUFFICES ASSUME IInv, IngestTuple PROVE IInv'
  OBVIOUS
<1>1. PICK tuple : /\ tuples' = Append(tuples, tuple)
                   /\ cols' = [c \in Cols |-> Ingested(types[c], cols[c], tuple[c])]
  BY DEF IngestTuple
<1>2. stage = "reading" /\ stage' = "reading"
  BY DEF IngestTuple
<1>3. IsSequence(tuples') /\ Len(tuples') = Len(tuples) + 1 /\ Len(tuples) \in Nat
  BY <1>1, AppendLength, HowManyType DEF IInv
<1>4. ASSUME NEW c \in Cols
      PROVE  Sized(cols'[c], Len(tuples'), Len(tuples'))
  BY <1>1, <1>2, <1>3, IngestedSized DEF IInv
<1> QED BY <1>2, <1>3, <1>4 DEF IInv

LEMMA EndIInv == IInv /\ EndRowgroup => IInv'
<1> SUFFICES ASSUME IInv, EndRowgroup PROVE IInv'
  OBVIOUS
<1>1. /\ stage = "reading" /\ stage' = "read" /\ tuples' = tuples
      /\ cols' = [c \in Cols |-> Filled(cols[c], HowManyToFill)]
  BY DEF EndRowgroup
<1>2. Len(tuples) \in Nat /\ HowManyToFill \in Nat /\ HowManyToFill' = HowManyToFill
  BY <1>1, HowManyType DEF IInv, HowManyToFill
<1>3. ASSUME NEW c \in Cols
      PROVE  Sized(cols'[c], Len(tuples) + HowManyToFill, Len(tuples))
  BY <1>1, <1>2, FilledSized DEF IInv
<1> QED BY <1>1, <1>2, <1>3 DEF IInv

LEMMA PrepareIInv == IInv /\ Prepare => IInv'
<1> SUFFICES ASSUME IInv, Prepare PROVE IInv'
  OBVIOUS
<1>1. stage # "reading" /\ stage' = "prepared" /\ tuples' = tuples
  BY DEF Prepare
<1>2. PICK to : cols' = [c \in Cols |-> Numbered(CastColumn(types[c], to[c], cols[c]))]
  BY DEF Prepare
<1>3. /\ Len(tuples) \in Nat /\ Len(tuples) + HowManyToFill \in Nat
      /\ HowManyToFill' = HowManyToFill
  BY <1>1, HowManyType DEF IInv, HowManyToFill
<1>4. ASSUME NEW c \in Cols
      PROVE  Sized(cols'[c], Len(tuples) + HowManyToFill, Len(tuples))
  <2>1. Sized(cols[c], Len(tuples) + HowManyToFill, Len(tuples))
    BY <1>1 DEF IInv
  <2>2. Sized(CastColumn(types[c], to[c], cols[c]), Len(tuples) + HowManyToFill, Len(tuples))
    BY <1>3, <2>1, CastSized
  <2> QED BY <1>2, <1>3, <2>2, NumberedSized
<1> QED BY <1>1, <1>3, <1>4 DEF IInv

\* IInv holds from the first tuple on.
LEMMA IInvAlways == IngestSpec => []IInv
<1>1. IInv /\ [IngestNext]_ingestVars => IInv'
  <2>1. IInv /\ UNCHANGED ingestVars => IInv'
    BY DEF ingestVars, IInv, HowManyToFill
  <2> QED BY <2>1, TupleIInv, EndIInv, PrepareIInv DEF IngestNext
<1> QED BY InitIInv, <1>1, PTL DEF IngestSpec

\* Each null map has one entry per tuple and each column a value per tuple,
\* before and after filling in and however often the rowgroup is prepared: row i of
\* the file is row i of the table, whichever reader read it.
THEOREM RowsAligned ==
  IngestSpec => [](\A c \in Cols : /\ Len(cols[c].null_map_arr) = Len(tuples)
                                   /\ Len(cols[c].data) >= Len(tuples))
<1>1. IInv => \A c \in Cols : /\ Len(cols[c].null_map_arr) = Len(tuples)
                              /\ Len(cols[c].data) >= Len(tuples)
  BY HowManyType DEF IInv, Sized
<1> QED BY <1>1, IInvAlways, PTL

\* The encoder finds VecCount() whole vectors in each column of a rowgroup the
\* CSV reader has read.
THEOREM VectorsAlwaysComplete ==
  ASSUME Format = "csv"
  PROVE  IngestSpec => []VectorsComplete
<1>1. IInv => VectorsComplete
  <2> SUFFICES ASSUME IInv, stage # "reading", NEW c \in Cols
               PROVE  Len(cols[c].data) = VecCount * VecSz
    BY DEF VectorsComplete
  <2>1. Len(cols[c].data) = Len(tuples) + HowManyToFill
    BY DEF IInv, Sized
  <2>2. Len(tuples) + HowManyToFill = VecCount * VecSz
    BY HowManyType, FillingCompletes, SizesAssumption DEF IInv, HowManyToFill, VecCount
  <2> QED BY <2>1, <2>2
<1> QED BY <1>1, IInvAlways, PTL

-----------------------------------------------------------------------------
(* Extremes and remainders *)

\* A sequence has a greatest element.
LEMMA Greatest ==
  ASSUME NEW s \in Seq(Int), s # <<>>
  PROVE  \E m \in 1 .. Len(s) : \A k \in 1 .. Len(s) : s[k] <= s[m]
<1> DEFINE Bounded(n, m) == \A k \in 1 .. n : s[k] <= s[m]
           S == {n \in Nat : n \in 1 .. Len(s) => \E m \in 1 .. n : Bounded(n, m)}
<1>1. Len(s) \in Nat \ {0} /\ \A k \in 1 .. Len(s) : s[k] \in Int
  OBVIOUS
<1>2. ASSUME NEW n \in Nat, n \in 1 .. Len(s) => \E m \in 1 .. n : Bounded(n, m),
             NEW p, p = n + 1, p \in 1 .. Len(s)
      PROVE  \E m \in 1 .. p : Bounded(p, m)
  <2>1. 1 .. p = (1 .. n) \cup {p} /\ s[p] \in Int /\ \A k \in 1 .. n : s[k] \in Int
    BY <1>1, <1>2
  <2>2. CASE n = 0
    <3>1. Bounded(p, p)
      BY <1>2, <2>1, <2>2
    <3>2. QED
      BY <2>1, <3>1
  <2>3. CASE n # 0
    <3>1. n \in 1 .. Len(s)
      BY <1>1, <1>2, <2>3
    <3>2. PICK m \in 1 .. n : Bounded(n, m)
      BY <1>2, <3>1
    <3>3. CASE s[m] <= s[p]
      <4>1. \A k \in 1 .. n : s[k] <= s[p]
        BY <2>1, <3>2, <3>3
      <4>2. Bounded(p, p)
        BY <2>1, <4>1
      <4>3. QED
        BY <2>1, <4>2
    <3>4. CASE ~(s[m] <= s[p])
      <4>1. s[p] <= s[m]
        BY <2>1, <3>2, <3>4
      <4>2. Bounded(p, m)
        BY <2>1, <3>2, <4>1
      <4>3. QED
        BY <2>1, <4>2
    <3>5. QED
      BY <3>3, <3>4
  <2>4. QED
    BY <2>2, <2>3
<1>3. 0 \in S /\ \A n \in Nat : n \in S => n + 1 \in S
  <2> HIDE DEF Bounded
  <2>1. \A n \in Nat : n \in S => n + 1 \in S
    <3> SUFFICES ASSUME NEW n \in Nat, n \in S, n + 1 \in 1 .. Len(s)
                 PROVE  \E m \in 1 .. n + 1 : Bounded(n + 1, m)
      OBVIOUS
    <3>1. n \in 1 .. Len(s) => \E m \in 1 .. n : Bounded(n, m)
      OBVIOUS
    <3>2. QED
      BY <1>2, <3>1
  <2>2. 0 \in S
    OBVIOUS
  <2>3. QED
    BY <2>1, <2>2
<1>4. Nat \subseteq S
  <2> HIDE DEF S
  <2>1. QED
    BY <1>3, Successors
<1>5. Len(s) \in S /\ Len(s) \in 1 .. Len(s)
  <2> HIDE DEF S
  <2>1. QED
    BY <1>1, <1>4
<1>6. QED
  BY <1>5

\* A sequence has a least element.
LEMMA Least ==
  ASSUME NEW s \in Seq(Int), s # <<>>
  PROVE  \E m \in 1 .. Len(s) : \A k \in 1 .. Len(s) : s[m] <= s[k]
<1>1. PICK n : n = Len(s)
  OBVIOUS
<1>2. n \in Nat \ {0} /\ \A k \in 1 .. n : s[k] \in Int
  BY <1>1
<1>3. PICK t : t = [k \in 1 .. n |-> 0 - s[k]]
  OBVIOUS
<1>4. t \in Seq(Int) /\ Len(t) = n /\ t # <<>> /\ \A k \in 1 .. n : t[k] = 0 - s[k]
  BY <1>2, <1>3, SMTT(30)
<1>5. PICK m \in 1 .. n : \A k \in 1 .. n : t[k] <= t[m]
  BY <1>4, Greatest
<1>6. \A k \in 1 .. n : s[m] <= s[k]
  BY <1>2, <1>4, <1>5
<1>7. QED
  BY <1>1, <1>6

\* Max and Min find them.
LEMMA MaxMin ==
  ASSUME NEW s \in Seq(Int), s # <<>>
  PROVE  /\ Max(ToSet(s)) \in Int /\ Min(ToSet(s)) \in Int
         /\ \E m \in 1 .. Len(s) : Max(ToSet(s)) = s[m]
         /\ \E m \in 1 .. Len(s) : Min(ToSet(s)) = s[m]
         /\ \A k \in 1 .. Len(s) : Min(ToSet(s)) <= s[k] /\ s[k] <= Max(ToSet(s))
<1>1. PICK S : S = ToSet(s)
  OBVIOUS
<1>2. /\ \A x : x \in S <=> \E k \in 1 .. Len(s) : x = s[k]
      /\ \A k \in 1 .. Len(s) : s[k] \in Int
  BY <1>1 DEF ToSet
<1>3. \E x \in S : \A y \in S : x >= y
  <2>1. PICK m \in 1 .. Len(s) : \A k \in 1 .. Len(s) : s[k] <= s[m]
    BY Greatest
  <2>2. s[m] \in S /\ \A y \in S : s[m] >= y
    BY <1>2, <2>1
  <2>3. QED
    BY <2>2
<1>4. \E x \in S : \A y \in S : x <= y
  <2>1. PICK m \in 1 .. Len(s) : \A k \in 1 .. Len(s) : s[m] <= s[k]
    BY Least
  <2>2. s[m] \in S /\ \A y \in S : s[m] <= y
    BY <1>2, <2>1
  <2>3. QED
    BY <2>2
<1>5. Max(S) \in S /\ \A y \in S : Max(S) >= y
  BY <1>3, Zenon DEF Max
<1>6. Min(S) \in S /\ \A y \in S : Min(S) <= y
  BY <1>4, Zenon DEF Min
<1>7. \A k \in 1 .. Len(s) : s[k] \in S
  BY <1>2
<1>8. Max(S) \in Int /\ Min(S) \in Int
  BY <1>2, <1>5, <1>6
<1>9. \A k \in 1 .. Len(s) : Min(S) <= s[k] /\ s[k] <= Max(S)
  BY <1>2, <1>5, <1>6, <1>7, <1>8
<1>10. QED
  BY <1>1, <1>2, <1>5, <1>6, <1>8, <1>9

\* Remainders of the numbers near 0.
LEMMA Remainders ==
  \A m \in Nat \ {0}, v \in Int :
    /\ v % m \in 0 .. m - 1
    /\ 0 <= v /\ v < m => v % m = v
    /\ 0 - m <= v /\ v < 0 => v % m = v + m
BY Z3

-----------------------------------------------------------------------------
(* Casts *)

\* The four signed types hold more and more.
LEMMA SignedHalf ==
  /\ Half("INT8") = H[1] /\ Half("INT16") = H[2] /\ Half("INT32") = H[3] /\ Half("INT64") = H[4]
  /\ \A k \in 1 .. 4 : H[k] \in Nat \ {0}
  /\ \A t \in Signed : Half(t) \in Nat \ {0} /\ Half(t) <= H[4]
<1>1. Half("INT8") = H[1] /\ Half("INT16") = H[2] /\ Half("INT32") = H[3] /\ Half("INT64") = H[4]
  BY DEF Half
<1>2. \A k \in 1 .. 4 : H[k] \in Nat \ {0}
  BY SizesAssumption
<1>3. H[1] <= H[4] /\ H[2] <= H[4] /\ H[3] <= H[4] /\ H[4] <= H[4]
  BY <1>2, SizesAssumption
<1>4. QED
  BY <1>1, <1>2, <1>3 DEF Signed

\* static_cast to a signed type keeps the numbers the type holds and no others.
LEMMA SignedCast ==
  ASSUME NEW t \in Signed, NEW v \in Int
  PROVE  /\ ToSigned(t, v) \in Int
         /\ Fits(t, v) <=> 0 - Half(t) <= v /\ v < Half(t)
<1>1. PICK h, m, r : h = Half(t) /\ m = 2 * h /\ r = v % m
  OBVIOUS
<1>2. h \in Nat \ {0} /\ m \in Nat \ {0} /\ m = h + h
  BY <1>1, SignedHalf
<1>3. /\ r \in 0 .. m - 1
      /\ 0 <= v /\ v < m => r = v
      /\ 0 - m <= v /\ v < 0 => r = v + m
  BY <1>1, <1>2, Remainders
<1>4. ToSigned(t, v) = IF r < h THEN r ELSE r - m
  BY <1>1, Zenon DEF ToSigned
<1>5. ToSigned(t, v) \in Int /\ 0 - h <= ToSigned(t, v) /\ ToSigned(t, v) < h
  BY <1>2, <1>3, <1>4
<1>6. 0 - h <= v /\ v < h => ToSigned(t, v) = v
  BY <1>2, <1>3, <1>4
<1>7. QED
  BY <1>1, <1>5, <1>6 DEF Fits

\* getSmallestSignedType looks at the two ends only.
LEMMA SmallestOfEnds ==
  ASSUME NEW s \in Seq(Int), s # <<>>,
         \A k \in 1 .. Len(s) : 0 - H[4] <= s[k] /\ s[k] < H[4],
         NEW lo, lo = Min(ToSet(s)), NEW hi, hi = Max(ToSet(s))
  PROVE  SmallestSigned(s) = IF Fits("INT8", lo) /\ Fits("INT8", hi) THEN "INT8"
                             ELSE IF Fits("INT16", lo) /\ Fits("INT16", hi) THEN "INT16"
                             ELSE IF Fits("INT32", lo) /\ Fits("INT32", hi) THEN "INT32" ELSE "INT64"
<1>1. lo \in Int /\ hi \in Int /\ 0 - H[4] <= lo /\ lo < H[4] /\ 0 - H[4] <= hi /\ hi < H[4]
  BY MaxMin
<1>2. Fits("INT64", lo) /\ Fits("INT64", hi)
  BY <1>1, SignedHalf, SignedCast DEF Signed
<1>3. ToSigned("INT64", lo) = lo /\ ToSigned("INT64", hi) = hi
  BY <1>2 DEF Fits
<1>4. QED
  BY <1>3, Zenon DEF SmallestSigned

\* The type it finds holds all values, although only the ends were looked at.
LEMMA SmallestHolds ==
  ASSUME NEW s \in Seq(Int), s # <<>>,
         \A k \in 1 .. Len(s) : 0 - H[4] <= s[k] /\ s[k] < H[4]
  PROVE  /\ SmallestSigned(s) \in Signed
         /\ \A k \in 1 .. Len(s) : Fits(SmallestSigned(s), s[k])
<1>1. PICK lo, hi, t : lo = Min(ToSet(s)) /\ hi = Max(ToSet(s)) /\ t = SmallestSigned(s)
  OBVIOUS
<1>2. /\ lo \in Int /\ hi \in Int /\ 0 - H[4] <= lo /\ lo < H[4] /\ 0 - H[4] <= hi /\ hi < H[4]
      /\ \A k \in 1 .. Len(s) : s[k] \in Int /\ lo <= s[k] /\ s[k] <= hi
  BY <1>1, MaxMin, SMTT(30)
<1>3. Fits("INT64", lo) /\ Fits("INT64", hi)
  BY <1>2, SignedHalf, SignedCast DEF Signed
<1>4. t = IF Fits("INT8", lo) /\ Fits("INT8", hi) THEN "INT8"
          ELSE IF Fits("INT16", lo) /\ Fits("INT16", hi) THEN "INT16"
          ELSE IF Fits("INT32", lo) /\ Fits("INT32", hi) THEN "INT32" ELSE "INT64"
  BY <1>1, SmallestOfEnds
<1>5. t \in Signed /\ Fits(t, lo) /\ Fits(t, hi)
  BY <1>3, <1>4 DEF Signed
<1>6. Half(t) \in Nat \ {0} /\ 0 - Half(t) <= lo /\ hi < Half(t)
  BY <1>2, <1>5, SignedCast, SignedHalf
<1>7. \A k \in 1 .. Len(s) : 0 - Half(t) <= s[k] /\ s[k] < Half(t)
  BY <1>2, <1>6
<1>8. \A k \in 1 .. Len(s) : Fits(t, s[k])
  BY <1>2, <1>5, <1>7, SignedCast
<1>9. QED
  BY <1>1, <1>5, <1>8

\* It finds INT32 for values that need and have 32 bits.
LEMMA SmallestOfLarge ==
  ASSUME NEW s \in Seq(Int), s # <<>>, \A k \in 1 .. Len(s) : H[2] <= s[k] /\ s[k] < H[3]
  PROVE  SmallestSigned(s) = "INT32"
<1>1. PICK lo, hi : lo = Min(ToSet(s)) /\ hi = Max(ToSet(s))
  OBVIOUS
<1>2. H[1] \in Nat \ {0} /\ H[2] \in Nat /\ H[3] \in Nat /\ H[4] \in Nat /\ H[1] < H[2] /\ H[3] < H[4]
  BY SizesAssumption
<1>3. /\ lo \in Int /\ hi \in Int /\ H[2] <= lo /\ lo < H[3] /\ H[2] <= hi /\ hi < H[3]
      /\ \A k \in 1 .. Len(s) : s[k] \in Int /\ 0 - H[4] <= s[k] /\ s[k] < H[4]
  <2>1. \A k \in 1 .. Len(s) : s[k] \in Int /\ 0 - H[4] <= s[k] /\ s[k] < H[4]
    BY <1>2, SMTT(30)
  <2>2. /\ lo \in Int /\ hi \in Int
        /\ \E m \in 1 .. Len(s) : lo = s[m]
        /\ \E m \in 1 .. Len(s) : hi = s[m]
    BY <1>1, MaxMin
  <2>3. QED
    BY <2>1, <2>2
<1>4. ~Fits("INT8", lo) /\ ~Fits("INT16", lo) /\ Fits("INT32", lo) /\ Fits("INT32", hi)
  <2>1. "INT8" \in Signed /\ "INT16" \in Signed /\ "INT32" \in Signed
    BY DEF Signed
  <2>2. ~(lo < H[1]) /\ ~(lo < H[2]) /\ 0 - H[3] <= lo /\ 0 - H[3] <= hi
    BY <1>2, <1>3
  <2>3. QED
    BY <1>3, <2>1, <2>2, SignedCast, SignedHalf
<1>5. QED
  BY <1>1, <1>3, <1>4, SmallestOfEnds

-----------------------------------------------------------------------------
(* Numbering *)

\* Append adds one element to the set of a sequence.
LEMMA AppendSet ==
  ASSUME NEW s \in Seq(Int), NEW e \in Int
  PROVE  \A x : x \in ToSet(Append(s, e)) <=> x \in ToSet(s) \/ x = e
<1>1. PICK n, t : n = Len(s) /\ t = Append(s, e)
  OBVIOUS
<1>2. /\ n \in Nat /\ DOMAIN s = 1 .. n /\ DOMAIN t = (1 .. n) \cup {n + 1}
      /\ t[n + 1] = e /\ \A k \in 1 .. n : t[k] = s[k]
  BY <1>1
<1>3. \A x : x \in ToSet(t) <=> \E k \in (1 .. n) \cup {n + 1} : x = t[k]
  BY <1>2 DEF ToSet
<1>4. \A x : x \in ToSet(s) <=> \E k \in 1 .. n : x = s[k]
  BY <1>2 DEF ToSet
<1>5. \A x : x \in ToSet(t) <=> x \in ToSet(s) \/ x = e
  BY <1>2, <1>3, <1>4
<1>6. QED
  BY <1>1, <1>5

\* One more value is looked up among the keys, f in the place of After.
OneMore(keys, data, f, n) ==
  IF n = 0 THEN keys
  ELSE IF data[n] \in ToSet(f[n - 1]) THEN f[n - 1]
  ELSE Append(f[n - 1], data[n])

\* The keys after each number of values: Extended takes the last of them.
LEMMA ExtendedDef ==
  ASSUME NEW keys, NEW data, Len(data) \in Nat
  PROVE  \E f : /\ f = [n \in 0 .. Len(data) |-> OneMore(keys, data, f, n)]
                /\ Extended(keys, data) = f[Len(data)]
<1> DEFINE S == {top \in Nat : \E f : f = [n \in 0 .. top |-> OneMore(keys, data, f, n)]}
<1>1. 0 \in S
  <2>1. PICK f : f = [n \in {0} |-> keys]
    OBVIOUS
  <2>2. OneMore(keys, data, f, 0) = keys
    BY DEF OneMore
  <2>3. f = [n \in 0 .. 0 |-> OneMore(keys, data, f, n)]
    BY <2>1, <2>2
  <2>4. QED
    BY <2>3
<1>2. ASSUME NEW top \in Nat, NEW f, f = [n \in 0 .. top |-> OneMore(keys, data, f, n)]
      PROVE  \E g : g = [n \in 0 .. top + 1 |-> OneMore(keys, data, g, n)]
  <2>1. PICK g : g = [n \in 0 .. top + 1 |-> OneMore(keys, data, f, n)]
    OBVIOUS
  <2>2. \A n \in 0 .. top : g[n] = f[n]
    BY <1>2, <2>1
  <2>3. ASSUME NEW n \in 0 .. top + 1 PROVE OneMore(keys, data, g, n) = OneMore(keys, data, f, n)
    <3>1. CASE n = 0
      BY <3>1 DEF OneMore
    <3>2. CASE n # 0
      <4>1. n - 1 \in 0 .. top
        BY <3>2
      <4>2. g[n - 1] = f[n - 1]
        BY <2>2, <4>1
      <4>3. QED
        BY <3>2, <4>2, Zenon DEF OneMore
    <3>3. QED
      BY <3>1, <3>2
  <2>4. g = [n \in 0 .. top + 1 |-> OneMore(keys, data, g, n)]
    BY <2>1, <2>3
  <2>5. QED
    BY <2>4
<1>3. \A top \in Nat : top \in S => top + 1 \in S
  BY <1>2
<1>4. Len(data) \in S
  <2> HIDE DEF S
  <2>1. QED
    BY <1>1, <1>3, Successors
<1>5. \E f : f = [n \in 0 .. Len(data) |-> OneMore(keys, data, f, n)]
  BY <1>4
<1>6. PICK f : f = CHOOSE g : g = [n \in 0 .. Len(data) |-> OneMore(keys, data, g, n)]
  OBVIOUS
<1>7. f = [n \in 0 .. Len(data) |-> OneMore(keys, data, f, n)]
  BY <1>5, <1>6, Zenon
<1>8. Extended(keys, data) = f[Len(data)]
  BY <1>6, Zenon DEF Extended, OneMore
<1>9. QED
  BY <1>7, <1>8

\* Numbering keeps the type of the keys, numbers every value, and changes no key
\* when every value has one.
LEMMA ExtendedFacts ==
  ASSUME NEW keys \in Seq(Int), NEW data \in Seq(Int)
  PROVE  /\ Extended(keys, data) \in Seq(Int)
         /\ \A k \in 1 .. Len(data) : data[k] \in ToSet(Extended(keys, data))
         /\ (\A k \in 1 .. Len(data) : data[k] \in ToSet(keys)) => Extended(keys, data) = keys
<1>1. Len(data) \in Nat /\ \A k \in 1 .. Len(data) : data[k] \in Int
  OBVIOUS
<1>2. PICK f : /\ f = [n \in 0 .. Len(data) |-> OneMore(keys, data, f, n)]
               /\ Extended(keys, data) = f[Len(data)]
  BY <1>1, ExtendedDef
<1>3. \A n \in 0 .. Len(data) : f[n] = OneMore(keys, data, f, n)
  BY <1>2
<1> DEFINE Numbers(n) ==
             /\ f[n] \in Seq(Int)
             /\ \A k \in 1 .. n : data[k] \in ToSet(f[n])
             /\ (\A k \in 1 .. Len(data) : data[k] \in ToSet(keys)) => f[n] = keys
           S == {n \in Nat : n <= Len(data) => Numbers(n)}
<1>4. Numbers(0)
  <2>1. f[0] = keys
    BY <1>1, <1>3 DEF OneMore
  <2>2. QED
    BY <2>1
<1>5. ASSUME NEW n \in Nat, Numbers(n), NEW p, p = n + 1, p <= Len(data)
      PROVE  Numbers(p)
  <2>1. p \in 1 .. Len(data) /\ p # 0 /\ p - 1 = n /\ 1 .. p = (1 .. n) \cup {p} /\ data[p] \in Int
    BY <1>1, <1>5
  <2>2. f[p] = IF data[p] \in ToSet(f[n]) THEN f[n] ELSE Append(f[n], data[p])
    <3>1. f[p] = OneMore(keys, data, f, p)
      BY <1>1, <1>3, <2>1
    <3>2. QED
      BY <2>1, <3>1, Zenon DEF OneMore
  <2>3. CASE data[p] \in ToSet(f[n])
    <3>1. f[p] = f[n]
      BY <2>2, <2>3
    <3>2. QED
      BY <1>5, <2>1, <2>3, <3>1
  <2>4. CASE data[p] \notin ToSet(f[n])
    <3>1. f[p] = Append(f[n], data[p]) /\ f[n] \in Seq(Int)
      BY <1>5, <2>2, <2>4
    <3>2. f[p] \in Seq(Int)
      BY <2>1, <3>1
    <3>3. \A x : x \in ToSet(f[p]) <=> x \in ToSet(f[n]) \/ x = data[p]
      BY <2>1, <3>1, AppendSet
    <3>4. ~(\A k \in 1 .. Len(data) : data[k] \in ToSet(keys))
      BY <1>5, <2>1, <2>4
    <3>5. \A k \in 1 .. p : data[k] \in ToSet(f[p])
      BY <1>5, <2>1, <3>3
    <3>6. QED
      BY <3>2, <3>4, <3>5
  <2>5. QED
    BY <2>3, <2>4
<1>6. Nat \subseteq S
  <2>1. 0 \in S
    BY <1>4
  <2>2. \A n \in Nat : n \in S => n + 1 \in S
    <3> SUFFICES ASSUME NEW n \in Nat, n \in S, n + 1 <= Len(data) PROVE Numbers(n + 1)
      OBVIOUS
    <3> HIDE DEF Numbers
    <3>1. Numbers(n)
      BY <1>1
    <3>2. QED
      BY <1>5, <3>1
  <2> HIDE DEF S
  <2>3. QED
    BY <2>1, <2>2, Successors
<1>7. Numbers(Len(data))
  <2> HIDE DEF Numbers
  <2>1. Len(data) \in S
    BY <1>1, <1>6
  <2>2. QED
    BY <1>1, <2>1
<1>8. QED
  BY <1>2, <1>7

-----------------------------------------------------------------------------
(* Type correctness *)

\* The type invariant without the lengths, and that there is a tuple to repeat
\* when a column is filled.
TypeInv ==
  /\ declared \in Schemas
  /\ types \in [Cols -> DataTypes]
  /\ tuples \in Seq([Cols -> Int \cup {Null}]) /\ Len(tuples) <= Capacity
  /\ cols \in [Cols -> Column]
  /\ stage # "reading" => tuples # <<>>

\* A column is the record of its fields.
LEMMA ColumnFields ==
  ASSUME NEW col \in Column
  PROVE  /\ col.data \in Seq(Int) /\ col.null_map_arr \in Seq(BOOLEAN)
         /\ col.n_nulls \in Nat /\ col.keys \in Seq(Int) /\ IsColumn(col)
BY DEF Column, IsColumn

\* A record of fields of the right types is a column.
LEMMA ColumnMember ==
  ASSUME NEW d \in Seq(Int), NEW m \in Seq(BOOLEAN), NEW n \in Nat, NEW k \in Seq(Int)
  PROVE  [data |-> d, null_map_arr |-> m, n_nulls |-> n, keys |-> k] \in Column
BY DEF Column

\* The last element of a sequence of numbers is a number.
LEMMA LastType == \A s \in Seq(Int) : s # <<>> => Last(s) \in Int /\ Last(s) = s[Len(s)]
BY DEF Last

\* TypedIngest and FLSStringIngest keep the type of a column.
LEMMA IngestedType ==
  ASSUME NEW t, NEW col \in Column, NEW cell \in Int \cup {Null}
  PROVE  Ingested(t, col, cell) \in Column
<1>1. PICK e : e = (IF cell = Null THEN LastSeen(t, col.data) ELSE cell)
  OBVIOUS
<1>2. PICK k : k = (IF cell = Null /\ t # "FLS_STR" THEN col.n_nulls + 1 ELSE col.n_nulls)
  OBVIOUS
<1>3. Ingested(t, col, cell) =
        [data |-> Append(col.data, e), null_map_arr |-> Append(col.null_map_arr, cell = Null),
         n_nulls |-> k, keys |-> col.keys]
  BY <1>1, <1>2, Zenon DEF Ingested
<1>4. e \in Int
  <2>1. LastSeen(t, col.data) \in Int
    BY LastType, ColumnFields, SizesAssumption DEF LastSeen
  <2>2. QED
    BY <1>1, <2>1
<1>5. k \in Nat
  BY <1>2, ColumnFields
<1>6. Append(col.data, e) \in Seq(Int)
  BY <1>4, ColumnFields
<1>7. Append(col.null_map_arr, cell = Null) \in Seq(BOOLEAN)
  <2>1. PICK b \in BOOLEAN : b = (cell = Null)
    OBVIOUS
  <2>2. Append(col.null_map_arr, b) \in Seq(BOOLEAN)
    BY ColumnFields
  <2>3. QED
    BY <2>1, <2>2
<1>8. QED
  BY <1>3, <1>5, <1>6, <1>7, ColumnFields, ColumnMember, ZenonT(30)

\* FillMissingValues keeps the type of a column that has a value.
LEMMA FilledType ==
  ASSUME NEW col \in Column, NEW n \in Nat, col.data # <<>>
  PROVE  Filled(col, n) \in Column
<1>1. PICK x, f, d : x = Last(col.data) /\ f = [i \in 1 .. n |-> x] /\ d = col.data \o f
  OBVIOUS
<1>2. x \in Int /\ f \in Seq(Int)
  BY <1>1, LastType, ColumnFields
<1>3. d \in Seq(Int)
  BY <1>1, <1>2, ColumnFields
<1>4. Filled(col, n) = [data |-> d, null_map_arr |-> col.null_map_arr,
                        n_nulls |-> col.n_nulls, keys |-> col.keys]
  BY <1>1, DataUpdate, ColumnFields, Zenon DEF Filled
<1>5. QED
  BY <1>3, <1>4, ColumnFields, ColumnMember

\* cast leaves a column its type or makes it signed.
LEMMA CastTypeSigned ==
  ASSUME NEW t \in DataTypes, NEW col
  PROVE  CastType(t, col) = t \/ CastType(t, col) \in Signed
<1>1. \A data : SmallestSigned(data) \in Signed
  BY DEF SmallestSigned, Signed
<1>2. "INT32" \in Signed
  BY DEF Signed
<1>3. QED
  BY <1>1, <1>2 DEF CastType

\* The halves of numbers are numbers.
LEMMA HalvedType ==
  ASSUME NEW d \in Seq(Int)
  PROVE  /\ Halved(d) \in Seq(Int) /\ Len(Halved(d)) = Len(d)
         /\ \A k \in 1 .. Len(d) : Halved(d)[k] = d[k] \div 2
<1>1. Len(d) \in Nat /\ \A k \in 1 .. Len(d) : d[k] \div 2 \in Int
  OBVIOUS
<1>2. Halved(d) = [k \in 1 .. Len(d) |-> d[k] \div 2]
  BY DEF Halved
<1>3. QED
  BY <1>1, <1>2

\* std::stoll drops the zeros that lead a numeral, and takes a number as it is.
LEMMA StollNumber ==
  \A v \in Int : Stoll(v) \in Int /\ Stoll(v) >= 0 /\ Stoll(Stoll(v)) = Stoll(v)
<1>1. PICK m \in Nat \ {0} : m = 2 * Half("INT64")
  BY SignedHalf
<1>2. \A v \in Int : Stoll(v) = v % m
  BY <1>1 DEF Stoll
<1>3. \A v \in Int : v % m \in 0 .. m - 1 /\ (0 <= v /\ v < m => v % m = v)
  BY <1>1, Remainders
<1>4. QED
  BY <1>2, <1>3

\* The numbers that are cast are as many as the values, and made of them one by one.
LEMMA ToCastType ==
  ASSUME NEW from, NEW s \in Seq(Int), NEW d, d = ToCast(from, s)
  PROVE  /\ d \in Seq(Int) /\ Len(d) = Len(s)
         /\ from = "DOUBLE" => \A k \in 1 .. Len(s) : d[k] = s[k] \div 2
         /\ from = "FLS_STR" => \A k \in 1 .. Len(s) : d[k] = Stoll(s[k])
         /\ from \notin {"DOUBLE", "FLS_STR"} => d = s
<1>1. CASE from = "DOUBLE"
  <2>1. d = Halved(s)
    BY <1>1 DEF ToCast
  <2>2. QED
    BY <1>1, <2>1, HalvedType
<1>2. CASE from = "FLS_STR"
  <2>1. Len(s) \in Nat /\ DOMAIN s = 1 .. Len(s) /\ \A k \in 1 .. Len(s) : Stoll(s[k]) \in Int
    BY StollNumber
  <2>2. d = [k \in 1 .. Len(s) |-> Stoll(s[k])]
    BY <1>2, <2>1 DEF ToCast
  <2>3. QED
    BY <1>2, <2>1, <2>2
<1>3. CASE from \notin {"DOUBLE", "FLS_STR"}
  BY <1>3 DEF ToCast
<1>4. QED
  BY <1>1, <1>2, <1>3

\* The values col_cast_visitor stores.
LEMMA CastValues ==
  ASSUME NEW from, NEW to \in Signed, from # to, NEW col \in Column,
         NEW d, d = ToCast(from, col.data)
  PROVE  /\ CastColumn(from, to, col) \in Column
         /\ d \in Seq(Int) /\ Len(d) = Len(col.data)
         /\ CastColumn(from, to, col).data \in Seq(Int)
         /\ Len(CastColumn(from, to, col).data) = Len(d)
         /\ \A k \in 1 .. Len(d) : CastColumn(from, to, col).data[k] = ToSigned(to, d[k])
         /\ CastColumn(from, to, col).null_map_arr = col.null_map_arr
<1>1. d \in Seq(Int) /\ Len(d) = Len(col.data)
  BY ColumnFields, ToCastType
<1>2. PICK e : e = [k \in DOMAIN d |-> ToSigned(to, d[k])]
  OBVIOUS
<1>3. e \in Seq(Int) /\ Len(e) = Len(d) /\ \A k \in 1 .. Len(d) : e[k] = ToSigned(to, d[k])
  <2>1. ASSUME NEW k \in 1 .. Len(d) PROVE ToSigned(to, d[k]) \in Int
    <3>1. d[k] \in Int
      BY <1>1
    <3>2. QED
      BY <3>1, SignedCast
  <2>2. DOMAIN d = 1 .. Len(d) /\ Len(d) \in Nat
    BY <1>1
  <2>3. QED
    BY <1>2, <2>1, <2>2
<1>4. CastColumn(from, to, col) =
        [data |-> e, null_map_arr |-> col.null_map_arr, n_nulls |-> 0, keys |-> <<>>]
  BY <1>2, Zenon DEF CastColumn
<1>5. CastColumn(from, to, col) \in Column
  <2>1. <<>> \in Seq(Int) /\ 0 \in Nat
    OBVIOUS
  <2>2. QED
    BY <1>3, <1>4, <2>1, ColumnFields, ColumnMember
<1>6. QED
  BY <1>1, <1>3, <1>4, <1>5

\* PopulateBiMap changes nothing but the keys.
LEMMA NumberedType ==
  ASSUME NEW col \in Column
  PROVE  /\ Numbered(col) \in Column
         /\ Numbered(col).data = col.data /\ Numbered(col).null_map_arr = col.null_map_arr
         /\ \A k \in 1 .. Len(col.data) : col.data[k] \in ToSet(Numbered(col).keys)
         /\ (\A k \in 1 .. Len(col.data) : col.data[k] \in ToSet(col.keys)) => Numbered(col) = col
<1>1. PICK k : k = Extended(col.keys, col.data)
  OBVIOUS
<1>2. Numbered(col) = [data |-> col.data, null_map_arr |-> col.null_map_arr,
                       n_nulls |-> col.n_nulls, keys |-> k]
  BY <1>1, KeysUpdate, ColumnFields, Zenon DEF Numbered
<1>3. k \in Seq(Int) /\ \A i \in 1 .. Len(col.data) : col.data[i] \in ToSet(k)
  BY <1>1, ExtendedFacts, ColumnFields
<1>4. (\A i \in 1 .. Len(col.data) : col.data[i] \in ToSet(col.keys)) => k = col.keys
  BY <1>1, ExtendedFacts, ColumnFields
<1>5. col = [data |-> col.data, null_map_arr |-> col.null_map_arr,
             n_nulls |-> col.n_nulls, keys |-> col.keys]
  BY DEF Column
<1>6. Numbered(col) \in Column
  BY <1>2, <1>3, ColumnFields, ColumnMember
<1>7. QED
  BY <1>2, <1>3, <1>4, <1>5, <1>6

\* A cast keeps the type of a column, numbering too.
LEMMA PreparedType ==
  ASSUME NEW t \in DataTypes, NEW col \in Column
  PROVE  /\ CastType(t, col) \in DataTypes
         /\ CastColumn(t, CastType(t, col), col) \in Column
         /\ Numbered(CastColumn(t, CastType(t, col), col)) \in Column
<1>1. PICK to : to = CastType(t, col)
  OBVIOUS
<1>2. to = t \/ to \in Signed
  BY <1>1, CastTypeSigned
<1>3. to \in DataTypes
  BY <1>2 DEF DataTypes
<1>4. CastColumn(t, to, col) \in Column
  <2>1. CASE to = t
    BY <2>1 DEF CastColumn
  <2>2. CASE to # t
    BY <1>2, <2>2, CastValues
  <2>3. QED
    BY <2>1, <2>2
<1>5. QED
  BY <1>1, <1>3, <1>4, NumberedType

\* Every step of ingestion and preparation keeps the types.
LEMMA TypeInvAlways == IngestSpec => []TypeInv
<1>1. Init => TypeInv
  <2> SUFFICES ASSUME Init PROVE TypeInv
    OBVIOUS
  <2>1. <<>> \in Seq(Int) /\ <<>> \in Seq(BOOLEAN) /\ 0 \in Nat
    OBVIOUS
  <2>2. NewColumn \in Column
    BY <2>1, ColumnMember DEF NewColumn
  <2>3. declared \in [Cols -> DataTypes]
    BY SchemasAssumption DEF Init
  <2>4. QED
    BY <2>2, <2>3, SizesAssumption DEF Init, TypeInv
<1>2. IInv /\ TypeInv /\ IngestTuple => TypeInv'
  <2> SUFFICES ASSUME IInv, TypeInv, IngestTuple PROVE TypeInv'
    OBVIOUS
  <2>1. PICK tuple \in [Cols -> UNION {Cells[t] : t \in DataTypes}] :
          /\ \A c \in Cols : tuple[c] \in Cells[types[c]]
          /\ tuples' = Append(tuples, tuple)
          /\ cols' = [c \in Cols |-> Ingested(types[c], cols[c], tuple[c])]
    BY DEF IngestTuple
  <2>2. tuple \in [Cols -> Int \cup {Null}]
    <3>1. \A c \in Cols : tuple[c] \in Int \cup {Null}
      BY <2>1, SchemasAssumption DEF TypeInv
    <3>2. QED
      BY <3>1
  <2>3. tuples' \in Seq([Cols -> Int \cup {Null}]) /\ Len(tuples') <= Capacity
    <3>1. /\ tuples \in Seq([Cols -> Int \cup {Null}]) /\ Len(tuples) < Capacity
          /\ Capacity \in Nat
      BY SizesAssumption DEF TypeInv, IngestTuple
    <3>2. QED
      BY <2>1, <2>2, <3>1
  <2>4. cols' \in [Cols -> Column]
    <3>1. \A c \in Cols : Ingested(types[c], cols[c], tuple[c]) \in Column
      BY <2>2, IngestedType DEF TypeInv
    <3>2. QED
      BY <2>1, <3>1
  <2>5. QED
    BY <2>3, <2>4 DEF TypeInv, IngestTuple
<1>3. IInv /\ TypeInv /\ EndRowgroup => TypeInv'
  <2> SUFFICES ASSUME IInv, TypeInv, EndRowgroup PROVE TypeInv'
    OBVIOUS
  <2>1. \A c \in Cols : cols[c] \in Column /\ cols[c].data # <<>>
    <3>1. Len(tuples) \in Nat \ {0}
      BY DEF TypeInv, EndRowgroup
    <3>2. \A c \in Cols : Len(cols[c].data) = Len(tuples)
      BY DEF IInv, Sized, EndRowgroup
    <3>3. QED
      BY <3>1, <3>2 DEF TypeInv
  <2>2. HowManyToFill \in Nat
    BY HowManyType DEF IInv
  <2>3. cols' \in [Cols -> Column]
    BY <2>1, <2>2, FilledType DEF EndRowgroup
  <2>4. QED
    BY <2>3 DEF TypeInv, EndRowgroup
<1>4. IInv /\ TypeInv /\ Prepare => TypeInv'
  <2> SUFFICES ASSUME IInv, TypeInv, Prepare PROVE TypeInv'
    OBVIOUS
  <2>1. PICK to : /\ to = [c \in Cols |-> CastType(types[c], cols[c])]
                  /\ types' = to
                  /\ cols' = [c \in Cols |-> Numbered(CastColumn(types[c], to[c], cols[c]))]
    BY DEF Prepare
  <2>2. /\ to \in [Cols -> DataTypes]
        /\ \A c \in Cols : Numbered(CastColumn(types[c], to[c], cols[c])) \in Column
    <3>1. \A c \in Cols : types[c] \in DataTypes /\ cols[c] \in Column
      BY DEF TypeInv
    <3>2. \A c \in Cols : to[c] = CastType(types[c], cols[c])
      BY <2>1
    <3>3. \A c \in Cols : /\ to[c] \in DataTypes
                          /\ Numbered(CastColumn(types[c], to[c], cols[c])) \in Column
      BY <3>1, <3>2, PreparedType
    <3>4. QED
      BY <2>1, <3>3
  <2>3. cols' \in [Cols -> Column]
    BY <2>1, <2>2
  <2>4. stage # "reading" /\ tuples' = tuples /\ declared' = declared
    BY DEF Prepare
  <2>5. QED
    BY <2>1, <2>2, <2>3, <2>4 DEF TypeInv
<1>5. IInv /\ TypeInv /\ [IngestNext]_ingestVars => TypeInv'
  <2>1. TypeInv /\ UNCHANGED ingestVars => TypeInv'
    BY DEF ingestVars, TypeInv
  <2>2. QED
    BY <1>2, <1>3, <1>4, <2>1 DEF IngestNext
<1>6. QED
  BY <1>1, <1>5, IInvAlways, PTL DEF IngestSpec

\* Every variable of a rowgroup in memory has its type in every reachable state,
\* the keys of the bimaps and what the casts make of any cell among them, and no
\* column loses step with the tuples.
THEOREM TypesAlwaysOK == IngestSpec => []IngestTypeOK
<1>1. IInv /\ TypeInv => IngestTypeOK
  <2> SUFFICES ASSUME IInv, TypeInv PROVE IngestTypeOK
    OBVIOUS
  <2>1. ASSUME NEW c \in Cols
        PROVE  Len(cols[c].null_map_arr) = Len(tuples) /\ Len(cols[c].data) >= Len(tuples)
    BY HowManyType DEF IInv, Sized
  <2>2. QED
    BY <2>1 DEF IInv, TypeInv, IngestTypeOK
<1>2. QED
  BY <1>1, IInvAlways, TypeInvAlways, PTL

-----------------------------------------------------------------------------
(* The values after a cast *)

\* A value that survives: numerals have 32 bits and need more than 16, less the zeros
\* that lead them, and what is compared as int64_t is one.
Admitted(t, v) ==
  /\ t = "FLS_STR" => v < 0 \/ (H[2] <= Stoll(v) /\ Stoll(v) < H[3])
  /\ t = "DOUBLE" => 0 - H[4] <= v \div 2 /\ v \div 2 < H[4]
  /\ t \in Signed \cup {"UINT32", "UINT64"} => 0 - H[4] <= v /\ v < H[4]

\* A column that has been read, of a file of n tuples: the values filled in repeat
\* the last one.
Raw(t, col, n) ==
  /\ Len(col.null_map_arr) = n /\ Len(col.data) >= n
  /\ \A k \in 1 .. Len(col.data) : Admitted(t, col.data[k])
  /\ \A k \in 1 .. Len(col.data) : k > n => col.data[k] = col.data[n]

\* A column of type t whose values are found again in the column new of type to,
\* which is its last type and whose values are numbered.
Settled(t, col, to, new, n) ==
  /\ CastType(to, new) = to
  /\ \A k \in 1 .. n :
       ~ col.null_map_arr[k] => Printed(to, new.data[k]) = Printed(t, Survives(t, to, col.data[k]))
  /\ \A k \in 1 .. Len(new.data) : new.data[k] \in ToSet(new.keys)

\* cast looks at the values and the null map only.
LEMMA CastTypeSame ==
  ASSUME NEW t, NEW a, NEW b, a.data = b.data, a.null_map_arr = b.null_map_arr
  PROVE  CastType(t, a) = CastType(t, b)
<1>1. IsNumeric(a) <=> IsNumeric(b)
  BY DEF IsNumeric
<1>2. IsDoubleCastable(a) <=> IsDoubleCastable(b)
  BY DEF IsDoubleCastable
<1>3. QED
  BY <1>1, <1>2, Zenon DEF CastType

\* A column that keeps its type is settled.
LEMMA KeptSettled ==
  ASSUME NEW t, NEW col \in Column, NEW n \in Nat, CastType(t, col) = t
  PROVE  Settled(t, col, t, Numbered(CastColumn(t, t, col)), n)
<1>1. PICK new : new = Numbered(CastColumn(t, t, col))
  OBVIOUS
<1>2. new = Numbered(col)
  BY <1>1 DEF CastColumn
<1>3. /\ new.data = col.data /\ new.null_map_arr = col.null_map_arr
      /\ \A k \in 1 .. Len(col.data) : col.data[k] \in ToSet(new.keys)
  BY <1>2, NumberedType
<1>4. CastType(t, new) = t
  BY <1>3, CastTypeSame
<1>5. \A v : Survives(t, t, v) = v
  BY Zenon DEF Survives
<1>6. QED
  BY <1>1, <1>3, <1>4, <1>5 DEF Settled

\* Sequences of numbers of one length that agree everywhere are equal.
LEMMA NumberSeqEqual ==
  \A a, b \in Seq(Int) : Len(a) = Len(b) /\ (\A k \in 1 .. Len(b) : a[k] = b[k]) => a = b
OBVIOUS

\* A column cast to the smallest type of what is stored is settled: the values
\* are those before the cast, and the smallest type is the same again.
LEMMA CastSettled ==
  ASSUME NEW t \in DataTypes, t \notin {"BOOLEAN", "DATE", "TIMESTAMP", "DECIMAL", "FLOAT"},
         NEW col \in Column, NEW n \in Nat, n <= Len(col.data),
         NEW to \in Signed, t # to,
         NEW d, d = ToCast(t, col.data),
         to = SmallestSigned(d),
         \A k \in 1 .. Len(d) : Fits(to, d[k]),
         t = "DOUBLE" => \A k \in 1 .. n : col.null_map_arr[k] \/ col.data[k] % 2 = 0
  PROVE  Settled(t, col, to, Numbered(CastColumn(t, to, col)), n)
<1>1. PICK cast, new : cast = CastColumn(t, to, col) /\ new = Numbered(cast)
  OBVIOUS
<1>2. /\ cast \in Column /\ d \in Seq(Int) /\ Len(d) = Len(col.data)
      /\ cast.data \in Seq(Int) /\ Len(cast.data) = Len(d)
      /\ \A k \in 1 .. Len(d) : cast.data[k] = ToSigned(to, d[k])
  <2>1. /\ CastColumn(t, to, col) \in Column /\ d \in Seq(Int) /\ Len(d) = Len(col.data)
        /\ CastColumn(t, to, col).data \in Seq(Int)
        /\ Len(CastColumn(t, to, col).data) = Len(d)
        /\ \A k \in 1 .. Len(d) : CastColumn(t, to, col).data[k] = ToSigned(to, d[k])
    <3>1. t # to /\ d = ToCast(t, col.data)
      OBVIOUS
    <3>2. QED
      BY <3>1, CastValues, SMTT(30)
  <2>2. QED
    BY <1>1, <2>1
<1>3. cast.data = d
  <2>1. \A k \in 1 .. Len(d) : cast.data[k] = d[k]
    BY <1>2 DEF Fits
  <2>2. QED
    BY <1>2, <2>1, NumberSeqEqual
<1>4. new.data = d /\ \A k \in 1 .. Len(d) : d[k] \in ToSet(new.keys)
  BY <1>1, <1>2, <1>3, NumberedType
<1>5. CastType(to, new) = to
  <2>1. CastType(to, new) = SmallestSigned(new.data)
    BY DEF CastType, Signed
  <2>2. QED
    BY <1>4, <2>1
<1>6. ASSUME NEW k \in 1 .. n, ~ col.null_map_arr[k]
      PROVE  Printed(to, d[k]) = Printed(t, Survives(t, to, col.data[k]))
  <2>1. k \in 1 .. Len(col.data) /\ col.data[k] \in Int
    BY ColumnFields
  <2>2. Printed(to, d[k]) = <<"plain", 2 * d[k]>> /\ to # "FLS_STR"
    BY DEF Printed, Signed, Floating
  <2>3. CASE t = "DOUBLE"
    <3>1. d[k] = col.data[k] \div 2 /\ col.data[k] % 2 = 0
      BY <1>6, <2>1, <2>3, ToCastType, ColumnFields
    <3>2. 2 * d[k] = col.data[k]
      <4>1. \A x \in Int : x % 2 = 0 => 2 * (x \div 2) = x
        OBVIOUS
      <4>2. QED
        BY <2>1, <3>1, <4>1
    <3>3. Printed(t, Survives(t, to, col.data[k])) = <<"plain", col.data[k]>>
      BY <2>3 DEF Survives, Printed, Floating
    <3>4. QED
      BY <2>2, <3>2, <3>3
  <2>4. CASE t = "FLS_STR"
    <3>1. d[k] = Stoll(col.data[k]) /\ Stoll(d[k]) = d[k]
      <4>1. \A i \in 1 .. Len(col.data) : d[i] = Stoll(col.data[i])
        BY <2>4, ToCastType, ColumnFields
      <4>2. Stoll(Stoll(col.data[k])) = Stoll(col.data[k])
        BY <2>1, StollNumber
      <4>3. QED
        BY <2>1, <4>1, <4>2
    <3>2. Survives(t, to, col.data[k]) = d[k]
      BY <2>2, <2>4, <3>1 DEF Survives
    <3>3. Printed(t, d[k]) = <<"plain", 2 * d[k]>>
      BY <2>4, <3>1 DEF Printed, Floating
    <3>4. QED
      BY <2>2, <3>2, <3>3
  <2>5. CASE t \notin {"DOUBLE", "FLS_STR"}
    <3>1. d[k] = col.data[k]
      BY <2>5, ToCastType, ColumnFields
    <3>2. Printed(t, Survives(t, to, col.data[k])) = <<"plain", 2 * col.data[k]>>
      BY <2>5 DEF Survives, Printed, Floating
    <3>3. QED
      BY <2>2, <3>1, <3>2
  <2>6. QED
    BY <2>3, <2>4, <2>5
<1>7. QED
  BY <1>1, <1>4, <1>5, <1>6 DEF Settled

\* prepare_rowgroup settles a column that has been read.
LEMMA PrepareSettles ==
  ASSUME NEW t \in DataTypes, t \notin {"DATE", "TIMESTAMP", "DECIMAL"},
         NEW col \in Column, NEW n \in Nat \ {0}, Raw(t, col, n)
  PROVE  Settled(t, col, CastType(t, col), Numbered(CastColumn(t, CastType(t, col), col)), n)
<1>1. PICK m : m = Len(col.data)
  OBVIOUS
<1>2. /\ col.data \in Seq(Int) /\ m \in Nat /\ n <= m /\ n \in 1 .. m /\ col.data # <<>>
      /\ \A k \in 1 .. m : col.data[k] \in Int /\ Admitted(t, col.data[k])
      /\ Len(col.null_map_arr) = n
  BY <1>1, ColumnFields DEF Raw
<1>3. CASE CastType(t, col) = t
  BY <1>3, KeptSettled
<1>4. CASE t = "FLS_STR" /\ CastType(t, col) # t
  <2>1. IsNumeric(col) /\ CastType(t, col) = "INT32" /\ "INT32" \in Signed
    BY <1>4 DEF CastType, Signed
  <2>2. PICK d : d = ToCast(t, col.data)
    OBVIOUS
  <2>3. d \in Seq(Int) /\ Len(d) = m /\ d # <<>> /\ \A k \in 1 .. m : d[k] = Stoll(col.data[k])
    BY <1>1, <1>2, <1>4, <2>2, ToCastType
  <2>4. ASSUME NEW k \in 1 .. m PROVE H[2] <= d[k] /\ d[k] < H[3]
    <3>1. \A i \in 1 .. n : col.data[i] >= 0
      BY <1>2, <2>1 DEF IsNumeric
    <3>2. col.data[k] >= 0
      <4>1. CASE k <= n
        BY <3>1, <4>1
      <4>2. CASE k > n
        <5>1. col.data[k] = col.data[n]
          BY <1>1, <4>2 DEF Raw
        <5>2. QED
          BY <3>1, <5>1
      <4>3. QED
        BY <1>2, <4>1, <4>2
    <3>3. H[2] <= Stoll(col.data[k]) /\ Stoll(col.data[k]) < H[3]
      BY <1>2, <1>4, <3>2 DEF Admitted
    <3>4. QED
      BY <2>3, <3>3
  <2>5. SmallestSigned(d) = "INT32"
    BY <2>3, <2>4, SmallestOfLarge
  <2>6. ASSUME NEW k \in 1 .. m PROVE Fits("INT32", d[k])
    <3>1. H[2] \in Nat /\ H[3] \in Nat
      BY SizesAssumption
    <3>2. 0 - H[3] <= d[k] /\ d[k] < H[3] /\ d[k] \in Int
      BY <2>3, <2>4, <3>1, SMTT(30)
    <3>3. QED
      BY <2>1, <3>2, SignedCast, SignedHalf
  <2>7. QED
    BY <1>1, <1>2, <1>4, <2>1, <2>2, <2>3, <2>5, <2>6, CastSettled
<1>5. CASE t = "DOUBLE" /\ CastType(t, col) # t
  <2>1. PICK d : d = ToCast(t, col.data)
    OBVIOUS
  <2>2. IsDoubleCastable(col) /\ CastType(t, col) = SmallestSigned(d)
    BY <1>5, <2>1 DEF CastType, ToCast
  <2>3. d \in Seq(Int) /\ Len(d) = m /\ \A k \in 1 .. m : d[k] = col.data[k] \div 2
    BY <1>1, <1>2, <1>5, <2>1, ToCastType
  <2>4. d # <<>> /\ \A k \in 1 .. m : 0 - H[4] <= d[k] /\ d[k] < H[4]
    BY <1>2, <1>5, <2>3 DEF Admitted
  <2>5. SmallestSigned(d) \in Signed /\ \A k \in 1 .. m : Fits(SmallestSigned(d), d[k])
    BY <2>3, <2>4, SmallestHolds
  <2>6. \A k \in 1 .. n : col.null_map_arr[k] \/ col.data[k] % 2 = 0
    BY <1>2, <2>2 DEF IsDoubleCastable
  <2>7. QED
    BY <1>1, <1>2, <1>5, <2>1, <2>2, <2>3, <2>5, <2>6, CastSettled
<1>6. CASE t \notin {"FLS_STR", "DOUBLE"} /\ CastType(t, col) # t
  <2>1. t \notin {"BOOLEAN", "UINT8", "FLOAT"} /\ CastType(t, col) = SmallestSigned(col.data)
    BY <1>6 DEF CastType
  <2>2. t \in Signed \cup {"UINT32", "UINT64"}
    BY <1>6, <2>1 DEF DataTypes, Floating
  <2>3. \A k \in 1 .. m : 0 - H[4] <= col.data[k] /\ col.data[k] < H[4]
    BY <1>2, <2>2 DEF Admitted
  <2>4. /\ SmallestSigned(col.data) \in Signed
        /\ \A k \in 1 .. m : Fits(SmallestSigned(col.data), col.data[k])
    BY <1>1, <1>2, <2>3, SmallestHolds
  <2>5. ToCast(t, col.data) = col.data
    BY <1>6 DEF ToCast
  <2>6. QED
    BY <1>1, <1>2, <1>6, <2>1, <2>4, <2>5, CastSettled
<1>7. QED
  BY <1>3, <1>4, <1>5, <1>6

-----------------------------------------------------------------------------
(* The values of a column that is read *)

\* What a column of type t, the column c of the tuples s, holds: the cells, what
\* has been stored for nulls, and the last value for what has been filled in.
Follows(t, col, s, c) ==
  /\ \A k \in 1 .. Len(col.data) : Admitted(t, col.data[k])
  /\ \A k \in 1 .. Len(col.data) : k > Len(s) => col.data[k] = col.data[Len(s)]
  /\ \A i \in 1 .. Len(s) : /\ col.null_map_arr[i] <=> s[i][c] = Null
                            /\ s[i][c] # Null => col.data[i] = s[i][c]

\* What is stored for a null is admitted.
LEMMA LastSeenAdmitted ==
  ASSUME NEW t, NEW d \in Seq(Int), \A k \in 1 .. Len(d) : Admitted(t, d[k])
  PROVE  Admitted(t, LastSeen(t, d))
<1>1. CASE d = <<>>
  <2>1. H[4] \in Nat \ {0} /\ NullText < 0
    BY SizesAssumption
  <2>2. 0 - H[4] <= 0 \div 2 /\ 0 \div 2 < H[4] /\ 0 - H[4] <= 0 /\ 0 < H[4]
    BY <2>1
  <2>3. CASE t = "FLS_STR"
    <3>1. LastSeen(t, d) = NullText
      BY <1>1, <2>3 DEF LastSeen
    <3>2. QED
      BY <2>1, <2>3, <3>1 DEF Admitted, Signed
  <2>4. CASE t # "FLS_STR"
    <3>1. LastSeen(t, d) = 0
      BY <1>1, <2>4 DEF LastSeen
    <3>2. QED
      BY <2>2, <2>4, <3>1 DEF Admitted
  <2>5. QED
    BY <2>3, <2>4
<1>2. CASE d # <<>>
  <2>1. LastSeen(t, d) = d[Len(d)] /\ Len(d) \in 1 .. Len(d)
    BY <1>2, LastType DEF LastSeen
  <2>2. QED
    BY <2>1
<1>3. QED
  BY <1>1, <1>2

\* A column follows its tuples when one more is ingested.
LEMMA IngestedFollows ==
  ASSUME NEW t, NEW col \in Column, NEW s \in Seq([Cols -> Int \cup {Null}]), NEW c \in Cols,
         NEW tuple \in [Cols -> Int \cup {Null}],
         Len(col.data) = Len(s), Len(col.null_map_arr) = Len(s),
         Follows(t, col, s, c), tuple[c] # Null => Admitted(t, tuple[c])
  PROVE  Follows(t, Ingested(t, col, tuple[c]), Append(s, tuple), c)
<1>1. PICK cell, n : cell = tuple[c] /\ n = Len(s)
  OBVIOUS
<1>2. PICK e : e = (IF cell = Null THEN LastSeen(t, col.data) ELSE cell)
  OBVIOUS
<1>3. PICK b \in BOOLEAN : b = (cell = Null)
  OBVIOUS
<1>4. PICK new, more : new = Ingested(t, col, cell) /\ more = Append(s, tuple)
  OBVIOUS
<1>5. /\ col.data \in Seq(Int) /\ col.null_map_arr \in Seq(BOOLEAN) /\ n \in Nat
      /\ cell \in Int \cup {Null}
  BY <1>1, ColumnFields
<1>6. new.data = Append(col.data, e) /\ new.null_map_arr = Append(col.null_map_arr, b)
  BY <1>2, <1>3, <1>4 DEF Ingested
<1>7. e \in Int /\ Admitted(t, e)
  <2>1. CASE cell = Null
    <3>1. LastSeen(t, col.data) \in Int
      BY <1>5, LastType, SizesAssumption DEF LastSeen
    <3>2. QED
      BY <1>2, <1>5, <2>1, <3>1, LastSeenAdmitted DEF Follows
  <2>2. CASE cell # Null
    BY <1>1, <1>2, <1>5, <2>2
  <2>3. QED
    BY <2>1, <2>2
<1>8. /\ new.data \in Seq(Int) /\ Len(new.data) = n + 1 /\ new.data[n + 1] = e
      /\ \A k \in 1 .. n : new.data[k] = col.data[k]
  BY <1>1, <1>5, <1>6, <1>7
<1>9. new.null_map_arr[n + 1] = b /\ \A k \in 1 .. n : new.null_map_arr[k] = col.null_map_arr[k]
  BY <1>1, <1>5, <1>6
<1>10. Len(more) = n + 1 /\ more[n + 1] = tuple /\ \A k \in 1 .. n : more[k] = s[k]
  BY <1>1, <1>4
<1>11. \A k \in 1 .. n + 1 : k \in 1 .. n \/ k = n + 1
  BY <1>5
<1>12. \A k \in 1 .. n + 1 : Admitted(t, new.data[k])
  BY <1>1, <1>7, <1>8, <1>11 DEF Follows
<1>13. \A k \in 1 .. n + 1 : ~(k > n + 1)
  BY <1>5
<1>14. ASSUME NEW k \in 1 .. n + 1
       PROVE  /\ new.null_map_arr[k] <=> more[k][c] = Null
              /\ more[k][c] # Null => new.data[k] = more[k][c]
  <2>1. CASE k \in 1 .. n
    <3>1. /\ col.null_map_arr[k] <=> s[k][c] = Null
          /\ s[k][c] # Null => col.data[k] = s[k][c]
      BY <1>1, <2>1 DEF Follows
    <3>2. more[k] = s[k] /\ new.data[k] = col.data[k] /\ new.null_map_arr[k] = col.null_map_arr[k]
      BY <1>8, <1>9, <1>10, <2>1
    <3>3. QED
      BY <3>1, <3>2
  <2>2. CASE k = n + 1
    <3>1. more[k][c] = cell /\ new.data[k] = e /\ new.null_map_arr[k] = b
      BY <1>1, <1>8, <1>9, <1>10, <2>2
    <3>2. QED
      BY <1>2, <1>3, <3>1
  <2>3. QED
    BY <1>11, <2>1, <2>2
<1>15. Follows(t, new, more, c)
  BY <1>8, <1>10, <1>12, <1>13, <1>14 DEF Follows
<1>16. QED
  BY <1>1, <1>4, <1>15

\* The elements of a concatenation.
LEMMA ConcatFacts ==
  \A a, b \in Seq(Int) :
    /\ a \o b \in Seq(Int) /\ Len(a \o b) = Len(a) + Len(b)
    /\ \A k \in 1 .. Len(a) : (a \o b)[k] = a[k]
    /\ \A k \in 1 .. Len(b) : (a \o b)[Len(a) + k] = b[k]
OBVIOUS

\* The column new is a column of n values and f repetitions of the last one.
Repeated(new, col, n, f) ==
  /\ new.data \in Seq(Int) /\ Len(new.data) = n + f
  /\ \A k \in 1 .. n : new.data[k] = col.data[k]
  /\ \A k \in 1 .. n + f : k > n => new.data[k] = col.data[n]
  /\ new.null_map_arr = col.null_map_arr /\ new.n_nulls = col.n_nulls /\ new.keys = col.keys

\* What FillMissingValues makes of a column that has a value.
LEMMA FilledData ==
  ASSUME NEW col \in Column, NEW f \in Nat, Len(col.data) # 0
  PROVE  Repeated(Filled(col, f), col, Len(col.data), f)
<1>0. Len(col.data) \in Nat \ {0}
  BY ColumnFields
<1> SUFFICES ASSUME NEW n \in Nat \ {0}, n = Len(col.data), NEW new, new = Filled(col, f)
             PROVE  Repeated(new, col, n, f)
  BY <1>0
<1>1. PICK x, fill, d : x = Last(col.data) /\ fill = [i \in 1 .. f |-> x] /\ d = col.data \o fill
  OBVIOUS
<1>2. col.data \in Seq(Int) /\ n \in 1 .. n
  BY ColumnFields
<1>3. x = col.data[n] /\ x \in Int
  BY <1>1, <1>2, LastType
<1>4. fill \in Seq(Int) /\ Len(fill) = f /\ \A i \in 1 .. f : fill[i] = x
  BY <1>1, <1>3
<1>5. /\ d \in Seq(Int) /\ Len(d) = n + f
      /\ \A k \in 1 .. n : d[k] = col.data[k]
      /\ \A k \in 1 .. n + f : k > n => d[k] = x
  <2>1. PICK a \in Seq(Int) : a = col.data
    BY <1>2
  <2>2. d = a \o fill /\ Len(a) = n
    BY <1>1, <2>1
  <2>3. d \in Seq(Int) /\ Len(d) = n + f
    BY <1>4, <2>2, ConcatFacts
  <2>4. ASSUME NEW k \in 1 .. n PROVE d[k] = a[k]
    BY <1>4, <2>2, ConcatFacts
  <2>5. ASSUME NEW k \in 1 .. n + f, k > n PROVE d[k] = x
    <3>1. k - n \in 1 .. f
      BY <2>5
    <3>2. d[k] = fill[k - n]
      <4>1. k = Len(a) + (k - n)
        BY <2>2
      <4>2. QED
        BY <1>4, <2>2, <3>1, <4>1, ConcatFacts, SMTT(30)
    <3>3. QED
      BY <1>4, <3>1, <3>2
  <2>6. QED
    BY <2>1, <2>3, <2>4, <2>5
<1>6. new = [data |-> d, null_map_arr |-> col.null_map_arr,
             n_nulls |-> col.n_nulls, keys |-> col.keys]
  BY <1>1, DataUpdate, ColumnFields, Zenon DEF Filled
<1>7. QED
  BY <1>3, <1>5, <1>6 DEF Repeated

\* It follows them when its last vector is filled.
LEMMA FilledFollows ==
  ASSUME NEW t, NEW col \in Column, NEW s \in Seq([Cols -> Int \cup {Null}]), NEW c \in Cols,
         NEW f \in Nat, s # <<>>, Len(col.data) = Len(s), Follows(t, col, s, c)
  PROVE  Follows(t, Filled(col, f), s, c)
<1> SUFFICES ASSUME NEW n \in Nat \ {0}, n = Len(s), NEW new, new = Filled(col, f)
             PROVE  Follows(t, new, s, c)
  OBVIOUS
<1>1. n \in 1 .. n /\ Len(col.data) = n /\ Len(col.data) # 0
  OBVIOUS
<1>2. Repeated(new, col, n, f)
  BY <1>1, FilledData, Zenon
<1>3. \A k \in 1 .. n + f : k \in 1 .. n \/ k > n
  BY <1>1
<1>4. \A k \in 1 .. n + f : Admitted(t, new.data[k])
  BY <1>1, <1>2, <1>3 DEF Follows, Repeated
<1>5. \A k \in 1 .. n + f : k > n => new.data[k] = new.data[n]
  BY <1>1, <1>2 DEF Repeated
<1>6. \A i \in 1 .. n : /\ col.null_map_arr[i] <=> s[i][c] = Null
                        /\ s[i][c] # Null => new.data[i] = s[i][c]
  BY <1>2 DEF Follows, Repeated
<1>7. QED
  BY <1>2, <1>4, <1>5, <1>6 DEF Follows, Repeated

-----------------------------------------------------------------------------
(* The casts are exact *)

\* The files the theorems are about: no DATE, TIMESTAMP or DECIMAL, which a cast
\* turns into the numbers they are stored as, and no value beyond int64_t.
ExactCells ==
  \A s \in Schemas : \A c \in Cols :
    /\ s[c] \notin {"DATE", "TIMESTAMP", "DECIMAL"}
    /\ \A v \in Cells[s[c]] \ {Null} : Admitted(s[c], v)

\* The inductive invariant of the values: what is read follows the tuples, and what
\* is prepared prints like them, has its final type and is numbered.
ValueInv ==
  /\ stage # "prepared" =>
       types = declared /\ \A c \in Cols : Follows(declared[c], cols[c], tuples, c)
  /\ stage = "prepared" => \A c \in Cols :
       /\ CastType(types[c], cols[c]) = types[c]
       /\ \A k \in 1 .. Len(cols[c].data) : cols[c].data[k] \in ToSet(cols[c].keys)
       /\ \A i \in 1 .. Len(tuples) : tuples[i][c] # Null =>
            Printed(types[c], cols[c].data[i]) =
              Printed(declared[c], Survives(declared[c], types[c], tuples[i][c]))

\* A prepared column stays what it is when it is prepared again.
LEMMA PreparedStays ==
  ASSUME TypeInv, ValueInv, stage = "prepared", NEW c \in Cols
  PROVE  /\ CastType(types[c], cols[c]) = types[c]
         /\ Numbered(CastColumn(types[c], CastType(types[c], cols[c]), cols[c])) = cols[c]
<1>1. CastType(types[c], cols[c]) = types[c]
  BY DEF ValueInv
<1>2. CastColumn(types[c], CastType(types[c], cols[c]), cols[c]) = cols[c]
  BY <1>1 DEF CastColumn
<1>3. Numbered(cols[c]) = cols[c]
  <2>1. cols[c] \in Column
    BY DEF TypeInv
  <2>2. \A k \in 1 .. Len(cols[c].data) : cols[c].data[k] \in ToSet(cols[c].keys)
    BY DEF ValueInv
  <2>3. QED
    BY <2>1, <2>2, NumberedType
<1>4. QED
  BY <1>1, <1>2, <1>3

\* Preparing a prepared rowgroup changes no column.
LEMMA PrepareAgain == TypeInv /\ ValueInv /\ stage = "prepared" /\ Prepare => UNCHANGED <<types, cols>>
<1> SUFFICES ASSUME TypeInv, ValueInv, stage = "prepared", Prepare
             PROVE  types' = types /\ cols' = cols
  OBVIOUS
<1>1. PICK to : /\ to = [c \in Cols |-> CastType(types[c], cols[c])]
                /\ types' = to
                /\ cols' = [c \in Cols |-> Numbered(CastColumn(types[c], to[c], cols[c]))]
  BY DEF Prepare
<1>2. \A c \in Cols : to[c] = CastType(types[c], cols[c])
  BY <1>1
<1>3. \A c \in Cols : to[c] = types[c]
  BY <1>2, PreparedStays
<1>4. \A c \in Cols : Numbered(CastColumn(types[c], to[c], cols[c])) = cols[c]
  BY <1>2, PreparedStays
<1>5. types = [c \in Cols |-> types[c]] /\ cols = [c \in Cols |-> cols[c]]
  BY DEF TypeInv
<1>6. to = [c \in Cols |-> types[c]]
  BY <1>1, <1>2, <1>3
<1>7. cols' = [c \in Cols |-> cols[c]]
  BY <1>1, <1>4
<1>8. QED
  BY <1>1, <1>5, <1>6, <1>7

\* Init establishes the invariant of the values.
LEMMA InitValues == Init => ValueInv
<1> SUFFICES ASSUME Init PROVE ValueInv
  OBVIOUS
<1>1. \A c \in Cols : cols[c].data = <<>> /\ cols[c].null_map_arr = <<>>
  BY DEF Init, NewColumn
<1>2. tuples = <<>> /\ stage = "reading" /\ types = declared
  BY DEF Init
<1>3. \A c \in Cols : Follows(declared[c], cols[c], tuples, c)
  BY <1>1, <1>2 DEF Follows
<1>4. QED
  BY <1>2, <1>3 DEF ValueInv

\* Ingesting a tuple keeps it.
LEMMA TupleValues ==
  ASSUME ExactCells, IInv, TypeInv, ValueInv, IngestTuple
  PROVE  ValueInv'
<1>1. PICK tuple \in [Cols -> UNION {Cells[t] : t \in DataTypes}] :
        /\ \A c \in Cols : tuple[c] \in Cells[types[c]]
        /\ tuples' = Append(tuples, tuple)
        /\ cols' = [c \in Cols |-> Ingested(types[c], cols[c], tuple[c])]
  BY DEF IngestTuple
<1>2. /\ stage = "reading" /\ stage' = stage /\ types' = types /\ declared' = declared
      /\ types = declared /\ declared \in Schemas /\ declared \in [Cols -> DataTypes]
  BY DEF IngestTuple, ValueInv, TypeInv
<1>3. tuple \in [Cols -> Int \cup {Null}]
  <2>1. \A c \in Cols : tuple[c] \in Int \cup {Null}
    BY <1>1, <1>2, SchemasAssumption
  <2>2. QED
    BY <2>1
<1>4. ASSUME NEW c \in Cols
      PROVE  Follows(declared[c], Ingested(declared[c], cols[c], tuple[c]), Append(tuples, tuple), c)
  <2>1. Follows(declared[c], cols[c], tuples, c)
    BY <1>2 DEF ValueInv
  <2>2. Len(cols[c].data) = Len(tuples) /\ Len(cols[c].null_map_arr) = Len(tuples)
    BY <1>2 DEF IInv, Sized
  <2>3. tuple[c] # Null => Admitted(declared[c], tuple[c])
    <3>1. tuple[c] \in Cells[declared[c]]
      BY <1>1, <1>2
    <3>2. \A v \in Cells[declared[c]] \ {Null} : Admitted(declared[c], v)
      BY <1>2 DEF ExactCells
    <3>3. QED
      BY <3>1, <3>2
  <2>4. cols[c] \in Column /\ tuples \in Seq([Cols -> Int \cup {Null}])
    BY DEF TypeInv
  <2>5. QED
    BY <1>3, <2>1, <2>2, <2>3, <2>4, IngestedFollows
<1>5. \A c \in Cols : cols'[c] = Ingested(declared[c], cols[c], tuple[c])
  BY <1>1, <1>2
<1>6. \A c \in Cols : Follows(declared'[c], cols'[c], tuples', c)
  BY <1>1, <1>2, <1>4, <1>5
<1>7. stage' # "prepared" /\ types' = declared'
  BY <1>2
<1>8. QED
  BY <1>6, <1>7 DEF ValueInv

\* Ending the rowgroup keeps it.
LEMMA EndValues ==
  ASSUME IInv, TypeInv, ValueInv, EndRowgroup
  PROVE  ValueInv'
<1>1. /\ stage = "reading" /\ stage' = "read" /\ types' = types /\ declared' = declared
      /\ types = declared /\ tuples' = tuples /\ tuples # <<>>
      /\ cols' = [c \in Cols |-> Filled(cols[c], HowManyToFill)]
  BY DEF EndRowgroup, ValueInv
<1>2. HowManyToFill \in Nat
  BY HowManyType DEF IInv
<1>3. ASSUME NEW c \in Cols
      PROVE  Follows(declared[c], Filled(cols[c], HowManyToFill), tuples, c)
  <2>1. Follows(declared[c], cols[c], tuples, c)
    BY <1>1 DEF ValueInv
  <2>2. Len(cols[c].data) = Len(tuples)
    BY <1>1 DEF IInv, Sized
  <2>3. cols[c] \in Column /\ tuples \in Seq([Cols -> Int \cup {Null}])
    BY DEF TypeInv
  <2>4. QED
    BY <1>1, <1>2, <2>1, <2>2, <2>3, FilledFollows
<1>4. \A c \in Cols : cols'[c] = Filled(cols[c], HowManyToFill)
  BY <1>1
<1>5. \A c \in Cols : Follows(declared'[c], cols'[c], tuples', c)
  BY <1>1, <1>3, <1>4
<1>6. QED
  BY <1>1, <1>5 DEF ValueInv

\* Preparing the rowgroup for the first time establishes the part of it about
\* prepared columns.
LEMMA PrepareValues ==
  ASSUME ExactCells, IInv, TypeInv, ValueInv, Prepare
  PROVE  ValueInv'
<1>1. PICK to : /\ to = [c \in Cols |-> CastType(types[c], cols[c])]
                /\ types' = to
                /\ cols' = [c \in Cols |-> Numbered(CastColumn(types[c], to[c], cols[c]))]
  BY DEF Prepare
<1>2. /\ stage \in {"read", "prepared"} /\ stage' = "prepared"
      /\ declared' = declared /\ tuples' = tuples
  BY DEF Prepare
<1>3. CASE stage = "prepared"
  <2>1. types' = types /\ cols' = cols
    BY <1>3, PrepareAgain
  <2>2. QED
    BY <1>2, <1>3, <2>1 DEF ValueInv
<1>4. CASE stage = "read"
  <2>1. types = declared /\ declared \in Schemas /\ declared \in [Cols -> DataTypes]
    BY <1>4 DEF ValueInv, TypeInv
  <2>2. PICK n : n = Len(tuples)
    OBVIOUS
  <2>3. n \in Nat \ {0}
    BY <1>4, <2>2 DEF TypeInv
  <2>4. ASSUME NEW c \in Cols
        PROVE  /\ Settled(types[c], cols[c], types'[c], cols'[c], n)
               /\ \A i \in 1 .. n : /\ cols[c].null_map_arr[i] <=> tuples[i][c] = Null
                                    /\ tuples[i][c] # Null => cols[c].data[i] = tuples[i][c]
    <3>1. Follows(declared[c], cols[c], tuples, c)
      BY <1>4 DEF ValueInv
    <3>2. Len(cols[c].null_map_arr) = n /\ Len(cols[c].data) >= n
      BY <1>4, <2>2, HowManyType DEF IInv, Sized
    <3>3. Raw(types[c], cols[c], n)
      BY <2>1, <2>2, <3>1, <3>2 DEF Raw, Follows
    <3>4. types[c] \in DataTypes /\ types[c] \notin {"DATE", "TIMESTAMP", "DECIMAL"}
      BY <2>1 DEF ExactCells
    <3>5. cols[c] \in Column
      BY DEF TypeInv
    <3>6. types'[c] = CastType(types[c], cols[c])
      BY <1>1
    <3>7. cols'[c] = Numbered(CastColumn(types[c], CastType(types[c], cols[c]), cols[c]))
      BY <1>1, <3>6
    <3>8. Settled(types[c], cols[c], types'[c], cols'[c], n)
      BY <2>3, <3>3, <3>4, <3>5, <3>6, <3>7, PrepareSettles
    <3>9. QED
      BY <2>2, <3>1, <3>8 DEF Follows
  <2>5. ASSUME NEW c \in Cols
        PROVE  /\ CastType(types'[c], cols'[c]) = types'[c]
               /\ \A k \in 1 .. Len(cols'[c].data) : cols'[c].data[k] \in ToSet(cols'[c].keys)
    BY <2>4 DEF Settled
  <2>6. ASSUME NEW c \in Cols, NEW i \in 1 .. n, tuples[i][c] # Null
        PROVE  Printed(types'[c], cols'[c].data[i]) =
                 Printed(declared[c], Survives(declared[c], types'[c], tuples[i][c]))
    <3>1. ~ cols[c].null_map_arr[i] /\ cols[c].data[i] = tuples[i][c]
      BY <2>4, <2>6
    <3>2. Printed(types'[c], cols'[c].data[i]) =
            Printed(types[c], Survives(types[c], types'[c], cols[c].data[i]))
      BY <2>4, <3>1 DEF Settled
    <3>3. QED
      BY <2>1, <3>1, <3>2
  <2>7. QED
    BY <1>2, <2>2, <2>5, <2>6 DEF ValueInv
<1>5. QED
  BY <1>2, <1>3, <1>4

\* The invariant of the values holds from the first tuple on.
LEMMA ValueInvAlways ==
  ASSUME ExactCells
  PROVE  IngestSpec => []ValueInv
<1>1. IInv /\ TypeInv /\ ValueInv /\ [IngestNext]_ingestVars => ValueInv'
  <2>1. ValueInv /\ UNCHANGED ingestVars => ValueInv'
    BY DEF ingestVars, ValueInv
  <2>2. QED
    BY <2>1, TupleValues, EndValues, PrepareValues DEF IngestNext
<1>2. QED
  BY InitValues, <1>1, IInvAlways, TypeInvAlways, PTL DEF IngestSpec

\* A cell that is not null prints, after the cast of its column, as what was
\* ingested, less the zeros that lead the numerals of a column of strings that is
\* cast: cast looks at the extremes, which is enough for every value between them,
\* and at every string and every half.
THEOREM CastAlwaysExact ==
  ASSUME ExactCells
  PROVE  IngestSpec => []CastExact
<1>1. ValueInv => CastExact
  BY DEF ValueInv, CastExact
<1>2. QED
  BY <1>1, ValueInvAlways, PTL

\* Preparing a rowgroup again, for the next to_fls, changes no type and no value:
\* the types of the first time are those cast chooses for what it made.
THEOREM TypesAlwaysFinal ==
  ASSUME ExactCells
  PROVE  IngestSpec => TypesFinal
<1>1. /\ TypeInv /\ ValueInv /\ [IngestNext]_ingestVars
      => [stage = "prepared" => UNCHANGED <<types, cols>>]_ingestVars
  <2> SUFFICES ASSUME TypeInv, ValueInv, IngestNext, stage = "prepared"
               PROVE  UNCHANGED <<types, cols>>
    BY DEF ingestVars
  <2>1. Prepare
    BY DEF IngestNext, IngestTuple, EndRowgroup
  <2>2. QED
    BY <2>1, PrepareAgain
<1>2. QED
  BY <1>1, TypeInvAlways, ValueInvAlways, PTL DEF IngestSpec, TypesFinal
=============================================================================
