------------------------ MODULE RowgroupEncoderProofs ------------------------
(***************************************************************************)
(* What holds of RowgroupEncoder for every schema, every number of vectors *)
(* and every size of a write: what reads back, and, in the second half,    *)
(* the place of the segments and of the columns in the rowgroup buffer.    *)
(***************************************************************************)
EXTENDS RowgroupEncoder, DataLemmas, SequenceTheorems

-----------------------------------------------------------------------------
(* Sequences *)

\* Append leaves the elements of a sequence and adds one behind them.
LEMMA AppendFacts ==
  ASSUME NEW S, NEW s \in Seq(S), NEW x \in S
  PROVE  /\ Append(s, x) \in Seq(S) /\ Len(Append(s, x)) = Len(s) + 1
         /\ Append(s, x)[Len(s) + 1] = x
         /\ \A k \in 1 .. Len(s) : Append(s, x)[k] = s[k]
OBVIOUS

\* A concatenation is its first part followed by its second.
LEMMA ConcatFacts ==
  ASSUME NEW S, NEW s \in Seq(S), NEW t \in Seq(S)
  PROVE  /\ s \o t \in Seq(S) /\ Len(s \o t) = Len(s) + Len(t)
         /\ \A k \in 1 .. Len(s) : (s \o t)[k] = s[k]
         /\ \A k \in 1 .. Len(t) : (s \o t)[Len(s) + k] = t[k]
OBVIOUS

\* The same for sequences of cells, the bytes of buffer and file.
LEMMA CellConcat ==
  \A s, t \in Seq(Cell) :
    /\ s \o t \in Seq(Cell) /\ Len(s \o t) = Len(s) + Len(t)
    /\ \A k \in 1 .. Len(s) : (s \o t)[k] = s[k]
    /\ \A k \in 1 .. Len(t) : (s \o t)[Len(s) + k] = t[k]
BY ConcatFacts

\* Sequences of cells of one length that agree everywhere are equal.
LEMMA CellSeqEqual ==
  \A s, t \in Seq(Cell) : \A n : Len(s) = n /\ Len(t) = n /\ (\A k \in 1 .. n : s[k] = t[k]) => s = t
OBVIOUS

\* A range that ends before top has its positions in 1 .. top.
LEMMA IndexInside ==
  \A from, n, top \in Nat : from + n <= top => \A k \in 1 .. n : from + k \in 1 .. top
OBVIOUS

\* A slice has the elements of the range it is cut from.
LEMMA SubSeqFacts ==
  ASSUME NEW S, NEW s \in Seq(S), NEW from \in Nat, NEW n \in Nat, from + n <= Len(s)
  PROVE  /\ SubSeq(s, from + 1, from + n) \in Seq(S)
         /\ Len(SubSeq(s, from + 1, from + n)) = n
         /\ \A k \in 1 .. n : SubSeq(s, from + 1, from + n)[k] = s[from + k]
OBVIOUS

\* The two additions of an end of a region stay in Nat.
LEMMA SumType == \A a, b, c \in Nat : a + b + c \in Nat
OBVIOUS

-----------------------------------------------------------------------------
(* The nesting of the columns *)

\* A recursive function over the columns exists because a column is numbered
\* after the one around it: each of the first n columns has a value.
RootsUpTo == {n \in Nat : n <= NumColumns =>
                \E f : f = [c \in 1 .. n |-> IF Parent[c] = 0 THEN c ELSE f[Parent[c]]]}

\* Root is the function its definition asks for.
LEMMA RootDef ==
  \A c \in Columns : Root[c] = IF Parent[c] = 0 THEN c ELSE Root[Parent[c]]
<1>1. 0 \in RootsUpTo
  <2>1. PICK f : f = [c \in {} |-> c]
    OBVIOUS
  <2>2. f = [c \in 1 .. 0 |-> IF Parent[c] = 0 THEN c ELSE f[Parent[c]]]
    BY <2>1
  <2>3. QED
    BY <2>2 DEF RootsUpTo
<1>2. ASSUME NEW n \in Nat, n \in RootsUpTo, n + 1 <= NumColumns
      PROVE  \E f : f = [c \in 1 .. n + 1 |-> IF Parent[c] = 0 THEN c ELSE f[Parent[c]]]
  <2>1. PICK f : f = [c \in 1 .. n |-> IF Parent[c] = 0 THEN c ELSE f[Parent[c]]]
    BY <1>2, SchemaAssumption DEF RootsUpTo
  <2>2. PICK g : g = [c \in 1 .. n + 1 |-> IF Parent[c] = 0 THEN c ELSE f[Parent[c]]]
    OBVIOUS
  <2>3. \A c \in 1 .. n : g[c] = f[c]
    BY <2>1, <2>2
  <2>4. \A c \in 1 .. n + 1 : Parent[c] # 0 => Parent[c] \in 1 .. n
    BY <1>2, SchemaAssumption DEF Columns
  <2>5. g = [c \in 1 .. n + 1 |-> IF Parent[c] = 0 THEN c ELSE g[Parent[c]]]
    BY <2>2, <2>3, <2>4
  <2>6. QED
    BY <2>5
<1>3. NumColumns \in RootsUpTo
  <2>1. \A n \in Nat : n \in RootsUpTo => n + 1 \in RootsUpTo
    BY <1>2 DEF RootsUpTo
  <2>2. QED
    BY <1>1, <2>1, Successors, SchemaAssumption
<1>4. PICK f : f = [c \in Columns |-> IF Parent[c] = 0 THEN c ELSE f[Parent[c]]]
  BY <1>3, SchemaAssumption DEF RootsUpTo, Columns
<1>5. Root = [c \in Columns |-> IF Parent[c] = 0 THEN c ELSE Root[Parent[c]]]
  BY <1>4, Zenon DEF Root
<1>6. QED
  BY <1>5

\* The column of the rowgroup around a column is not numbered after it.
LEMMA RootBelow == \A c \in Columns : Root[c] <= c
<1> DEFINE S == {n \in Nat : n \in Columns => Root[n] \in Columns /\ Root[n] <= n}
<1>1. ASSUME NEW n \in Nat, \A m \in Nat : m < n => m \in S, n \in Columns
      PROVE  Root[n] \in Columns /\ Root[n] <= n
  <2>1. CASE Parent[n] = 0
    BY <1>1, <2>1, RootDef
  <2>2. CASE Parent[n] # 0
    <3>1. Parent[n] \in Columns /\ Parent[n] \in Nat /\ Parent[n] < n
      BY <1>1, <2>2, SchemaAssumption DEF Columns
    <3>2. Root[Parent[n]] \in Columns /\ Root[Parent[n]] <= Parent[n]
      BY <1>1, <3>1
    <3>3. Root[n] = Root[Parent[n]]
      BY <1>1, <2>2, RootDef
    <3>4. QED
      BY <3>1, <3>2, <3>3, SchemaAssumption DEF Columns
  <2>3. QED
    BY <2>1, <2>2
<1>2. Nat \subseteq S
  <2>1. \A n \in Nat : (\A m \in Nat : m < n => m \in S) => n \in S
    BY <1>1
  <2> HIDE DEF S
  <2>2. QED
    BY <2>1, CourseOfValues
<1>3. QED
  BY <1>2, SchemaAssumption DEF Columns

\* One unfolding of Above, h in the place of Above.
AboveStep(h, c) == IF c = 0 THEN {} ELSE {c} \cup h[Parent[c]]

AbovesUpTo == {n \in Nat : n <= NumColumns => \E f : f = [c \in 0 .. n |-> AboveStep(f, c)]}

\* Above is the function its definition asks for.
LEMMA AboveDef ==
  Above[0] = {} /\ \A c \in Columns : Above[c] = {c} \cup Above[Parent[c]]
<1>1. 0 \in AbovesUpTo
  <2>1. PICK f : f = [c \in {0} |-> {}]
    OBVIOUS
  <2>2. AboveStep(f, 0) = {}
    BY DEF AboveStep
  <2>3. f = [c \in 0 .. 0 |-> AboveStep(f, c)]
    BY <2>1, <2>2
  <2>4. QED
    BY <2>3 DEF AbovesUpTo
<1>2. ASSUME NEW n \in Nat, n \in AbovesUpTo, n + 1 <= NumColumns
      PROVE  \E f : f = [c \in 0 .. n + 1 |-> AboveStep(f, c)]
  <2>1. PICK f : f = [c \in 0 .. n |-> AboveStep(f, c)]
    BY <1>2, SchemaAssumption DEF AbovesUpTo
  <2>2. PICK g : g = [c \in 0 .. n + 1 |-> AboveStep(f, c)]
    OBVIOUS
  <2>3. \A c \in 0 .. n : g[c] = f[c]
    BY <2>1, <2>2
  <2>4. ASSUME NEW c \in 0 .. n + 1 PROVE AboveStep(g, c) = AboveStep(f, c)
    <3>1. CASE c = 0
      BY <3>1 DEF AboveStep
    <3>2. CASE c # 0
      <4>1. Parent[c] \in 0 .. n
        BY <1>2, <3>2, SchemaAssumption DEF Columns
      <4>2. g[Parent[c]] = f[Parent[c]]
        BY <2>3, <4>1
      <4>3. QED
        BY <3>2, <4>2, Zenon DEF AboveStep
    <3>3. QED
      BY <3>1, <3>2
  <2>5. g = [c \in 0 .. n + 1 |-> AboveStep(g, c)]
    BY <2>2, <2>4
  <2>6. QED
    BY <2>5
<1>3. NumColumns \in AbovesUpTo
  <2>1. \A n \in Nat : n \in AbovesUpTo => n + 1 \in AbovesUpTo
    BY <1>2 DEF AbovesUpTo
  <2>2. QED
    BY <1>1, <2>1, Successors, SchemaAssumption
<1>4. PICK f : f = [c \in 0 .. NumColumns |-> AboveStep(f, c)]
  BY <1>3, SchemaAssumption DEF AbovesUpTo
<1>5. Above = [c \in 0 .. NumColumns |-> AboveStep(Above, c)]
  BY <1>4, Zenon DEF Above, AboveStep
<1>6. \A c \in 0 .. NumColumns : Above[c] = AboveStep(Above, c)
  BY <1>5
<1>7. 0 \in 0 .. NumColumns /\ \A c \in Columns : c \in 0 .. NumColumns /\ c # 0
  BY SchemaAssumption DEF Columns
<1>8. QED
  BY <1>6, <1>7, Zenon DEF AboveStep

\* The columns around a column are numbered up to it, and those around one of
\* them are around it.
LEMMA AboveFacts ==
  \A e \in 0 .. NumColumns :
    /\ Above[e] \subseteq 1 .. e
    /\ \A d \in Above[e] : Above[d] \subseteq Above[e]
<1> DEFINE S == {n \in Nat : n <= NumColumns =>
                   /\ Above[n] \subseteq 1 .. n
                   /\ \A d \in Above[n] : Above[d] \subseteq Above[n]}
<1>1. ASSUME NEW n \in Nat, \A m \in Nat : m < n => m \in S, n <= NumColumns
      PROVE  /\ Above[n] \subseteq 1 .. n
             /\ \A d \in Above[n] : Above[d] \subseteq Above[n]
  <2>1. CASE n = 0
    BY <2>1, AboveDef
  <2>2. CASE n # 0
    <3>1. n \in Columns /\ Parent[n] \in Nat /\ Parent[n] < n /\ Parent[n] <= NumColumns
      BY <1>1, <2>2, SchemaAssumption DEF Columns
    <3>2. /\ Above[Parent[n]] \subseteq 1 .. Parent[n]
          /\ \A d \in Above[Parent[n]] : Above[d] \subseteq Above[Parent[n]]
      BY <1>1, <3>1
    <3>3. Above[n] = {n} \cup Above[Parent[n]]
      BY <3>1, AboveDef
    <3>4. Above[n] \subseteq 1 .. n
      BY <2>2, <3>1, <3>2, <3>3
    <3>5. \A d \in Above[n] : Above[d] \subseteq Above[n]
      BY <3>2, <3>3
    <3>6. QED
      BY <3>4, <3>5
  <2>3. QED
    BY <2>1, <2>2
<1>2. Nat \subseteq S
  <2>1. \A n \in Nat : (\A m \in Nat : m < n => m \in S) => n \in S
    BY <1>1
  <2> HIDE DEF S
  <2>2. QED
    BY <2>1, CourseOfValues
<1>3. QED
  BY <1>2, SchemaAssumption

-----------------------------------------------------------------------------
(* The operators of the encoder *)

\* A segment id names a column and a segment by number.
LEMMA SegIdsType ==
  ASSUME NEW id \in SegIds
  PROVE  /\ id = <<id[1], id[2]>>
         /\ id[1] \in Columns /\ id[2] \in 1 .. Len(Segments[id[1]])
         /\ id[1] \in Nat /\ id[2] \in Nat
BY SchemaAssumption DEF SegIds, Columns

\* Each segment of each column has an id.
LEMMA SegIdsMember ==
  ASSUME NEW c \in Columns, NEW s \in 1 .. Len(Segments[c])
  PROVE  <<c, s>> \in SegIds
BY DEF SegIds

\* An entry point takes 1, 2 or 4 bytes (sizeof_entry_point_type).
LEMMA WidthType ==
  ASSUME NEW t \in EntryPointTypes
  PROVE  Width(t) \in {1, 2, 4}
BY DEF EntryPointTypes, Width

\* A narrowed entry point is a number.
LEMMA CastType ==
  ASSUME NEW t \in EntryPointTypes, NEW x \in Nat
  PROVE  Cast(t, x) \in Nat
BY SizeAssumption DEF EntryPointTypes, Cast

\* detect_smallest_entry_point_type answers with one of the three types.
LEMMA SmallestType ==
  ASSUME NEW e
  PROVE  SmallestEntryPointType(e) \in EntryPointTypes
BY DEF EntryPointTypes, SmallestEntryPointType

\* The end of the last entry is a number, 0 when there is none.
LEMMA LastEndType ==
  ASSUME NEW e \in Seq(Nat)
  PROVE  LastEnd(e) \in Nat
BY DEF LastEnd

\* The bytes handed to Segment::Flush are data cells.
LEMMA PayloadType ==
  ASSUME NEW r \in Nat, NEW id \in SegIds, NEW v \in Nat, NEW size \in Nat
  PROVE  /\ Payload(r, id, v, size) \in Seq(Cell)
         /\ Len(Payload(r, id, v, size)) = size
         /\ \A k \in 1 .. size : Payload(r, id, v, size)[k] = DataCell(r, id, v)
<1>1. DataCell(r, id, v) \in Cell
  BY SegIdsType DEF DataCell, Cell
<1>2. QED
  BY <1>1 DEF Payload

\* The cast entry points of a segment are cells.
LEMMA EntryBytesType ==
  ASSUME NEW t \in EntryPointTypes, NEW e \in Seq(Nat)
  PROVE  /\ EntryBytes(t, e) \in Seq(Cell)
         /\ Len(EntryBytes(t, e)) = Len(e) * Width(t)
         /\ \A k \in 1 .. Len(e) : \A j \in 1 .. Width(t) :
              /\ (k - 1) * Width(t) + j \in 1 .. Len(e) * Width(t)
              /\ EntryBytes(t, e)[(k - 1) * Width(t) + j] = EntryCell(Width(t), Cast(t, e[k]), j)
<1> DEFINE w == Width(t)
<1>1. w \in {1, 2, 4}
  BY WidthType
<1>2. ASSUME NEW k \in 1 .. Len(e) * w
      PROVE  /\ ((k - 1) \div w) + 1 \in 1 .. Len(e)
             /\ ((k - 1) % w) + 1 \in Nat
  <2>1. Len(e) \in Nat
    OBVIOUS
  <2>2. CASE w = 1
    BY <2>1, <2>2
  <2>3. CASE w = 2
    BY <2>1, <2>3
  <2>4. CASE w = 4
    BY <2>1, <2>4
  <2>5. QED
    BY <1>1, <2>2, <2>3, <2>4
<1>3. ASSUME NEW k \in 1 .. Len(e) * w
      PROVE  EntryCell(w, Cast(t, e[((k - 1) \div w) + 1]), ((k - 1) % w) + 1) \in Cell
  <2>1. e[((k - 1) \div w) + 1] \in Nat
    BY <1>2
  <2>2. Cast(t, e[((k - 1) \div w) + 1]) \in Nat
    BY <2>1, CastType
  <2>3. QED
    BY <1>1, <1>2, <2>2 DEF EntryCell, Cell
<1>4. Len(e) * w \in Nat
  BY <1>1
<1>5. /\ EntryBytes(t, e) \in Seq(Cell)
      /\ Len(EntryBytes(t, e)) = Len(e) * w
  BY <1>3, <1>4 DEF EntryBytes
<1>6. ASSUME NEW k \in 1 .. Len(e), NEW j \in 1 .. w, NEW p, p = (k - 1) * w + j
      PROVE  /\ p \in 1 .. Len(e) * w
             /\ ((p - 1) \div w) + 1 = k
             /\ ((p - 1) % w) + 1 = j
  <2>1. Len(e) \in Nat
    OBVIOUS
  <2>2. CASE w = 1
    BY <2>1, <2>2, <1>6
  <2>3. CASE w = 2
    BY <2>1, <2>3, <1>6
  <2>4. CASE w = 4
    BY <2>1, <2>4, <1>6
  <2>5. QED
    BY <1>1, <2>2, <2>3, <2>4
<1>7. ASSUME NEW p \in 1 .. Len(e) * w
      PROVE  EntryBytes(t, e)[p] = EntryCell(w, Cast(t, e[((p - 1) \div w) + 1]), ((p - 1) % w) + 1)
  BY DEF EntryBytes
<1>8. ASSUME NEW k \in 1 .. Len(e), NEW j \in 1 .. w, NEW p, p = (k - 1) * w + j
      PROVE  EntryBytes(t, e)[p] = EntryCell(w, Cast(t, e[k]), j)
  <2>1. p \in 1 .. Len(e) * w /\ ((p - 1) \div w) + 1 = k /\ ((p - 1) % w) + 1 = j
    BY <1>6, <1>8
  <2>2. EntryBytes(t, e)[p] = EntryCell(w, Cast(t, e[((p - 1) \div w) + 1]), ((p - 1) % w) + 1)
    BY <1>7, <2>1
  <2>3. QED
    BY <2>1, <2>2, Zenon
<1>9. QED
  BY <1>5, <1>6, <1>8

-----------------------------------------------------------------------------
(* Type correctness *)

\* Segment::Flush keeps the types of data and entry points.
LEMMA WriteType ==
  ASSUME NEW ids, ids \subseteq SegIds, NEW sz \in [ids -> Nat],
         eps \in [SegIds -> Seq(Nat)], data \in [SegIds -> Seq(Cell)],
         sizes \in [SegIds -> Seq(Nat)], rgds \in Seq(RowgroupDescriptor),
         Write(ids, sz)
  PROVE  /\ eps' \in [SegIds -> Seq(Nat)]
         /\ data' \in [SegIds -> Seq(Cell)]
         /\ sizes' \in [SegIds -> Seq(Nat)]
<1>1. rg \in Nat
  BY DEF rg
<1>2. ASSUME NEW id \in ids
      PROVE  /\ FlushEntryPoint(eps[id], sz[id]) \in Seq(Nat)
             /\ data[id] \o Payload(rg, id, Len(eps[id]) + 1, sz[id]) \in Seq(Cell)
             /\ Append(sizes[id], sz[id]) \in Seq(Nat)
  <2>1. id \in SegIds /\ sz[id] \in Nat
    OBVIOUS
  <2>2. eps[id] \in Seq(Nat) /\ LastEnd(eps[id]) \in Nat /\ Len(eps[id]) + 1 \in Nat
    BY <2>1, LastEndType
  <2>3. Payload(rg, id, Len(eps[id]) + 1, sz[id]) \in Seq(Cell)
    BY <1>1, <2>1, <2>2, PayloadType
  <2>4. QED
    BY <2>1, <2>2, <2>3 DEF FlushEntryPoint
<1>3. QED
  BY <1>2 DEF Write

\* New segments are empty.
LEMMA BlankType ==
  Blank \in [SegIds -> Seq(Nat)] /\ Blank \in [SegIds -> Seq(Cell)]
BY DEF Blank

\* Setting the offset of a descriptor keeps the type of the descriptors.
LEMMA OffsetUpdateType ==
  ASSUME NEW f \in [Columns -> ColumnDescriptor], NEW c \in Columns, NEW x \in Nat
  PROVE  [f EXCEPT ![c].column_offset = x] \in [Columns -> ColumnDescriptor]
<1>1. [f[c] EXCEPT !.column_offset = x] \in ColumnDescriptor
  BY DEF ColumnDescriptor
<1>2. QED
  BY <1>1

\* Setting the size of a descriptor keeps the type of the descriptors.
LEMMA SizeUpdateType ==
  ASSUME NEW f \in [Columns -> ColumnDescriptor], NEW c \in Columns, NEW x \in Int
  PROVE  [f EXCEPT ![c].total_size = x] \in [Columns -> ColumnDescriptor]
<1>1. [f[c] EXCEPT !.total_size = x] \in ColumnDescriptor
  BY DEF ColumnDescriptor
<1>2. QED
  BY <1>1

\* Every step of the encoder keeps the types: the induction of TypeCorrect.
LEMMA TypeInductive == (Init => TypeOK) /\ (TypeOK /\ [Next]_vars => TypeOK')
<1>1. Init => TypeOK
  <2> SUFFICES ASSUME Init PROVE TypeOK
    OBVIOUS
  <2>1. HeaderCell \in Cell
    BY DEF HeaderCell, Cell
  <2>2. file \in Seq(Cell)
    BY <2>1, SizeAssumption DEF Init
  <2>3. eps \in [SegIds -> Seq(Nat)] /\ data \in [SegIds -> Seq(Cell)] /\ sizes \in [SegIds -> Seq(Nat)]
    BY BlankType DEF Init
  <2>4. cds \in [Columns -> ColumnDescriptor] /\ sds \in [Columns -> Seq(SegmentDescriptor)]
    BY DEF Init, NoDescriptor, ColumnDescriptor
  <2>5. QED
    BY <2>2, <2>3, <2>4, SchemaAssumption, SizeAssumption DEF Init, TypeOK
<1>2. TypeOK /\ [Next]_vars => TypeOK'
  <2> SUFFICES ASSUME TypeOK, [Next]_vars PROVE TypeOK'
    OBVIOUS
  <2> USE SchemaAssumption, SizeAssumption
  <2>0. /\ eps \in [SegIds -> Seq(Nat)] /\ data \in [SegIds -> Seq(Cell)]
        /\ sizes \in [SegIds -> Seq(Nat)] /\ rgds \in Seq(RowgroupDescriptor)
    BY DEF TypeOK
  <2>1. CASE ExecuteVector
    <3>1. PICK sz \in [VectorSegments(next) -> Sizes["vector"]] : Write(VectorSegments(next), sz)
      BY <2>1 DEF ExecuteVector
    <3>2. sz \in [VectorSegments(next) -> Nat] /\ VectorSegments(next) \subseteq SegIds
      BY DEF SegKinds, VectorSegments
    <3>3. /\ eps' \in [SegIds -> Seq(Nat)] /\ data' \in [SegIds -> Seq(Cell)]
          /\ sizes' \in [SegIds -> Seq(Nat)]
      BY <2>0, <3>1, <3>2, WriteType
    <3>4. QED
      BY <2>1, <3>3 DEF ExecuteVector, VectorsLeft, TypeOK, flushVars, tableVars
  <2>2. CASE OpenColumn
    <3>1. PICK sz \in [BlockSegments(next) -> Sizes["block"]] : Write(BlockSegments(next), sz)
      BY <2>2 DEF OpenColumn
    <3>2. sz \in [BlockSegments(next) -> Nat] /\ BlockSegments(next) \subseteq SegIds
      BY DEF SegKinds, BlockSegments
    <3>3. /\ eps' \in [SegIds -> Seq(Nat)] /\ data' \in [SegIds -> Seq(Cell)]
          /\ sizes' \in [SegIds -> Seq(Nat)]
      BY <2>0, <3>1, <3>2, WriteType
    <3>a. /\ next \in Columns /\ at' = next /\ next' = next + 1 /\ current_offset' = Len(buf)
          /\ cds' = [cds EXCEPT ![next].column_offset = Len(buf)]
      BY <2>2 DEF OpenColumn
    <3>b. Len(buf) \in Nat /\ cds \in [Columns -> ColumnDescriptor]
      BY DEF TypeOK
    <3>4. cds' \in [Columns -> ColumnDescriptor]
      BY <3>a, <3>b, OffsetUpdateType
    <3>5. /\ current_offset' \in Nat
          /\ next' \in 1 .. NumColumns + 1
          /\ at' \in 0 .. NumColumns /\ at' < next'
      BY <3>a, <3>b DEF Columns
    <3>6. QED
      BY <2>2, <3>3, <3>4, <3>5 DEF OpenColumn, TypeOK, tableVars
  <2>3. CASE DumpSegment
    <3>1. at \in Columns /\ sds[at] \in Seq(SegmentDescriptor)
      BY <2>3 DEF DumpSegment, TypeOK, Columns
    <3>2. PICK id, t, esize :
            /\ id = <<at, Len(sds[at]) + 1>>
            /\ t = SmallestEntryPointType(eps[id])
            /\ esize = Len(eps[id]) * Width(t)
      OBVIOUS
    <3>3. /\ buf' = buf \o (EntryBytes(t, eps[id]) \o data[id])
          /\ current_offset' = current_offset + esize + Len(data[id])
          /\ sds' = [sds EXCEPT ![at] = Append(@,
                       [entry_point_t |-> t, entrypoint_offset |-> current_offset,
                        entrypoint_size |-> esize, data_offset |-> current_offset + esize,
                        data_size |-> Len(data[id])])]
          /\ UNCHANGED <<next, at, cds, segmentVars, tableVars, n_vec, vec_idx>>
      <4>1. Described(current_offset, eps[id], data[id]) =
              [entry_point_t |-> t, entrypoint_offset |-> current_offset,
               entrypoint_size |-> esize, data_offset |-> current_offset + esize,
               data_size |-> Len(data[id])]
        BY <3>2, Zenon DEF Described
      <4>2. PICK sd : sd = Described(current_offset, eps[id], data[id])
        OBVIOUS
      <4>3. /\ buf' = buf \o Dumped(eps[id], data[id])
            /\ current_offset' = current_offset + sd.entrypoint_size + sd.data_size
            /\ sds' = [sds EXCEPT ![at] = Append(@, sd)]
            /\ UNCHANGED <<next, at, cds, segmentVars, tableVars, n_vec, vec_idx>>
        BY <2>3, <3>2, <4>2, Zenon DEF DumpSegment
      <4>4. sd.entrypoint_size = esize /\ sd.data_size = Len(data[id])
        BY <4>1, <4>2
      <4>5. Dumped(eps[id], data[id]) = EntryBytes(t, eps[id]) \o data[id]
        BY <3>2, Zenon DEF Dumped
      <4>6. QED
        BY <4>1, <4>2, <4>3, <4>4, <4>5, Zenon
    <3>4. Len(sds[at]) + 1 \in 1 .. Len(Segments[at])
      BY <3>1, <2>3 DEF DumpSegment
    <3>5. id \in SegIds
      BY <3>1, <3>2, <3>4, SegIdsMember
    <3>6. eps[id] \in Seq(Nat) /\ data[id] \in Seq(Cell) /\ t \in EntryPointTypes
      BY <2>0, <3>2, <3>5, SmallestType
    <3>7. esize \in Nat /\ Len(data[id]) \in Nat
      BY <3>2, <3>6, WidthType
    <3>8. [entry_point_t |-> t, entrypoint_offset |-> current_offset,
           entrypoint_size |-> esize, data_offset |-> current_offset + esize,
           data_size |-> Len(data[id])] \in SegmentDescriptor
      BY <3>6, <3>7 DEF SegmentDescriptor, TypeOK
    <3>9. sds' \in [Columns -> Seq(SegmentDescriptor)]
      BY <3>1, <3>3, <3>8 DEF TypeOK
    <3>10. EntryBytes(t, eps[id]) \o data[id] \in Seq(Cell)
      BY <3>6, EntryBytesType
    <3>11. buf' \in Seq(Cell)
      BY <3>3, <3>10 DEF TypeOK
    <3>12. current_offset' \in Nat
      <4>1. current_offset \in Nat
        BY DEF TypeOK
      <4>2. QED
        BY <4>1, <3>3, <3>7, SumType, Zenon
    <3>13. QED
      BY <3>3, <3>9, <3>11, <3>12 DEF TypeOK, segmentVars, tableVars
  <2>4. CASE CloseColumn
    <3>1. at \in Columns
      BY <2>4, SMTT(30) DEF CloseColumn, ReturnsTo, TypeOK, Columns
    <3>2. cds' \in [Columns -> ColumnDescriptor]
      <4>1. /\ cds \in [Columns -> ColumnDescriptor]
            /\ cds' = [cds EXCEPT ![at].total_size = Len(buf) - cds[at].column_offset]
            /\ Len(buf) \in Nat
        <5>1. Len(buf) \in Nat /\ cds \in [Columns -> ColumnDescriptor]
          BY DEF TypeOK
        <5>2. QED
          BY <2>4, <5>1, Zenon DEF CloseColumn, ReturnsTo, TotalSize
      <4>2. Len(buf) - cds[at].column_offset \in Int
        BY <3>1, <4>1 DEF ColumnDescriptor
      <4>3. QED
        BY <3>1, <4>1, <4>2, SizeUpdateType
    <3>3. at' \in 0 .. NumColumns /\ at' < next /\ vec_idx' \in 0 .. Capacity
      <4>1. /\ at' = Parent[at] /\ at < next /\ vec_idx \in 0 .. Capacity
            /\ vec_idx' = (IF Parent[at] = 0 THEN 0 ELSE vec_idx)
            /\ at \in 1 .. NumColumns /\ next \in 1 .. NumColumns + 1
        BY <3>1, <2>4 DEF CloseColumn, ReturnsTo, TypeOK, Columns
      <4>2. Parent[at] \in 0 .. NumColumns /\ Parent[at] < at
        BY <3>1
      <4>3. QED
        BY <4>1, <4>2
    <3>4. QED
      BY <2>4, <3>2, <3>3 DEF CloseColumn, ReturnsTo, TypeOK, segmentVars, tableVars
  <2>5. CASE AppendRowgroup
    <3>1. /\ file' \in Seq(Cell)
          /\ cur_rowgroup_offset' \in Nat
          /\ table_binary_size' \in Nat
          /\ status' \in {"encoding", "encoded"}
          /\ n_vec' \in 1 .. Capacity
          /\ next' \in 1 .. NumColumns + 1 /\ at' < next'
          /\ buf' \in Seq(Cell)
          /\ written' \in Seq([SegIds -> Seq(Nat)])
      BY <2>5, SMTT(30) DEF AppendRowgroup, OffsetAfter, TypeOK
    <3>2. rgds' \in Seq(RowgroupDescriptor)
      <4>1. [m_n_vec  |-> n_vec, m_size |-> Len(buf), m_offset |-> cur_rowgroup_offset,
             cds |-> cds, sds |-> sds] \in RowgroupDescriptor
        BY DEF TypeOK, RowgroupDescriptor
      <4>2. QED
        BY <4>1, <2>5 DEF AppendRowgroup, TypeOK
    <3>3. /\ eps' \in [SegIds -> Seq(Nat)] /\ data' \in [SegIds -> Seq(Cell)]
          /\ sizes' \in [SegIds -> Seq(Nat)]
      BY <2>5, BlankType DEF AppendRowgroup
    <3>4. cds' \in [Columns -> ColumnDescriptor] /\ sds' \in [Columns -> Seq(SegmentDescriptor)]
      BY <2>5 DEF AppendRowgroup, NoDescriptor, ColumnDescriptor
    <3>5. QED
      BY <2>5, <3>1, <3>2, <3>3, <3>4 DEF AppendRowgroup, TypeOK
  <2>6. CASE UNCHANGED vars
    BY <2>6 DEF vars, segmentVars, flushVars, tableVars, TypeOK
  <2>7. QED
    BY <2>1, <2>2, <2>3, <2>4, <2>5, <2>6 DEF Next, Terminated
<1>3. QED
  BY <1>1, <1>2

\* Every variable of the encoder has its type in every reachable state, whatever
\* the schema, the number of vectors and the sizes of the writes.
THEOREM TypeCorrect == Spec => []TypeOK
BY TypeInductive, PTL DEF Spec

-----------------------------------------------------------------------------
(* A segment while it is written *)

Start(e, k) == IF k = 1 THEN 0 ELSE e[k - 1]

\* The entry points e and the bytes d of segment id of rowgroup i are those of
\* vectors of the sizes z.
Filled(i, id, e, z, d) ==
  /\ e \in Seq(Nat) /\ z \in Seq(Nat) /\ d \in Seq(Cell)
  /\ Len(z) = Len(e)
  /\ Len(d) = LastEnd(e)
  /\ \A k \in 1 .. Len(e) : e[k] = Start(e, k) + z[k] /\ e[k] <= LastEnd(e)
  /\ \A k \in 1 .. Len(e) : \A j \in 1 .. z[k] : d[Start(e, k) + j] = DataCell(i, id, k)

\* A segment nothing was written to is filled with no vector.
LEMMA FilledBlank ==
  ASSUME NEW i \in Nat, NEW id \in SegIds
  PROVE  Filled(i, id, <<>>, <<>>, <<>>)
BY DEF Filled, LastEnd

\* One more write adds its vector behind the ones a segment is filled with.
LEMMA FilledWrite ==
  ASSUME NEW i \in Nat, NEW id \in SegIds, NEW e, NEW z, NEW d, NEW size \in Nat,
         Filled(i, id, e, z, d)
  PROVE  Filled(i, id, FlushEntryPoint(e, size), Append(z, size),
                d \o Payload(i, id, Len(e) + 1, size))
<1> DEFINE n  == Len(e) + 1
           e2 == FlushEntryPoint(e, size)
           z2 == Append(z, size)
           p  == Payload(i, id, n, size)
           d2 == d \o p
<1>1. /\ e \in Seq(Nat) /\ z \in Seq(Nat) /\ d \in Seq(Cell) /\ Len(z) = Len(e)
      /\ Len(d) = LastEnd(e) /\ LastEnd(e) \in Nat /\ n \in Nat
  BY LastEndType DEF Filled
<1>2. /\ p \in Seq(Cell) /\ Len(p) = size
      /\ \A k \in 1 .. size : p[k] = DataCell(i, id, n)
  BY <1>1, PayloadType, ZenonT(30)
<1>3. /\ e2 \in Seq(Nat) /\ Len(e2) = n /\ e2[n] = LastEnd(e) + size
      /\ \A k \in 1 .. Len(e) : e2[k] = e[k]
      /\ LastEnd(e2) = LastEnd(e) + size
  <2>1. e2 = Append(e, LastEnd(e) + size) /\ LastEnd(e) + size \in Nat
    BY <1>1 DEF FlushEntryPoint
  <2>2. /\ e2 \in Seq(Nat) /\ Len(e2) = n /\ e2[n] = LastEnd(e) + size
        /\ \A k \in 1 .. Len(e) : e2[k] = e[k]
    BY <1>1, <2>1, AppendFacts
  <2>3. LastEnd(e2) = e2[n]
    BY <1>1, <2>2 DEF LastEnd
  <2>4. QED
    BY <2>2, <2>3
<1>4. /\ z2 \in Seq(Nat) /\ Len(z2) = n /\ z2[n] = size
      /\ \A k \in 1 .. Len(e) : z2[k] = z[k]
  BY <1>1
<1>5. /\ d2 \in Seq(Cell) /\ Len(d2) = LastEnd(e) + size
      /\ \A q \in 1 .. Len(d) : d2[q] = d[q]
      /\ \A q \in 1 .. size : d2[Len(d) + q] = p[q]
  <2> HIDE DEF p
  <2>1. /\ d2 \in Seq(Cell) /\ Len(d2) = Len(d) + Len(p)
        /\ \A q \in 1 .. Len(d) : d2[q] = d[q]
        /\ \A q \in 1 .. Len(p) : d2[Len(d) + q] = p[q]
    BY <1>1, <1>2, CellConcat, Zenon
  <2> HIDE DEF d2
  <2>2. QED
    BY <1>1, <1>2, <2>1
<1> HIDE DEF n, e2, z2, p, d2
<1>n. n = Len(e) + 1
  BY DEF n
<1>6. Start(e2, n) = LastEnd(e) /\ \A k \in 1 .. Len(e) : Start(e2, k) = Start(e, k)
  <2>1. CASE e = <<>>
    BY <1>1, <1>3, <1>n, <2>1 DEF Start, LastEnd
  <2>2. CASE e # <<>>
    <3>1. Len(e) \in Nat \ {0}
      BY <1>1, <2>2
    <3>2. n # 1 /\ n - 1 = Len(e) /\ n - 1 \in 1 .. Len(e)
      BY <1>n, <3>1
    <3>3. Start(e2, n) = e2[n - 1] /\ LastEnd(e) = e[n - 1]
      BY <2>2, <3>2 DEF Start, LastEnd
    <3>4. Start(e2, n) = LastEnd(e)
      BY <1>3, <3>2, <3>3
    <3>5. ASSUME NEW k \in 1 .. Len(e) PROVE Start(e2, k) = Start(e, k)
      BY <1>3, <3>1 DEF Start
    <3>6. QED
      BY <3>4, <3>5
  <2>3. QED
    BY <2>1, <2>2
<1>7. ASSUME NEW k \in 1 .. n
      PROVE  /\ e2[k] = Start(e2, k) + z2[k] /\ e2[k] <= LastEnd(e2)
             /\ \A j \in 1 .. z2[k] : d2[Start(e2, k) + j] = DataCell(i, id, k)
  <2>1. CASE k = n
    <3>1. e2[k] = Start(e2, k) + z2[k] /\ e2[k] <= LastEnd(e2)
      BY <1>1, <1>3, <1>4, <1>6, <2>1
    <3>2. \A j \in 1 .. z2[k] : d2[Start(e2, k) + j] = DataCell(i, id, k)
      BY <1>1, <1>2, <1>4, <1>5, <1>6, <2>1
    <3>3. QED
      BY <3>1, <3>2
  <2>2. CASE k \in 1 .. Len(e)
    <3>1. /\ e[k] = Start(e, k) + z[k] /\ e[k] <= LastEnd(e)
          /\ \A j \in 1 .. z[k] : d[Start(e, k) + j] = DataCell(i, id, k)
      BY <2>2 DEF Filled
    <3>2. e[k] \in Nat /\ z[k] \in Nat /\ Start(e, k) \in Nat
      BY <1>1, <2>2, SMTT(30) DEF Start
    <3>3. e2[k] = Start(e2, k) + z2[k] /\ e2[k] <= LastEnd(e2)
      <4>1. e2[k] = e[k] /\ z2[k] = z[k] /\ Start(e2, k) = Start(e, k) /\ LastEnd(e2) = LastEnd(e) + size
        BY <1>3, <1>4, <1>6, <2>2
      <4>2. e[k] <= LastEnd(e) + size
        BY <1>1, <3>1, <3>2
      <4>3. QED
        BY <3>1, <4>1, <4>2
    <3>4. ASSUME NEW j \in 1 .. z[k] PROVE d2[Start(e, k) + j] = DataCell(i, id, k)
      <4>1. Start(e, k) + j \in 1 .. Len(d)
        BY <1>1, <3>1, <3>2, SMTT(30)
      <4>2. QED
        BY <1>5, <3>1, <4>1
    <3>5. QED
      BY <1>4, <1>6, <2>2, <3>3, <3>4
  <2>3. QED
    BY <1>1, <1>n, <2>1, <2>2
<1>8. QED
  BY <1>1, <1>3, <1>4, <1>5, <1>7 DEF Filled, n, e2, z2, d2, p

-----------------------------------------------------------------------------
(* A segment once it is dumped *)

\* The descriptor sd places the entry points e, in the smallest type that holds
\* the last of them, and the bytes d in the buffer b.
Placed(b, sd, e, d) ==
  LET t == SmallestEntryPointType(e)
  IN  /\ b \in Seq(Cell) /\ sd \in SegmentDescriptor
      /\ sd.entry_point_t = t
      /\ sd.entrypoint_size = Len(e) * Width(t)
      /\ sd.data_size = Len(d)
      /\ sd.data_offset = sd.entrypoint_offset + sd.entrypoint_size
      /\ sd.data_offset + sd.data_size <= Len(b)
      /\ \A k \in 1 .. sd.entrypoint_size : b[sd.entrypoint_offset + k] = EntryBytes(t, e)[k]
      /\ \A k \in 1 .. sd.data_size : b[sd.data_offset + k] = d[k]

\* What Dump placed in the buffer stays placed when the buffer grows.
LEMMA PlacedGrow ==
  ASSUME NEW b, NEW sd, NEW e, NEW d, NEW x \in Seq(Cell), Placed(b, sd, e, d)
  PROVE  Placed(b \o x, sd, e, d)
<1>1. /\ sd.entrypoint_offset \in Nat /\ sd.entrypoint_size \in Nat
      /\ sd.data_offset \in Nat /\ sd.data_size \in Nat
      /\ sd.data_offset = sd.entrypoint_offset + sd.entrypoint_size
      /\ sd.data_offset + sd.data_size <= Len(b)
      /\ b \in Seq(Cell)
  BY DEF Placed, SegmentDescriptor
<1>2. /\ b \o x \in Seq(Cell) /\ Len(b \o x) = Len(b) + Len(x)
      /\ \A k \in 1 .. Len(b) : (b \o x)[k] = b[k]
  BY <1>1, ConcatFacts
<1>3. /\ \A k \in 1 .. sd.entrypoint_size : sd.entrypoint_offset + k \in 1 .. Len(b)
      /\ \A k \in 1 .. sd.data_size : sd.data_offset + k \in 1 .. Len(b)
  <2>1. Len(b) \in Nat /\ sd.entrypoint_offset + sd.entrypoint_size <= Len(b)
    BY <1>1
  <2>2. QED
    BY <1>1, <2>1, IndexInside, Zenon
<1>4. sd.data_offset + sd.data_size <= Len(b \o x)
  BY <1>1, <1>2
<1>5. QED
  BY <1>2, <1>3, <1>4 DEF Placed

\* Segment::Dump places entry points and data where its descriptor says.
LEMMA PlacedDump ==
  ASSUME NEW b \in Seq(Cell), NEW e \in Seq(Nat), NEW d \in Seq(Cell),
         NEW t, t = SmallestEntryPointType(e),
         NEW esize, esize = Len(e) * Width(t),
         NEW sd, sd = [entry_point_t |-> t, entrypoint_offset |-> Len(b), entrypoint_size |-> esize,
                       data_offset |-> Len(b) + esize, data_size |-> Len(d)]
  PROVE  /\ Placed(b \o (EntryBytes(t, e) \o d), sd, e, d)
         /\ Len(b \o (EntryBytes(t, e) \o d)) = Len(b) + esize + Len(d)
<1>1. /\ t \in EntryPointTypes /\ EntryBytes(t, e) \in Seq(Cell)
      /\ Len(EntryBytes(t, e)) = esize /\ esize \in Nat
  <2>1. t \in EntryPointTypes
    BY SmallestType
  <2>2. EntryBytes(t, e) \in Seq(Cell) /\ Len(EntryBytes(t, e)) = esize
    BY <2>1, EntryBytesType
  <2>3. QED
    BY <2>1, <2>2
<1>2. PICK eb : eb = EntryBytes(t, e)
  OBVIOUS
<1>3. PICK new : new = eb \o d
  OBVIOUS
<1>4. PICK b2 : b2 = b \o new
  OBVIOUS
<1>5. /\ new \in Seq(Cell) /\ Len(new) = esize + Len(d)
      /\ \A k \in 1 .. esize : new[k] = eb[k]
      /\ \A k \in 1 .. Len(d) : new[esize + k] = d[k]
  <2>1. eb \in Seq(Cell) /\ Len(eb) = esize
    BY <1>1, <1>2
  <2>2. /\ new \in Seq(Cell) /\ Len(new) = Len(eb) + Len(d)
        /\ \A k \in 1 .. Len(eb) : new[k] = eb[k]
        /\ \A k \in 1 .. Len(d) : new[Len(eb) + k] = d[k]
    BY <2>1, <1>3, CellConcat, Zenon
  <2>3. QED
    BY <2>1, <2>2
<1>6. /\ b2 \in Seq(Cell) /\ Len(b2) = Len(b) + Len(new)
      /\ \A k \in 1 .. Len(new) : b2[Len(b) + k] = new[k]
  BY <1>4, <1>5, CellConcat, Zenon
<1>7. Len(b) \in Nat /\ Len(d) \in Nat
  OBVIOUS
<1>8. ASSUME NEW k \in 1 .. esize PROVE b2[Len(b) + k] = eb[k]
  <2>1. k \in 1 .. Len(new)
    BY <1>1, <1>5, <1>7
  <2>2. QED
    BY <1>5, <1>6, <2>1
<1>9. ASSUME NEW k \in 1 .. Len(d) PROVE b2[(Len(b) + esize) + k] = d[k]
  <2>1. esize + k \in 1 .. Len(new) /\ Len(b) + (esize + k) = (Len(b) + esize) + k
    BY <1>1, <1>5, <1>7, SMTT(30)
  <2>2. QED
    BY <1>5, <1>6, <2>1
<1>10. Len(b2) = Len(b) + esize + Len(d)
  BY <1>1, <1>5, <1>6, <1>7
<1>11. sd \in SegmentDescriptor
  BY <1>1, <1>7 DEF SegmentDescriptor
<1>12. Placed(b2, sd, e, d)
  BY <1>1, <1>2, <1>6, <1>7, <1>8, <1>9, <1>10, <1>11 DEF Placed
<1>13. QED
  BY <1>2, <1>3, <1>4, <1>10, <1>12

-----------------------------------------------------------------------------
(* A segment read back *)

\* A slice of a sequence of cells has the cells of its range.
LEMMA CellSubSeq ==
  \A s \in Seq(Cell) : \A from, n \in Nat : from + n <= Len(s) =>
    /\ SubSeq(s, from + 1, from + n) \in Seq(Cell)
    /\ Len(SubSeq(s, from + 1, from + n)) = n
    /\ \A k \in 1 .. n : SubSeq(s, from + 1, from + n)[k] = s[from + k]
BY SubSeqFacts

\* Narrowing to the type detected from the last entry point loses nothing.
LEMMA CastExact ==
  ASSUME NEW i, NEW id, NEW e, NEW z, NEW d, Filled(i, id, e, z, d),
         NEW k \in 1 .. Len(e)
  PROVE  Cast(SmallestEntryPointType(e), e[k]) = e[k]
<1>1. e[k] \in Nat /\ LastEnd(e) \in Nat /\ e[k] <= LastEnd(e)
  BY LastEndType DEF Filled
<1>2. U8Max \in Nat /\ U16Max \in Nat
  BY SizeAssumption
<1>3. \A m \in Nat : e[k] <= m => e[k] % (m + 1) = e[k]
  BY <1>1
<1>4. QED
  BY <1>1, <1>2, <1>3 DEF Cast, SmallestEntryPointType

\* The views of a placed segment read the bytes of every vector written to it.
LEMMA ReadPlaced ==
  ASSUME NEW i \in Nat, NEW id \in SegIds, NEW e, NEW z, NEW d, NEW b, NEW sd,
         Filled(i, id, e, z, d), Placed(b, sd, e, d)
  PROVE  ReadSegment(SegmentView(b, sd)) = [v \in 1 .. Len(z) |-> Payload(i, id, v, z[v])]
<1>1. PICK t, w, n : t = SmallestEntryPointType(e) /\ w = Width(t) /\ n = Len(e)
  OBVIOUS
<1>2. /\ e \in Seq(Nat) /\ z \in Seq(Nat) /\ d \in Seq(Cell)
      /\ n \in Nat /\ Len(z) = n
      /\ t \in EntryPointTypes /\ w \in {1, 2, 4}
  BY <1>1, SmallestType, WidthType DEF Filled
<1>3. /\ b \in Seq(Cell)
      /\ sd.entry_point_t = t
      /\ sd.entrypoint_offset \in Nat /\ sd.entrypoint_size \in Nat
      /\ sd.data_offset \in Nat /\ sd.data_size \in Nat
      /\ sd.entrypoint_size = n * w
      /\ sd.data_size = Len(d)
      /\ sd.data_offset = sd.entrypoint_offset + sd.entrypoint_size
      /\ sd.data_offset + sd.data_size <= Len(b)
      /\ \A k \in 1 .. sd.entrypoint_size : b[sd.entrypoint_offset + k] = EntryBytes(t, e)[k]
      /\ \A k \in 1 .. sd.data_size : b[sd.data_offset + k] = d[k]
  BY <1>1 DEF Placed, SegmentDescriptor
<1>4. PICK view : view = SegmentView(b, sd)
  OBVIOUS
<1>5. PICK es, ds : /\ es = SubSeq(b, sd.entrypoint_offset + 1, sd.entrypoint_offset + sd.entrypoint_size)
                    /\ ds = SubSeq(b, sd.data_offset + 1, sd.data_offset + sd.data_size)
  OBVIOUS
<1>6. view.entry_point_t = t /\ view.entry_span = es /\ view.data_span = ds
  BY <1>3, <1>4, <1>5 DEF SegmentView
<1>7. /\ Len(es) = n * w
      /\ \A k \in 1 .. n * w : es[k] = EntryBytes(t, e)[k]
  <2>1. sd.entrypoint_offset + sd.entrypoint_size <= Len(b)
    BY <1>3
  <2>2. /\ Len(es) = sd.entrypoint_size
        /\ \A k \in 1 .. sd.entrypoint_size : es[k] = b[sd.entrypoint_offset + k]
    BY <1>3, <1>5, <2>1, CellSubSeq, ZenonT(30)
  <2>3. QED
    BY <1>3, <2>2
<1>8. /\ ds \in Seq(Cell) /\ Len(ds) = Len(d)
      /\ \A k \in 1 .. Len(d) : ds[k] = d[k]
  <2>1. /\ ds \in Seq(Cell) /\ Len(ds) = sd.data_size
        /\ \A k \in 1 .. sd.data_size : ds[k] = b[sd.data_offset + k]
    BY <1>3, <1>5, CellSubSeq, ZenonT(30)
  <2>2. QED
    BY <1>3, <2>1
<1>9. NumEntries(view) = n
  <2>1. (n * w) \div w = n
    <3>1. CASE w = 1
      BY <1>2, <3>1
    <3>2. CASE w = 2
      BY <1>2, <3>2
    <3>3. CASE w = 4
      BY <1>2, <3>3
    <3>4. QED
      BY <1>2, <3>1, <3>2, <3>3
  <2>2. QED
    BY <1>1, <1>6, <1>7, <2>1, Zenon DEF NumEntries
<1>10. ASSUME NEW k \in 1 .. n PROVE EntryPoint(view, k) = e[k]
  <2>1. PICK first : first = (k - 1) * w + 1
    OBVIOUS
  <2>2. ASSUME NEW j \in 1 .. w PROVE es[first + j - 1] = EntryCell(w, e[k], j)
    <3>1. PICK p : p = (k - 1) * w + j
      OBVIOUS
    <3>2. first + j - 1 = p
      BY <1>2, <2>1, <3>1
    <3>3. p \in 1 .. n * w /\ EntryBytes(t, e)[p] = EntryCell(w, Cast(t, e[k]), j)
      BY <1>1, <1>2, <3>1, EntryBytesType, Zenon
    <3>4. Cast(t, e[k]) = e[k]
      BY <1>1, CastExact
    <3>5. QED
      BY <1>7, <3>2, <3>3, <3>4
  <2>3. 1 \in 1 .. w /\ first + 1 - 1 = first
    BY <1>2, <2>1
  <2>4. es[first] = EntryCell(w, e[k], 1)
    BY <2>2, <2>3
  <2>5. es[first][3] = e[k]
    BY <2>4 DEF EntryCell
  <2>6. EntryPoint(view, k) =
          LET x == es[first][3]
          IN  IF \A j \in 1 .. w : es[first + j - 1] = EntryCell(w, x, j) THEN x ELSE -1
    BY <1>1, <1>6, <2>1, Zenon DEF EntryPoint
  <2>7. QED
    BY <2>2, <2>5, <2>6
<1>11. ASSUME NEW v \in 1 .. n
       PROVE  VectorBytes(view, v - 1) = Payload(i, id, v, z[v])
  <2>1. /\ Start(e, v) \in Nat /\ z[v] \in Nat /\ e[v] = Start(e, v) + z[v]
        /\ e[v] <= Len(ds)
        /\ \A j \in 1 .. z[v] : d[Start(e, v) + j] = DataCell(i, id, v)
    <3>1. Start(e, v) \in Nat /\ z[v] \in Nat
      BY <1>1, <1>2 DEF Start
    <3>2. /\ e[v] = Start(e, v) + z[v] /\ e[v] <= Len(d)
          /\ \A j \in 1 .. z[v] : d[Start(e, v) + j] = DataCell(i, id, v)
      BY <1>1 DEF Filled
    <3>3. QED
      BY <1>8, <3>1, <3>2
  <2>2. Offset(view, v - 1) = Start(e, v)
    <3>1. CASE v = 1
      BY <3>1 DEF Offset, Start
    <3>2. CASE v # 1
      <4>1. v - 1 \in 1 .. n /\ v - 1 # 0
        BY <1>2, <3>2
      <4>2. QED
        BY <1>10, <3>2, <4>1 DEF Offset, Start
    <3>3. QED
      BY <3>1, <3>2
  <2>3. Offset(view, (v - 1) + 1) = e[v]
    <3>1. (v - 1) + 1 = v /\ v # 0
      OBVIOUS
    <3>2. QED
      BY <1>10, <3>1 DEF Offset
  <2>4. VectorBytes(view, v - 1) = SubSeq(ds, Start(e, v) + 1, Start(e, v) + z[v])
    BY <1>6, <2>1, <2>2, <2>3 DEF VectorBytes
  <2>5. PICK got : got = VectorBytes(view, v - 1)
    OBVIOUS
  <2>6. Start(e, v) + z[v] <= Len(ds)
    BY <2>1
  <2>7. /\ got \in Seq(Cell) /\ Len(got) = z[v]
        /\ \A j \in 1 .. z[v] : got[j] = ds[Start(e, v) + j]
    <3>1. ds \in Seq(Cell) /\ Start(e, v) \in Nat /\ z[v] \in Nat
      BY <1>8, <2>1
    <3>2. got = SubSeq(ds, Start(e, v) + 1, Start(e, v) + z[v])
      BY <2>4, <2>5
    <3>3. QED
      BY <2>6, <3>1, <3>2, CellSubSeq, Zenon
  <2>8. ASSUME NEW j \in 1 .. z[v] PROVE got[j] = DataCell(i, id, v)
    <3>1. Start(e, v) + j \in 1 .. Len(d)
      BY <1>8, <2>1
    <3>2. QED
      BY <1>8, <2>1, <2>7, <3>1
  <2>9. /\ Payload(i, id, v, z[v]) \in Seq(Cell) /\ Len(Payload(i, id, v, z[v])) = z[v]
        /\ \A j \in 1 .. z[v] : Payload(i, id, v, z[v])[j] = DataCell(i, id, v)
    <3>1. v \in Nat
      BY <1>2
    <3>2. QED
      BY <2>1, <3>1, PayloadType, ZenonT(30)
  <2>10. QED
    BY <2>5, <2>7, <2>8, <2>9
<1>12. QED
  BY <1>2, <1>4, <1>9, <1>11 DEF ReadSegment

-----------------------------------------------------------------------------
(* The inductive invariant *)

\* The segments of the rowgroup being encoded hold what was handed to them.
SegmentsFilled == \A id \in SegIds : Filled(rg, id, eps[id], sizes[id], data[id])

\* Columns behind the innermost one are fully described, columns ahead not at all.
FlushOrder ==
  \A c \in Columns :
    /\ Len(sds[c]) <= Len(Segments[c])
    /\ next <= c => sds[c] = <<>>
    /\ c < next /\ c # at => Len(sds[c]) = Len(Segments[c])

\* Every segment described so far is in the rowgroup buffer where it is said to be.
SegmentsPlaced ==
  \A c \in Columns : \A s \in 1 .. Len(sds[c]) :
    Placed(buf, sds[c][s], eps[<<c, s>>], data[<<c, s>>])

\* The offset the innermost Flush counts is the end of the buffer, wherever it
\* still has segments of its own to dump.
OffsetCurrent == at # 0 => (Segments[at] # <<>> => current_offset = Len(buf))

\* The rowgroups written so far are inside the file and read back.
RowgroupsRead ==
  /\ Len(file) = cur_rowgroup_offset
  /\ Len(written) = Len(rgds)
  /\ \A i \in 1 .. Len(rgds) :
       /\ rgds[i].m_offset + rgds[i].m_size <= Len(file)
       /\ ReadRowgroup(file, rgds[i]) = Handed(i, written[i])

IInv == TypeOK /\ SegmentsFilled /\ FlushOrder /\ SegmentsPlaced /\ OffsetCurrent /\ RowgroupsRead

\* Segment::Flush during a vector keeps all segments filled.
LEMMA WriteFilled ==
  ASSUME TypeOK, SegmentsFilled, NEW ids, ids \subseteq SegIds, NEW sz \in [ids -> Nat],
         Write(ids, sz), rgds' = rgds
  PROVE  SegmentsFilled'
<1>1. rg \in Nat /\ rg' = rg
  BY DEF rg, TypeOK
<1>2. ASSUME NEW id \in SegIds
      PROVE  Filled(rg, id, eps'[id], sizes'[id], data'[id])
  <2>1. Filled(rg, id, eps[id], sizes[id], data[id])
    BY DEF SegmentsFilled
  <2>2. CASE id \in ids
    <3>1. sz[id] \in Nat
      BY <2>2
    <3>2. /\ eps'[id] = FlushEntryPoint(eps[id], sz[id])
          /\ data'[id] = data[id] \o Payload(rg, id, Len(eps[id]) + 1, sz[id])
          /\ sizes'[id] = Append(sizes[id], sz[id])
      BY <2>2, Zenon DEF Write
    <3>3. QED
      BY <1>1, <2>1, <3>1, <3>2, FilledWrite
  <2>3. CASE id \notin ids
    <3>1. eps'[id] = eps[id] /\ data'[id] = data[id] /\ sizes'[id] = sizes[id]
      BY <2>3 DEF Write
    <3>2. QED
      BY <2>1, <3>1
  <2>4. QED
    BY <2>2, <2>3
<1>3. QED
  BY <1>1, <1>2 DEF SegmentsFilled

\* Writes to segments of columns that Flush has not entered disturb no descriptor.
LEMMA WritePlaced ==
  ASSUME TypeOK, FlushOrder, SegmentsPlaced, NEW ids, NEW sz, Write(ids, sz),
         \A id \in ids : next <= id[1], UNCHANGED <<buf, sds>>
  PROVE  SegmentsPlaced'
<1> SUFFICES ASSUME NEW c \in Columns, NEW s \in 1 .. Len(sds[c])
             PROVE  Placed(buf, sds[c][s], eps'[<<c, s>>], data'[<<c, s>>])
  BY DEF SegmentsPlaced
<1>1. sds[c] # <<>> /\ sds[c] \in Seq(SegmentDescriptor) /\ Len(sds[c]) <= Len(Segments[c])
  BY DEF FlushOrder, TypeOK
<1>2. ~(next <= c)
  BY <1>1 DEF FlushOrder
<1>3. s \in 1 .. Len(Segments[c])
  BY <1>1, SchemaAssumption
<1>4. <<c, s>> \in SegIds /\ <<c, s>>[1] = c
  BY <1>3, SegIdsMember
<1>5. <<c, s>> \notin ids
  BY <1>2, <1>4
<1>6. eps'[<<c, s>>] = eps[<<c, s>>] /\ data'[<<c, s>>] = data[<<c, s>>]
  BY <1>4, <1>5, Zenon DEF Write
<1>7. QED
  BY <1>6 DEF SegmentsPlaced

\* A rowgroup reads the same after the file has grown.
LEMMA SpanGrow ==
  ASSUME NEW f \in Seq(Cell), NEW x \in Seq(Cell), NEW rgd \in RowgroupDescriptor,
         rgd.m_offset + rgd.m_size <= Len(f)
  PROVE  ReadRowgroup(f \o x, rgd) = ReadRowgroup(f, rgd)
<1>1. rgd.m_offset \in Nat /\ rgd.m_size \in Nat
  BY DEF RowgroupDescriptor
<1>2. PICK g, o, n : g = f \o x /\ o = rgd.m_offset /\ n = rgd.m_size
  OBVIOUS
<1>3. /\ g \in Seq(Cell) /\ Len(g) = Len(f) + Len(x)
      /\ \A k \in 1 .. Len(f) : g[k] = f[k]
  BY <1>2, CellConcat, Zenon
<1>4. o \in Nat /\ n \in Nat /\ o + n <= Len(f) /\ o + n <= Len(g)
  BY <1>1, <1>2, <1>3
<1>5. PICK a, b : a = SubSeq(f, o + 1, o + n) /\ b = SubSeq(g, o + 1, o + n)
  OBVIOUS
<1>6. a \in Seq(Cell) /\ Len(a) = n /\ \A k \in 1 .. n : a[k] = f[o + k]
  BY <1>4, <1>5, CellSubSeq, Zenon
<1>7. b \in Seq(Cell) /\ Len(b) = n /\ \A k \in 1 .. n : b[k] = g[o + k]
  BY <1>3, <1>4, <1>5, CellSubSeq, Zenon
<1>8. \A k \in 1 .. n : o + k \in 1 .. Len(f)
  <2>1. Len(f) \in Nat
    OBVIOUS
  <2>2. QED
    BY <1>4, <2>1, IndexInside, Zenon
<1>9. a = b
  <2>1. \A k \in 1 .. n : a[k] = b[k]
    BY <1>3, <1>6, <1>7, <1>8
  <2>2. QED
    BY <1>6, <1>7, <2>1, CellSeqEqual, ZenonT(30)
<1>10. RowgroupSpan(g, rgd) = RowgroupSpan(f, rgd)
  BY <1>2, <1>5, <1>9 DEF RowgroupSpan
<1>11. QED
  BY <1>2, <1>10 DEF ReadRowgroup

\* The rowgroup just appended reads from the file what stood in the buffer.
LEMMA SpanNew ==
  ASSUME NEW f \in Seq(Cell), NEW x \in Seq(Cell), NEW rgd,
         rgd.m_offset = Len(f), rgd.m_size = Len(x)
  PROVE  RowgroupSpan(f \o x, rgd) = x
<1>1. PICK g, n : g = f \o x /\ n = Len(x)
  OBVIOUS
<1>2. /\ g \in Seq(Cell) /\ Len(g) = Len(f) + Len(x)
      /\ \A k \in 1 .. Len(x) : g[Len(f) + k] = x[k]
  BY <1>1, CellConcat, Zenon
<1>3. PICK b : b = SubSeq(g, Len(f) + 1, Len(f) + n)
  OBVIOUS
<1>4. Len(f) \in Nat /\ n \in Nat /\ Len(f) + n <= Len(g)
  BY <1>1, <1>2
<1>5. b \in Seq(Cell) /\ Len(b) = n /\ \A k \in 1 .. n : b[k] = g[Len(f) + k]
  BY <1>2, <1>3, <1>4, CellSubSeq, Zenon
<1>6. b = x
  <2>1. \A k \in 1 .. n : b[k] = x[k]
    BY <1>1, <1>2, <1>5
  <2>2. QED
    BY <1>1, <1>5, <2>1, CellSeqEqual, Zenon
<1>7. QED
  BY <1>1, <1>3, <1>6 DEF RowgroupSpan

\* The inductive invariant holds when encode starts.
LEMMA InitIInv == Init => IInv
<1> SUFFICES ASSUME Init PROVE IInv
  OBVIOUS
<1>1. TypeOK
  BY TypeInductive
<1>2. rgds = <<>> /\ rg = 1
  BY DEF Init, rg
<1>3. SegmentsFilled
  <2>1. \A id \in SegIds : eps[id] = <<>> /\ data[id] = <<>> /\ sizes[id] = <<>>
    BY DEF Init, Blank
  <2>2. QED
    BY <1>2, <2>1, FilledBlank DEF SegmentsFilled
<1>4. FlushOrder
  BY SchemaAssumption DEF Init, FlushOrder, Columns
<1>5. SegmentsPlaced
  BY DEF Init, SegmentsPlaced
<1>6. OffsetCurrent
  BY DEF Init, OffsetCurrent
<1>7. RowgroupsRead
  BY <1>2, SizeAssumption DEF Init, RowgroupsRead
<1>8. QED
  BY <1>1, <1>3, <1>4, <1>5, <1>6, <1>7 DEF IInv

\* ExecuteVector keeps the inductive invariant.
LEMMA ExecuteVectorIInv == IInv /\ TypeOK' /\ ExecuteVector => IInv'
<1> SUFFICES ASSUME IInv, TypeOK', ExecuteVector PROVE IInv'
  OBVIOUS
<1>1. PICK sz \in [VectorSegments(next) -> Sizes["vector"]] : Write(VectorSegments(next), sz)
  BY DEF ExecuteVector
<1>2. sz \in [VectorSegments(next) -> Nat] /\ VectorSegments(next) \subseteq SegIds
  BY SizeAssumption DEF SegKinds, VectorSegments
<1>3. UNCHANGED <<next, at, current_offset, buf, sds, file, rgds, cur_rowgroup_offset, written>>
  BY DEF ExecuteVector, flushVars, tableVars
<1>4. SegmentsFilled'
  BY <1>1, <1>2, <1>3, WriteFilled DEF IInv
<1>5. \A id \in VectorSegments(next) : next <= id[1]
  <2> SUFFICES ASSUME NEW id \in VectorSegments(next) PROVE next <= id[1]
    OBVIOUS
  <2>1. id \in SegIds /\ Root[id[1]] = next
    BY DEF VectorSegments
  <2>2. id[1] \in Columns
    BY <2>1, SegIdsType
  <2>3. QED
    BY <2>1, <2>2, RootBelow
<1>6. SegmentsPlaced'
  BY <1>1, <1>3, <1>5, WritePlaced DEF IInv
<1>7. FlushOrder' /\ OffsetCurrent'
  BY <1>3 DEF IInv, FlushOrder, OffsetCurrent
<1>8. RowgroupsRead'
  BY <1>3 DEF IInv, RowgroupsRead
<1>9. QED
  BY <1>4, <1>6, <1>7, <1>8 DEF IInv

\* OpenColumn keeps the inductive invariant.
LEMMA OpenColumnIInv == IInv /\ TypeOK' /\ OpenColumn => IInv'
<1> SUFFICES ASSUME IInv, TypeOK', OpenColumn PROVE IInv'
  OBVIOUS
<1>1. PICK sz \in [BlockSegments(next) -> Sizes["block"]] : Write(BlockSegments(next), sz)
  BY DEF OpenColumn
<1>2. sz \in [BlockSegments(next) -> Nat] /\ BlockSegments(next) \subseteq SegIds
  BY SizeAssumption DEF SegKinds, BlockSegments
<1>3. /\ UNCHANGED <<buf, sds, file, rgds, cur_rowgroup_offset, written>>
      /\ next \in Columns /\ Parent[next] = at
      /\ at' = next /\ next' = next + 1 /\ current_offset' = Len(buf)
  BY DEF OpenColumn, tableVars
<1>4. SegmentsFilled'
  BY <1>1, <1>2, <1>3, WriteFilled DEF IInv
<1>5. next \in Nat
  BY <1>3 DEF Columns
<1>6. \A id \in BlockSegments(next) : next <= id[1]
  BY <1>5 DEF BlockSegments
<1>7. SegmentsPlaced'
  BY <1>1, <1>3, <1>6, WritePlaced DEF IInv
<1>8. FlushOrder'
  <2> SUFFICES ASSUME NEW c \in Columns
               PROVE  /\ Len(sds[c]) <= Len(Segments[c])
                      /\ next + 1 <= c => sds[c] = <<>>
                      /\ c < next + 1 /\ c # next => Len(sds[c]) = Len(Segments[c])
    BY <1>3 DEF FlushOrder
  <2>1. c \in Nat
    BY DEF Columns
  <2>2. /\ Len(sds[c]) <= Len(Segments[c])
        /\ next <= c => sds[c] = <<>>
        /\ c < next /\ c # at => Len(sds[c]) = Len(Segments[c])
    BY DEF IInv, FlushOrder
  <2>3. c = at => Len(sds[c]) = Len(Segments[c])
    <3> SUFFICES ASSUME c = at PROVE Len(sds[c]) = Len(Segments[c])
      OBVIOUS
    <3>a. c # 0
      BY SchemaAssumption DEF Columns
    <3>b. Parent[next] = c
      BY <1>3
    <3>1. Segments[c] = <<>>
      BY <1>3, <3>a, <3>b, SchemaAssumption, Zenon
    <3>2. sds[c] \in Seq(SegmentDescriptor)
      BY DEF IInv, TypeOK
    <3>3. QED
      BY <2>2, <3>1, <3>2
  <2>4. QED
    BY <1>5, <2>1, <2>2, <2>3
<1>9. OffsetCurrent'
  BY <1>3 DEF OffsetCurrent
<1>10. RowgroupsRead'
  BY <1>3 DEF IInv, RowgroupsRead
<1>11. QED
  BY <1>4, <1>7, <1>8, <1>9, <1>10 DEF IInv

\* CloseColumn keeps the inductive invariant.
LEMMA CloseColumnIInv == IInv /\ TypeOK' /\ CloseColumn => IInv'
<1> SUFFICES ASSUME IInv, TypeOK', CloseColumn PROVE IInv'
  OBVIOUS
<1>1. /\ at # 0 /\ Len(sds[at]) = Len(Segments[at]) /\ at' = Parent[at]
      /\ UNCHANGED <<next, current_offset, buf, sds, eps, data, sizes>>
      /\ UNCHANGED <<file, rgds, cur_rowgroup_offset, written>>
  BY DEF CloseColumn, ReturnsTo, segmentVars, tableVars
<1>2. at \in Columns
  BY <1>1 DEF IInv, TypeOK, Columns
<1>3. SegmentsFilled'
  BY <1>1 DEF IInv, SegmentsFilled, rg
<1>4. FlushOrder'
  BY <1>1 DEF IInv, FlushOrder
<1>5. SegmentsPlaced'
  BY <1>1 DEF IInv, SegmentsPlaced
<1>6. OffsetCurrent'
  BY <1>1, <1>2, SchemaAssumption DEF OffsetCurrent
<1>7. RowgroupsRead'
  BY <1>1 DEF IInv, RowgroupsRead
<1>8. QED
  BY <1>3, <1>4, <1>5, <1>6, <1>7 DEF IInv

\* DumpSegment keeps the inductive invariant.
LEMMA DumpSegmentIInv == IInv /\ TypeOK' /\ DumpSegment => IInv'
<1> SUFFICES ASSUME IInv, TypeOK', DumpSegment PROVE IInv'
  OBVIOUS
<1>1. PICK m, id, e, d, t, esize, sd :
        /\ m = Len(sds[at]) + 1
        /\ id = <<at, m>>
        /\ e = eps[id] /\ d = data[id]
        /\ t = SmallestEntryPointType(e)
        /\ esize = Len(e) * Width(t)
        /\ sd = [entry_point_t |-> t, entrypoint_offset |-> current_offset,
                 entrypoint_size |-> esize, data_offset |-> current_offset + esize,
                 data_size |-> Len(d)]
  OBVIOUS
<1>2. /\ at # 0 /\ Len(sds[at]) < Len(Segments[at])
      /\ buf' = buf \o (EntryBytes(t, e) \o d)
      /\ current_offset' = current_offset + esize + Len(d)
      /\ sds' = [sds EXCEPT ![at] = Append(@, sd)]
  <2>1. Described(current_offset, e, d) = sd
    BY <1>1, Zenon DEF Described
  <2>2. /\ at # 0 /\ Len(sds[at]) < Len(Segments[at])
        /\ buf' = buf \o Dumped(e, d)
        /\ current_offset' = current_offset + sd.entrypoint_size + sd.data_size
        /\ sds' = [sds EXCEPT ![at] = Append(@, sd)]
    BY <1>1, <2>1, Zenon DEF DumpSegment
  <2>3. sd.entrypoint_size = esize /\ sd.data_size = Len(d)
    BY <1>1
  <2>4. Dumped(e, d) = EntryBytes(t, e) \o d
    BY <1>1, Zenon DEF Dumped
  <2>5. QED
    BY <2>2, <2>3, <2>4, Zenon
<1>3. UNCHANGED <<next, at, eps, data, sizes, file, rgds, cur_rowgroup_offset, written>>
  BY DEF DumpSegment, segmentVars, tableVars
<1>4. at \in Columns /\ sds \in [Columns -> Seq(SegmentDescriptor)] /\ buf \in Seq(Cell)
  BY <1>2 DEF IInv, TypeOK, Columns
<1>5. m \in 1 .. Len(Segments[at]) /\ Segments[at] # <<>>
  BY <1>1, <1>2, <1>4, SchemaAssumption
<1>6. id \in SegIds /\ e \in Seq(Nat) /\ d \in Seq(Cell)
  BY <1>1, <1>4, <1>5, SegIdsMember DEF IInv, TypeOK
<1>7. current_offset = Len(buf)
  BY <1>2, <1>5 DEF IInv, OffsetCurrent
<1>8. Placed(buf', sd, e, d) /\ Len(buf') = Len(buf) + esize + Len(d)
  <2>1. sd = [entry_point_t |-> t, entrypoint_offset |-> Len(buf), entrypoint_size |-> esize,
              data_offset |-> Len(buf) + esize, data_size |-> Len(d)]
    BY <1>1, <1>7
  <2>2. t = SmallestEntryPointType(e) /\ esize = Len(e) * Width(t)
    BY <1>1
  <2>3. /\ Placed(buf \o (EntryBytes(t, e) \o d), sd, e, d)
        /\ Len(buf \o (EntryBytes(t, e) \o d)) = Len(buf) + esize + Len(d)
    <3>1. buf \in Seq(Cell) /\ e \in Seq(Nat) /\ d \in Seq(Cell)
      BY <1>4, <1>6
    <3> HIDE <1>1
    <3>2. QED
      BY <2>1, <2>2, <3>1, PlacedDump
  <2>4. QED
    BY <1>2, <2>3
<1>9. /\ sds'[at] = Append(sds[at], sd)
      /\ \A c \in Columns : c # at => sds'[c] = sds[c]
  BY <1>2, <1>4
<1>10. /\ Len(sds'[at]) = m /\ sds'[at][m] = sd
       /\ \A s \in 1 .. Len(sds[at]) : sds'[at][s] = sds[at][s]
  <2>1. sd \in SegmentDescriptor
    BY <1>8 DEF Placed
  <2>2. sds[at] \in Seq(SegmentDescriptor)
    BY <1>4
  <2>3. QED
    BY <1>1, <1>9, <2>1, <2>2, AppendFacts
<1>11. SegmentsFilled'
  BY <1>3 DEF IInv, SegmentsFilled, rg
<1>12. EntryBytes(t, e) \o d \in Seq(Cell)
  BY <1>1, <1>6, SmallestType, EntryBytesType, CellConcat
<1>13. SegmentsPlaced'
  <2> SUFFICES ASSUME NEW c \in Columns, NEW s \in 1 .. Len(sds'[c])
               PROVE  Placed(buf', sds'[c][s], eps[<<c, s>>], data[<<c, s>>])
    BY <1>3 DEF SegmentsPlaced
  <2>1. CASE c = at /\ s = m
    BY <1>1, <1>8, <1>10, <2>1
  <2>2. CASE ~(c = at /\ s = m)
    <3>1. s \in 1 .. Len(sds[c]) /\ sds'[c][s] = sds[c][s]
      <4>1. CASE c = at
        <5>1. Len(sds[at]) \in Nat /\ s \in 1 .. m /\ s # m
          BY <1>4, <1>10, <2>2, <4>1
        <5>2. s \in 1 .. Len(sds[at])
          BY <1>1, <5>1
        <5>3. QED
          BY <1>10, <4>1, <5>2
      <4>2. CASE c # at
        BY <1>9, <4>2
      <4>3. QED
        BY <4>1, <4>2
    <3>2. Placed(buf, sds[c][s], eps[<<c, s>>], data[<<c, s>>])
      BY <3>1 DEF IInv, SegmentsPlaced
    <3>3. QED
      BY <1>2, <1>12, <3>1, <3>2, PlacedGrow
  <2>3. QED
    BY <2>1, <2>2
<1>14. FlushOrder'
  <2> SUFFICES ASSUME NEW c \in Columns
               PROVE  /\ Len(sds'[c]) <= Len(Segments[c])
                      /\ next <= c => sds'[c] = <<>>
                      /\ c < next /\ c # at => Len(sds'[c]) = Len(Segments[c])
    BY <1>3 DEF FlushOrder
  <2>1. CASE c = at
    <3>1. at \in 0 .. NumColumns /\ at < next /\ next \in 1 .. NumColumns + 1
      BY DEF IInv, TypeOK
    <3>2. ~(next <= at)
      BY <3>1, SchemaAssumption
    <3>3. Len(sds'[at]) <= Len(Segments[at])
      BY <1>5, <1>10
    <3>4. QED
      BY <2>1, <3>2, <3>3
  <2>2. CASE c # at
    BY <1>9, <2>2 DEF IInv, FlushOrder
  <2>3. QED
    BY <2>1, <2>2
<1>15. OffsetCurrent'
  <2>1. current_offset' = Len(buf')
    BY <1>2, <1>7, <1>8
  <2>2. QED
    BY <2>1 DEF OffsetCurrent
<1>16. RowgroupsRead'
  BY <1>3 DEF IInv, RowgroupsRead
<1>17. QED
  BY <1>11, <1>13, <1>14, <1>15, <1>16 DEF IInv

\* AppendRowgroup keeps the inductive invariant.
LEMMA AppendRowgroupIInv == IInv /\ TypeOK' /\ AppendRowgroup => IInv'
<1> SUFFICES ASSUME IInv, TypeOK', AppendRowgroup PROVE IInv'
  OBVIOUS
<1>1. PICK rgd : rgd = [m_n_vec |-> n_vec, m_size |-> Len(buf), m_offset |-> cur_rowgroup_offset,
                        cds |-> cds, sds |-> sds]
  OBVIOUS
<1>2. /\ at = 0 /\ at' = 0 /\ next = NumColumns + 1 /\ next' = 1
      /\ file' = file \o buf /\ rgds' = Append(rgds, rgd)
      /\ written' = Append(written, sizes)
      /\ cur_rowgroup_offset' = cur_rowgroup_offset + Len(buf)
      /\ buf' = <<>> /\ eps' = Blank /\ data' = Blank /\ sizes' = Blank
      /\ sds' = [c \in Columns |-> <<>>]
  BY <1>1 DEF AppendRowgroup, OffsetAfter
<1>3. /\ file \in Seq(Cell) /\ buf \in Seq(Cell) /\ rgds \in Seq(RowgroupDescriptor)
      /\ written \in Seq([SegIds -> Seq(Nat)]) /\ sizes \in [SegIds -> Seq(Nat)]
      /\ cur_rowgroup_offset \in Nat
  BY DEF IInv, TypeOK
<1>4. rgd \in RowgroupDescriptor
  <2>1. [m_n_vec |-> n_vec, m_size |-> Len(buf), m_offset |-> cur_rowgroup_offset,
         cds |-> cds, sds |-> sds] \in RowgroupDescriptor
    BY SizeAssumption, SMTT(30) DEF IInv, TypeOK, RowgroupDescriptor
  <2>2. QED
    BY <1>1, <2>1
<1>5. /\ rg \in Nat /\ rg' \in Nat /\ rg = Len(rgds) + 1
      /\ Len(rgds') = rg /\ rgds'[rg] = rgd
      /\ \A i \in 1 .. Len(rgds) : rgds'[i] = rgds[i]
  <2>1. /\ Len(rgds') = Len(rgds) + 1 /\ rgds'[Len(rgds) + 1] = rgd
        /\ \A i \in 1 .. Len(rgds) : rgds'[i] = rgds[i]
    BY <1>2, <1>3, <1>4, AppendFacts
  <2>2. Len(rgds) \in Nat
    BY <1>3
  <2>3. QED
    BY <2>1, <2>2 DEF rg
<1>6. /\ Len(written) = Len(rgds) /\ Len(file) = cur_rowgroup_offset
      /\ \A i \in 1 .. Len(rgds) :
           /\ rgds[i].m_offset + rgds[i].m_size <= Len(file)
           /\ ReadRowgroup(file, rgds[i]) = Handed(i, written[i])
  BY DEF IInv, RowgroupsRead
<1>7. /\ Len(written') = rg /\ written'[rg] = sizes
      /\ \A i \in 1 .. Len(rgds) : written'[i] = written[i]
  <2>1. /\ Len(written') = Len(written) + 1 /\ written'[Len(written) + 1] = sizes
        /\ \A i \in 1 .. Len(written) : written'[i] = written[i]
    BY <1>2, <1>3, AppendFacts
  <2>2. QED
    BY <1>5, <1>6, <2>1
<1>8. Len(file') = Len(file) + Len(buf) /\ Len(file) \in Nat /\ Len(buf) \in Nat
  BY <1>2, <1>3
<1>9. ReadRowgroup(file', rgd) = Handed(rg, sizes)
  <2>1. RowgroupSpan(file', rgd) = buf
    <3>1. rgd.m_offset = Len(file) /\ rgd.m_size = Len(buf)
      BY <1>1, <1>6
    <3>2. RowgroupSpan(file \o buf, rgd) = buf
      BY <1>3, <3>1, SpanNew
    <3>3. QED
      BY <1>2, <3>2
  <2>2. ASSUME NEW id \in SegIds
        PROVE  ReadSegment(SegmentView(buf, sds[id[1]][id[2]]))
                 = [v \in 1 .. Len(sizes[id]) |-> Payload(rg, id, v, sizes[id][v])]
    <3>1. /\ id = <<id[1], id[2]>> /\ id[1] \in Columns /\ id[2] \in 1 .. Len(Segments[id[1]])
          /\ id[1] \in 1 .. NumColumns
      BY SegIdsType DEF Columns
    <3>2. id[1] < next /\ id[1] # at
      BY <1>2, <3>1, SchemaAssumption
    <3>3. id[2] \in 1 .. Len(sds[id[1]])
      BY <3>1, <3>2 DEF IInv, FlushOrder
    <3>4. Placed(buf, sds[id[1]][id[2]], eps[<<id[1], id[2]>>], data[<<id[1], id[2]>>])
      BY <3>1, <3>3 DEF IInv, SegmentsPlaced
    <3>5. Placed(buf, sds[id[1]][id[2]], eps[id], data[id])
      BY <3>1, <3>4, Zenon
    <3>6. Filled(rg, id, eps[id], sizes[id], data[id])
      BY DEF IInv, SegmentsFilled
    <3>7. QED
      BY <1>5, <3>5, <3>6, ReadPlaced
  <2>3. rgd.sds = sds
    BY <1>1
  <2>4. QED
    BY <2>1, <2>2, <2>3, Zenon DEF ReadRowgroup, Handed
<1>10. RowgroupsRead'
  <2>1. Len(file') = cur_rowgroup_offset' /\ Len(written') = Len(rgds')
    BY <1>2, <1>5, <1>6, <1>7, <1>8
  <2>2. ASSUME NEW i \in 1 .. Len(rgds')
        PROVE  /\ rgds'[i].m_offset + rgds'[i].m_size <= Len(file')
               /\ ReadRowgroup(file', rgds'[i]) = Handed(i, written'[i])
    <3>1. CASE i = rg
      <4>1. rgd.m_offset + rgd.m_size <= Len(file')
        BY <1>1, <1>6, <1>8
      <4>2. QED
        BY <1>5, <1>7, <1>9, <3>1, <4>1
    <3>2. CASE i # rg
      <4>1. i \in 1 .. Len(rgds)
        BY <1>5, <3>2
      <4>2. /\ rgds'[i] = rgds[i] /\ written'[i] = written[i]
            /\ rgds[i].m_offset + rgds[i].m_size <= Len(file)
            /\ ReadRowgroup(file, rgds[i]) = Handed(i, written[i])
            /\ rgds[i] \in RowgroupDescriptor
        BY <1>3, <1>5, <1>6, <1>7, <4>1
      <4>3. ReadRowgroup(file', rgds[i]) = ReadRowgroup(file, rgds[i])
        BY <1>2, <1>3, <4>2, SpanGrow
      <4>4. rgds[i].m_offset \in Nat /\ rgds[i].m_size \in Nat
        BY <4>2 DEF RowgroupDescriptor
      <4>5. rgds[i].m_offset + rgds[i].m_size <= Len(file')
        BY <1>8, <4>2, <4>4
      <4>6. QED
        BY <4>2, <4>3, <4>5
    <3>3. QED
      BY <3>1, <3>2
  <2>3. QED
    BY <2>1, <2>2 DEF RowgroupsRead
<1>11. SegmentsFilled'
  <2>1. ASSUME NEW id \in SegIds PROVE Filled(rg', id, eps'[id], sizes'[id], data'[id])
    <3>1. eps'[id] = <<>> /\ sizes'[id] = <<>> /\ data'[id] = <<>>
      BY <1>2 DEF Blank
    <3>2. QED
      BY <1>5, <3>1, FilledBlank
  <2>2. QED
    BY <2>1 DEF SegmentsFilled
<1>12. FlushOrder'
  BY <1>2, SchemaAssumption DEF FlushOrder, Columns
<1>13. SegmentsPlaced' /\ OffsetCurrent'
  BY <1>2 DEF SegmentsPlaced, OffsetCurrent
<1>14. QED
  BY <1>10, <1>11, <1>12, <1>13 DEF IInv

\* The inductive invariant holds in every reachable state.
LEMMA Inductive == Spec => []IInv
<1>1. IInv /\ [Next]_vars => IInv'
  <2> SUFFICES ASSUME IInv, [Next]_vars PROVE IInv'
    OBVIOUS
  <2>1. TypeOK'
    BY TypeInductive DEF IInv
  <2>2. CASE ExecuteVector
    BY <2>1, <2>2, ExecuteVectorIInv
  <2>3. CASE OpenColumn
    BY <2>1, <2>3, OpenColumnIInv
  <2>4. CASE DumpSegment
    BY <2>1, <2>4, DumpSegmentIInv
  <2>5. CASE CloseColumn
    BY <2>1, <2>5, CloseColumnIInv
  <2>6. CASE AppendRowgroup
    BY <2>1, <2>6, AppendRowgroupIInv
  <2>7. CASE UNCHANGED vars
    BY <2>1, <2>7 DEF vars, segmentVars, flushVars, tableVars, IInv, SegmentsFilled, FlushOrder,
                      SegmentsPlaced, OffsetCurrent, RowgroupsRead, rg
  <2>8. QED
    BY <2>2, <2>3, <2>4, <2>5, <2>6, <2>7 DEF Next, Terminated
<1>2. QED
  BY <1>1, InitIInv, PTL DEF Spec

\* Whatever the schema, the number of vectors and the sizes of the writes, every
\* vector of every completed rowgroup is read back as it was handed to its
\* segment: Segment::Dump and SegmentView agree on the narrowed entry points and
\* on both offsets, and Encoder::encode on the rowgroup's place in the file.
THEOREM ReadsBackAlways == Spec => []ReadsBack
<1>1. IInv => ReadsBack
  BY DEF IInv, RowgroupsRead, ReadsBack, Stored
<1>2. QED
  BY <1>1, Inductive, PTL

-----------------------------------------------------------------------------
(* The refinement *)

\* What is read back is what was handed over, rowgroup by rowgroup.
LEMMA StoredShape ==
  ASSUME IInv
  PROVE  /\ Len(rgds) \in Nat
         /\ Len(Stored) = Len(rgds)
         /\ \A i \in 1 .. Len(rgds) : Stored[i] = Handed(i, written[i])
         /\ \A i \in 1 .. Len(rgds) : written[i] \in [SegIds -> Seq(Nat)]
<1>1. Len(rgds) \in Nat
  BY DEF IInv, TypeOK
<1>2. QED
  BY <1>1 DEF Stored, IInv, RowgroupsRead, TypeOK

\* The vectors handed over are made of their own bytes and of no others.
LEMMA HandedBytes ==
  ASSUME NEW i \in Nat, NEW ws \in [SegIds -> Seq(Nat)]
  PROVE  /\ DOMAIN Handed(i, ws) = SegIds
         /\ \A id \in SegIds : \A v \in 1 .. Len(Handed(i, ws)[id]) :
              VS!IsBytesOf(Handed(i, ws)[id][v], i, id, v)
<1>1. ASSUME NEW id \in SegIds, NEW v \in 1 .. Len(Handed(i, ws)[id])
      PROVE  VS!IsBytesOf(Handed(i, ws)[id][v], i, id, v)
  <2>1. Handed(i, ws)[id] = [u \in 1 .. Len(ws[id]) |-> Payload(i, id, u, ws[id][u])]
    BY DEF Handed
  <2>2. ws[id] \in Seq(Nat) /\ Len(ws[id]) \in Nat
    OBVIOUS
  <2>3. Len(Handed(i, ws)[id]) = Len(ws[id])
    BY <2>1, <2>2
  <2>4. v \in 1 .. Len(ws[id]) /\ v \in Nat /\ ws[id][v] \in Nat
    BY <2>2, <2>3
  <2>5. PICK p : p = Payload(i, id, v, ws[id][v])
    OBVIOUS
  <2>6. Handed(i, ws)[id][v] = p
    BY <2>1, <2>4, <2>5
  <2>7. Len(p) = ws[id][v] /\ \A k \in 1 .. ws[id][v] : p[k] = DataCell(i, id, v)
    BY <2>4, <2>5, PayloadType
  <2>8. \A k \in 1 .. Len(p) : p[k] = <<"data", i, id[1], id[2], v>>
    BY <2>7 DEF DataCell
  <2>9. QED
    BY <2>6, <2>8 DEF VS!IsBytesOf
<1>2. QED
  BY <1>1 DEF Handed

\* Appending a rowgroup is the abstract store's append.
LEMMA AppendRowgroupRefines ==
  ASSUME IInv, IInv', AppendRowgroup
  PROVE  VS!AddRowgroup
<1>1. PICK n : n = Len(rgds)
  OBVIOUS
<1>2. /\ n \in Nat /\ Len(Stored) = n
      /\ \A i \in 1 .. n : Stored[i] = Handed(i, written[i])
  BY <1>1, StoredShape
<1>3. Len(rgds') = n + 1 /\ \A i \in 1 .. n : written'[i] = written[i]
  <2>1. rgds \in Seq(RowgroupDescriptor) /\ written \in Seq([SegIds -> Seq(Nat)]) /\ Len(written) = n
    BY <1>1 DEF IInv, TypeOK, RowgroupsRead
  <2>2. Len(rgds') = n + 1
    BY <1>1, <2>1 DEF AppendRowgroup
  <2>3. written' = Append(written, sizes) /\ sizes \in [SegIds -> Seq(Nat)]
    BY DEF AppendRowgroup, IInv, TypeOK
  <2>4. \A i \in 1 .. n : written'[i] = written[i]
    BY <2>1, <2>3, AppendFacts
  <2>5. QED
    BY <2>2, <2>4
<1>4. /\ Len(Stored') = n + 1
      /\ \A i \in 1 .. n + 1 : Stored'[i] = Handed(i, written'[i])
      /\ \A i \in 1 .. n + 1 : written'[i] \in [SegIds -> Seq(Nat)]
  <2>1. /\ Len(Stored') = Len(rgds')
        /\ \A i \in 1 .. Len(rgds') : Stored'[i] = Handed(i, written'[i])
        /\ \A i \in 1 .. Len(rgds') : written'[i] \in [SegIds -> Seq(Nat)]
    <3>1. Len(rgds') \in Nat
      BY <1>2, <1>3
    <3>2. Stored' = [i \in 1 .. Len(rgds') |-> ReadRowgroup(file', rgds'[i])]
      BY DEF Stored
    <3>3. /\ Len(written') = Len(rgds') /\ written' \in Seq([SegIds -> Seq(Nat)])
          /\ \A i \in 1 .. Len(rgds') : ReadRowgroup(file', rgds'[i]) = Handed(i, written'[i])
      BY DEF IInv, RowgroupsRead, TypeOK
    <3>4. QED
      BY <3>1, <3>2, <3>3
  <2>2. QED
    BY <1>3, <2>1
<1>5. \A j \in 1 .. n : Stored'[j] = Stored[j]
  BY <1>2, <1>3, <1>4
<1>6. n + 1 \in Nat /\ n + 1 \in 1 .. n + 1
  BY <1>2
<1>7. PICK new, ws : new = Stored'[n + 1] /\ ws = written'[n + 1]
  OBVIOUS
<1>8. new = Handed(n + 1, ws) /\ ws \in [SegIds -> Seq(Nat)]
  BY <1>4, <1>6, <1>7
<1>9. /\ DOMAIN new = SegIds
      /\ \A k \in SegIds : \A v \in 1 .. Len(new[k]) : VS!IsBytesOf(new[k][v], n + 1, k, v)
  BY <1>6, <1>8, HandedBytes
<1>10. (n + 1) - 1 = n
  BY <1>2
<1>11. QED
  BY <1>2, <1>4, <1>5, <1>7, <1>9, <1>10 DEF VS!AddRowgroup

\* Every behaviour of the encoder, seen through the reader's views, is one of
\* the abstract store: rowgroups appear whole and in order, and no later write
\* changes what is read from an earlier one.
THEOREM EncoderImplementsStore == Spec => ImplementsVectorStore
<1>1. Init => VS!Init
  BY DEF Init, VS!Init, Stored
<1>2. IInv /\ IInv' /\ [Next]_vars => [VS!AddRowgroup]_Stored
  <2> SUFFICES ASSUME IInv, IInv', [Next]_vars PROVE [VS!AddRowgroup]_Stored
    OBVIOUS
  <2>1. CASE AppendRowgroup
    BY <2>1, AppendRowgroupRefines
  <2>2. CASE UNCHANGED <<file, rgds>>
    BY <2>2 DEF Stored
  <2>3. CASE ExecuteVector \/ OpenColumn \/ DumpSegment \/ CloseColumn \/ Terminated \/ UNCHANGED vars
    <3>1. UNCHANGED <<file, rgds>>
      BY <2>3 DEF ExecuteVector, OpenColumn, DumpSegment, CloseColumn, Terminated, vars, tableVars
    <3>2. QED
      BY <2>2, <3>1
  <2>4. QED
    BY <2>1, <2>3 DEF Next
<1>3. QED
  BY <1>1, <1>2, Inductive, PTL DEF Spec, VS!Spec, ImplementsVectorStore

-----------------------------------------------------------------------------
(* The place of the rowgroups in the file *)

\* The first rowgroup begins where the header ends.
TileInv == RowgroupsTile /\ (Len(rgds) = 0 => cur_rowgroup_offset = HeaderSize)

\* IO::append, and the offset and size that go into the descriptor, keep the
\* rowgroups next to each other.
LEMMA AppendRowgroupTiles == TypeOK /\ TileInv /\ AppendRowgroup => TileInv'
<1> SUFFICES ASSUME TypeOK, TileInv, AppendRowgroup PROVE TileInv'
  OBVIOUS
<1>1. PICK rgd : rgd = [m_n_vec |-> n_vec, m_size |-> Len(buf), m_offset |-> cur_rowgroup_offset,
                        cds |-> cds, sds |-> sds]
  OBVIOUS
<1>2. PICK n : n = Len(rgds)
  OBVIOUS
<1>3. /\ file' = file \o buf /\ rgds' = Append(rgds, rgd)
      /\ cur_rowgroup_offset' = cur_rowgroup_offset + Len(buf)
      /\ status = "encoding"
      /\ status' = status \/ table_binary_size' = cur_rowgroup_offset'
  BY <1>1, Zenon DEF AppendRowgroup, OffsetAfter
<1>4. /\ file \in Seq(Cell) /\ buf \in Seq(Cell) /\ rgds \in Seq(RowgroupDescriptor)
      /\ cur_rowgroup_offset \in Nat /\ n \in Nat
  BY <1>2 DEF TypeOK
<1>5. rgd.m_offset = cur_rowgroup_offset /\ rgd.m_size = Len(buf) /\ rgd \in RowgroupDescriptor
  <2>1. [m_n_vec |-> n_vec, m_size |-> Len(buf), m_offset |-> cur_rowgroup_offset,
         cds |-> cds, sds |-> sds] \in RowgroupDescriptor
    BY SizeAssumption DEF TypeOK, RowgroupDescriptor
  <2>2. QED
    BY <1>1, <2>1
<1>6. /\ Len(rgds') = n + 1 /\ rgds'[n + 1] = rgd
      /\ \A i \in 1 .. n : rgds'[i] = rgds[i]
  BY <1>2, <1>3, <1>4, <1>5, AppendFacts
<1>7. Len(file') = cur_rowgroup_offset'
  <2>1. Len(file) = cur_rowgroup_offset
    BY DEF TileInv, RowgroupsTile
  <2>2. QED
    BY <1>3, <1>4, <2>1, CellConcat
<1>8. ASSUME NEW i \in 1 .. n + 1
      PROVE  rgds'[i].m_offset = IF i = 1 THEN HeaderSize
                                 ELSE rgds'[i - 1].m_offset + rgds'[i - 1].m_size
  <2>1. CASE i = n + 1 /\ n = 0
    BY <1>2, <1>5, <1>6, <2>1 DEF TileInv
  <2>2. CASE i = n + 1 /\ n # 0
    <3>1. n \in 1 .. n /\ i # 1 /\ i - 1 = n
      BY <1>4, <2>2
    <3>2. rgds[n].m_offset + rgds[n].m_size = cur_rowgroup_offset
      BY <1>2, <3>1 DEF TileInv, RowgroupsTile
    <3>3. QED
      BY <1>5, <1>6, <2>2, <3>1, <3>2
  <2>3. CASE i \in 1 .. n
    <3>1. rgds[i].m_offset = IF i = 1 THEN HeaderSize ELSE rgds[i - 1].m_offset + rgds[i - 1].m_size
      BY <1>2, <2>3 DEF TileInv, RowgroupsTile
    <3>2. i # 1 => i - 1 \in 1 .. n
      BY <1>4, <2>3
    <3>3. QED
      BY <1>6, <2>3, <3>1, <3>2
  <2>4. QED
    BY <1>4, <2>1, <2>2, <2>3
<1>9. rgds'[n + 1].m_offset + rgds'[n + 1].m_size = cur_rowgroup_offset'
  BY <1>3, <1>5, <1>6
<1>10. status' = "encoded" => table_binary_size' = Len(file')
  BY <1>3, <1>7
<1>11. QED
  BY <1>4, <1>6, <1>7, <1>8, <1>9, <1>10 DEF TileInv, RowgroupsTile

\* For every schema and all sizes of writes, the completed rowgroups tile the
\* file between the header and the place of the footer: Encoder::encode keeps
\* cur_rowgroup_offset, m_offset, m_size and the appends in step.
THEOREM RowgroupsAlwaysTile == Spec => []RowgroupsTile
<1>1. Init => TileInv
  BY SizeAssumption DEF Init, TileInv, RowgroupsTile
<1>2. TypeOK /\ TileInv /\ [Next]_vars => TileInv'
  <2> SUFFICES ASSUME TypeOK, TileInv, [Next]_vars PROVE TileInv'
    OBVIOUS
  <2>1. CASE AppendRowgroup
    BY <2>1, AppendRowgroupTiles
  <2>2. CASE ExecuteVector \/ OpenColumn \/ DumpSegment \/ CloseColumn \/ Terminated \/ UNCHANGED vars
    <3>1. UNCHANGED <<file, rgds, cur_rowgroup_offset, table_binary_size, status>>
      BY <2>2 DEF ExecuteVector, OpenColumn, DumpSegment, CloseColumn, Terminated, vars, tableVars
    <3>2. QED
      BY <3>1 DEF TileInv, RowgroupsTile
  <2>3. QED
    BY <2>1, <2>2 DEF Next
<1>3. TileInv => RowgroupsTile
  BY DEF TileInv
<1>4. QED
  BY <1>1, <1>2, <1>3, TypeCorrect, PTL DEF Spec

-----------------------------------------------------------------------------
(* The segments *)

\* The descriptors of the rowgroup being encoded, and the two regions of one.
Descriptors == UNION {{sds[c][s] : s \in 1 .. Len(sds[c])} : c \in Columns}

EntryRegion(sd) == [from |-> sd.entrypoint_offset, to |-> sd.entrypoint_offset + sd.entrypoint_size]
DataRegion(sd)  == [from |-> sd.data_offset, to |-> sd.data_offset + sd.data_size]

\* The regions tile the buffer and none reaches past its end.
RegionInv == RegionsTile /\ \A r \in Regions : r.to <= Len(buf)

\* Regions holds two regions of each descriptor and no others.
LEMMA RegionsMembers ==
  \A r : r \in Regions <=> \E sd \in Descriptors : r = EntryRegion(sd) \/ r = DataRegion(sd)
BY DEF Regions, Descriptors, EntryRegion, DataRegion

\* A region of the buffer begins and ends at a number.
LEMMA RegionType ==
  ASSUME TypeOK, NEW r \in Regions
  PROVE  r.from \in Nat /\ r.to \in Nat
<1>1. PICK sd \in Descriptors : r = EntryRegion(sd) \/ r = DataRegion(sd)
  BY RegionsMembers
<1>2. sd \in SegmentDescriptor
  <2>1. PICK c \in Columns : \E s \in 1 .. Len(sds[c]) : sd = sds[c][s]
    BY DEF Descriptors
  <2>2. sds[c] \in Seq(SegmentDescriptor)
    BY DEF TypeOK
  <2>3. QED
    BY <2>1, <2>2
<1>3. QED
  BY <1>1, <1>2 DEF SegmentDescriptor, EntryRegion, DataRegion

\* Segment::Dump adds one descriptor: its entry points begin where the buffer
\* ended, its data behind them, and the buffer then ends with the data.
LEMMA DumpSegmentAdds ==
  ASSUME IInv, DumpSegment
  PROVE  \E sd \in SegmentDescriptor :
           /\ \A x : x \in Descriptors' <=> x \in Descriptors \/ x = sd
           /\ sd.entrypoint_offset = Len(buf)
           /\ sd.data_offset = Len(buf) + sd.entrypoint_size
           /\ Len(buf') = Len(buf) + sd.entrypoint_size + sd.data_size
<1>1. PICK m, id, e, d, t, esize, sd :
        /\ m = Len(sds[at]) + 1
        /\ id = <<at, m>>
        /\ e = eps[id] /\ d = data[id]
        /\ t = SmallestEntryPointType(e)
        /\ esize = Len(e) * Width(t)
        /\ sd = [entry_point_t |-> t, entrypoint_offset |-> current_offset,
                 entrypoint_size |-> esize, data_offset |-> current_offset + esize,
                 data_size |-> Len(d)]
  OBVIOUS
<1>2. /\ at # 0 /\ Len(sds[at]) < Len(Segments[at])
      /\ buf' = buf \o Dumped(e, d)
      /\ sds' = [sds EXCEPT ![at] = Append(@, sd)]
  <2>1. Described(current_offset, e, d) = sd
    BY <1>1, Zenon DEF Described
  <2>2. QED
    BY <1>1, <2>1, Zenon DEF DumpSegment
<1>3. at \in Columns /\ sds \in [Columns -> Seq(SegmentDescriptor)] /\ buf \in Seq(Cell)
  BY <1>2 DEF IInv, TypeOK, Columns
<1>4. m \in 1 .. Len(Segments[at]) /\ Segments[at] # <<>>
  BY <1>1, <1>2, <1>3, SchemaAssumption
<1>5. id \in SegIds /\ e \in Seq(Nat) /\ d \in Seq(Cell)
  BY <1>1, <1>3, <1>4, SegIdsMember DEF IInv, TypeOK
<1>6. current_offset = Len(buf)
  BY <1>2, <1>4 DEF IInv, OffsetCurrent
<1>7. t \in EntryPointTypes /\ esize \in Nat
  <2>1. t \in EntryPointTypes
    BY <1>1, SmallestType
  <2>2. Width(t) \in {1, 2, 4}
    BY <2>1, WidthType
  <2>3. Len(e) \in Nat
    BY <1>5
  <2>4. QED
    BY <1>1, <2>1, <2>2, <2>3
<1>8. sd \in SegmentDescriptor
  BY <1>1, <1>3, <1>5, <1>6, <1>7 DEF SegmentDescriptor
<1>9. Len(buf') = Len(buf) + esize + Len(d)
  <2>1. EntryBytes(t, e) \in Seq(Cell) /\ Len(EntryBytes(t, e)) = esize
    BY <1>1, <1>5, <1>7, EntryBytesType
  <2>2. Dumped(e, d) = EntryBytes(t, e) \o d
    BY <1>1, Zenon DEF Dumped
  <2>3. Dumped(e, d) \in Seq(Cell) /\ Len(Dumped(e, d)) = esize + Len(d)
    BY <1>5, <2>1, <2>2, CellConcat
  <2>4. Len(buf') = Len(buf) + (esize + Len(d))
    BY <1>2, <1>3, <2>3, CellConcat
  <2>5. QED
    BY <1>3, <1>5, <1>7, <2>4
<1>10. \A x : x \in Descriptors' <=> x \in Descriptors \/ x = sd
  <2>1. /\ \A c \in Columns : c # at => sds'[c] = sds[c]
        /\ sds'[at] = Append(sds[at], sd)
    BY <1>2, <1>3
  <2>2. /\ Len(sds'[at]) = m /\ sds'[at][m] = sd /\ m \in Nat \ {0}
        /\ \A s \in 1 .. Len(sds[at]) : sds'[at][s] = sds[at][s]
    BY <1>1, <1>3, <1>8, <2>1, AppendFacts
  <2>3. 1 .. Len(sds'[at]) = (1 .. Len(sds[at])) \cup {m}
    BY <1>1, <1>3, <2>2
  <2> DEFINE Old(c) == {sds[c][s] : s \in 1 .. Len(sds[c])}
             New(c) == {sds'[c][s] : s \in 1 .. Len(sds'[c])}
  <2>4. \A x : x \in New(at) <=> x \in Old(at) \/ x = sd
    BY <2>2, <2>3
  <2>5. \A c \in Columns : c # at => New(c) = Old(c)
    BY <2>1
  <2>6. \A x : x \in Descriptors' <=> \E c \in Columns : x \in New(c)
    BY DEF Descriptors
  <2>7. \A x : x \in Descriptors <=> \E c \in Columns : x \in Old(c)
    BY DEF Descriptors
  <2>8. at \in Columns
    BY <1>3
  <2> HIDE DEF Old, New
  <2>9. QED
    BY <2>4, <2>5, <2>6, <2>7, <2>8, Zenon
<1>11. QED
  BY <1>1, <1>6, <1>8, <1>9, <1>10

\* Segment::Dump keeps the buffer tiled: what it appends is the two regions it
\* describes, and no region described before reaches as far.
LEMMA DumpSegmentTiles == IInv /\ TypeOK' /\ RegionInv /\ DumpSegment => RegionInv'
<1> SUFFICES ASSUME IInv, TypeOK', RegionInv, DumpSegment PROVE RegionInv'
  OBVIOUS
<1>1. PICK sd \in SegmentDescriptor :
        /\ \A x : x \in Descriptors' <=> x \in Descriptors \/ x = sd
        /\ sd.entrypoint_offset = Len(buf)
        /\ sd.data_offset = Len(buf) + sd.entrypoint_size
        /\ Len(buf') = Len(buf) + sd.entrypoint_size + sd.data_size
  BY DumpSegmentAdds
<1>2. PICK len, esize, dsize, re, rd :
        /\ len = Len(buf) /\ esize = sd.entrypoint_size /\ dsize = sd.data_size
        /\ re = EntryRegion(sd) /\ rd = DataRegion(sd)
  OBVIOUS
<1>3. /\ len \in Nat /\ esize \in Nat /\ dsize \in Nat
      /\ re.from = len /\ re.to = len + esize
      /\ rd.from = len + esize /\ rd.to = len + esize + dsize
      /\ Len(buf') = len + esize + dsize
  BY <1>1, <1>2 DEF SegmentDescriptor, EntryRegion, DataRegion, IInv, TypeOK
<1>4. \A r : r \in Regions' <=> r \in Regions \/ r = re \/ r = rd
  <2>1. \A r : r \in Regions' <=> \E x \in Descriptors' : r = EntryRegion(x) \/ r = DataRegion(x)
    BY DEF Regions, Descriptors, EntryRegion, DataRegion
  <2>2. QED
    BY <1>1, <1>2, <2>1, RegionsMembers
<1>5. \A r \in Regions : r.from \in Nat /\ r.to \in Nat /\ r.to <= len
  BY <1>2, RegionType DEF IInv, RegionInv
<1>6. \A r \in Regions' : r.to <= Len(buf')
  BY <1>3, <1>4, <1>5
<1>7. ASSUME NEW p \in 1 .. Len(buf')
      PROVE  \E r \in Regions' : /\ r.from < p /\ p <= r.to
                                 /\ \A q \in Regions' : q.from < p /\ p <= q.to => q = r
  <2>1. CASE p <= len
    <3>1. p \in 1 .. Len(buf)
      BY <1>2, <1>3, <2>1
    <3>2. PICK r \in Regions : /\ r.from < p /\ p <= r.to
                               /\ \A q \in Regions : q.from < p /\ p <= q.to => q = r
      BY <3>1 DEF RegionInv, RegionsTile
    <3>3. ~(re.from < p) /\ ~(rd.from < p)
      BY <1>3, <2>1
    <3>4. QED
      BY <1>4, <3>2, <3>3
  <2>2. CASE len < p /\ p <= len + esize
    <3>1. ~(rd.from < p) /\ \A q \in Regions : ~(p <= q.to)
      BY <1>3, <1>5, <2>2
    <3>2. QED
      BY <1>3, <1>4, <2>2, <3>1
  <2>3. CASE len + esize < p
    <3>1. ~(p <= re.to) /\ \A q \in Regions : ~(p <= q.to)
      BY <1>3, <1>5, <2>3
    <3>2. rd.from < p /\ p <= rd.to
      BY <1>3, <2>3
    <3>3. QED
      BY <1>4, <3>1, <3>2
  <2>4. QED
    BY <1>3, <2>1, <2>2, <2>3
<1>8. QED
  BY <1>6, <1>7 DEF RegionInv, RegionsTile

\* For every schema and all sizes of writes, every byte PhysicalExpr::Flush has
\* appended to the rowgroup buffer belongs to the entry points or the data of
\* exactly one segment, at every moment of the encoding and not only at its end:
\* the offset Flush counts and the length of the buffer never part, not even
\* around the fields of a struct.
THEOREM RegionsAlwaysTile == Spec => []RegionsTile
<1>1. Init => RegionInv
  <2> SUFFICES ASSUME Init PROVE RegionInv
    OBVIOUS
  <2>1. Len(buf) = 0 /\ Regions = {}
    BY DEF Init, Regions
  <2>2. QED
    BY <2>1 DEF RegionInv, RegionsTile
<1>2. IInv /\ IInv' /\ RegionInv /\ [Next]_vars => RegionInv'
  <2> SUFFICES ASSUME IInv, IInv', RegionInv, [Next]_vars PROVE RegionInv'
    OBVIOUS
  <2>1. CASE DumpSegment
    BY <2>1, DumpSegmentTiles DEF IInv
  <2>2. CASE AppendRowgroup
    <3>1. Len(buf') = 0 /\ Regions' = {}
      BY <2>2 DEF AppendRowgroup, Regions
    <3>2. QED
      BY <3>1 DEF RegionInv, RegionsTile
  <2>3. CASE ExecuteVector \/ OpenColumn \/ CloseColumn \/ Terminated \/ UNCHANGED vars
    <3>1. UNCHANGED <<buf, sds>>
      BY <2>3 DEF ExecuteVector, OpenColumn, CloseColumn, Terminated, vars, flushVars
    <3>2. QED
      BY <3>1 DEF RegionInv, RegionsTile, Regions
  <2>4. QED
    BY <2>1, <2>2, <2>3 DEF Next
<1>3. RegionInv => RegionsTile
  BY DEF RegionInv
<1>4. QED
  BY <1>1, <1>2, <1>3, Inductive, PTL DEF Spec

-----------------------------------------------------------------------------
(* The columns *)

\* Flush enters the columns in their order, at places that never go back.
OffsetsOrdered ==
  /\ \A c \in Columns : c < next => cds[c].column_offset <= Len(buf)
  /\ \A c, d \in Columns : c < d /\ d < next => cds[c].column_offset <= cds[d].column_offset

\* A column Flush has left ends in the buffer.
ClosedInside == \A c \in Columns : Closed(c) => End(c) <= Len(buf)

\* It ends before the next column outside it begins.
ClosedApart ==
  \A c, d \in Columns : c < d /\ d < next /\ Closed(c) /\ c \notin Above[d] => End(c) <= cds[d].column_offset

\* It ends no earlier than a column inside it.
ClosedAround ==
  \A c, d \in Columns : c < d /\ Closed(c) /\ Closed(d) /\ c \in Above[d] => End(d) <= End(c)

\* All columns Flush has entered since it entered one that it has not left are
\* inside that one.
OpenAround == \A c \in Above[at], d \in Columns : c <= d /\ d < next => c \in Above[d]

NestInv == OffsetsOrdered /\ ClosedInside /\ ClosedApart /\ ClosedAround /\ OpenAround

\* The descriptors of the columns hold numbers.
LEMMA ColumnTypes ==
  ASSUME TypeOK
  PROVE  /\ \A c \in Columns : cds[c].column_offset \in Int /\ End(c) \in Int
         /\ Len(buf) \in Nat /\ next \in Nat /\ at \in 0 .. NumColumns /\ at < next
         /\ Columns \subseteq Nat /\ Above[at] \subseteq Columns
<1>1. \A c \in Columns : cds[c].column_offset \in Nat /\ cds[c].total_size \in Int
  BY DEF TypeOK, ColumnDescriptor
<1>2. at \in 0 .. NumColumns
  BY DEF TypeOK
<1>3. Above[at] \subseteq Columns
  BY <1>2, AboveFacts, SchemaAssumption DEF Columns
<1>4. QED
  BY <1>1, <1>2, <1>3, SchemaAssumption, SMTT(30) DEF TypeOK, End, Columns

\* Entering a column keeps the nesting: it begins where all columns left so far
\* have ended, and inside the columns that are still open.
LEMMA OpenColumnNests == TypeOK /\ TypeOK' /\ NestInv /\ OpenColumn => NestInv'
<1> SUFFICES ASSUME TypeOK, TypeOK', NestInv, OpenColumn PROVE NestInv'
  OBVIOUS
<1>1. PICK n : n = next
  OBVIOUS
<1>2. /\ n \in Columns /\ Parent[n] = at /\ at' = n /\ next' = n + 1 /\ buf' = buf
      /\ cds' = [cds EXCEPT ![n].column_offset = Len(buf)]
  BY <1>1 DEF OpenColumn
<1>3. Above[n] = {n} \cup Above[at]
  BY <1>2, AboveDef
<1>4. /\ cds'[n].column_offset = Len(buf)
      /\ \A c \in Columns : c # n => cds'[c] = cds[c] /\ End(c)' = End(c)
  <2>1. cds \in [Columns -> ColumnDescriptor]
    BY DEF TypeOK
  <2>2. /\ cds'[n] = [cds[n] EXCEPT !.column_offset = Len(buf)]
        /\ \A c \in Columns : c # n => cds'[c] = cds[c]
    BY <1>2, <2>1
  <2>3. cds[n] \in ColumnDescriptor
    BY <1>2, <2>1
  <2>4. cds'[n].column_offset = Len(buf)
    BY <2>2, <2>3 DEF ColumnDescriptor
  <2>5. QED
    BY <2>2, <2>4 DEF End
<1>5. \A c \in Columns : Closed(c)' => Closed(c) /\ c < n /\ c # n
  <2> SUFFICES ASSUME NEW c \in Columns, Closed(c)' PROVE Closed(c) /\ c < n /\ c # n
    OBVIOUS
  <2>1. c < n + 1 /\ c \notin Above[n]
    BY <1>2 DEF Closed
  <2>2. c # n /\ c \notin Above[at]
    BY <1>3, <2>1
  <2>3. n \in Nat /\ c \in Nat
    BY <1>1, ColumnTypes
  <2>4. QED
    BY <1>1, <2>1, <2>2, <2>3 DEF Closed
<1>6. OffsetsOrdered'
  <2>1. \A c \in Columns : c # n => cds'[c].column_offset = cds[c].column_offset
    BY <1>4
  <2>2. /\ Len(buf) \in Nat /\ n \in Nat /\ Columns \subseteq Nat
        /\ \A c \in Columns : cds[c].column_offset \in Int
    BY <1>1, ColumnTypes
  <2>3. \A c \in Columns : c < n => cds[c].column_offset <= Len(buf)
    BY <1>1 DEF NestInv, OffsetsOrdered
  <2>4. \A c \in Columns : c < n + 1 => cds'[c].column_offset <= Len(buf)
    <3> SUFFICES ASSUME NEW c \in Columns, c < n + 1 PROVE cds'[c].column_offset <= Len(buf)
      OBVIOUS
    <3>1. CASE c = n
      <4>1. cds'[c].column_offset = Len(buf)
        BY <1>4, <3>1
      <4>2. QED
        BY <2>2, <4>1
    <3>2. CASE c # n
      <4>1. c < n
        BY <2>2, <3>2
      <4>2. cds'[c].column_offset = cds[c].column_offset
        BY <2>1, <3>2
      <4>3. QED
        BY <2>3, <4>1, <4>2
    <3>3. QED
      BY <3>1, <3>2
  <2>5. ASSUME NEW c \in Columns, NEW d \in Columns, c < d, d < n + 1
        PROVE  cds'[c].column_offset <= cds'[d].column_offset
    <3>1. c < n /\ c # n
      BY <2>2, <2>5
    <3>2. CASE d = n
      BY <1>4, <2>1, <2>3, <3>1, <3>2
    <3>3. CASE d # n
      <4>1. d < n
        <5>1. d \in Nat /\ n \in Nat
          BY <2>2
        <5>2. QED
          BY <5>1, <2>5, <3>3
      <4>2. cds[c].column_offset <= cds[d].column_offset
        <5>1. d < next
          BY <1>1, <4>1
        <5>2. QED
          BY <2>5, <5>1 DEF NestInv, OffsetsOrdered
      <4>3. QED
        BY <2>1, <3>1, <3>3, <4>2
    <3>4. QED
      BY <3>2, <3>3
  <2>6. QED
    BY <1>2, <2>4, <2>5 DEF OffsetsOrdered
<1>7. ClosedInside'
  BY <1>2, <1>4, <1>5 DEF NestInv, ClosedInside
<1>8. ClosedApart'
  <2> SUFFICES ASSUME NEW c \in Columns, NEW d \in Columns,
                      c < d, d < next', Closed(c)', c \notin Above[d]
               PROVE  End(c)' <= cds'[d].column_offset
    BY DEF ClosedApart
  <2>1. Closed(c) /\ c # n /\ End(c)' = End(c)
    BY <1>4, <1>5
  <2>2. CASE d = n
    BY <1>4, <2>1, <2>2 DEF NestInv, ClosedInside
  <2>3. CASE d # n
    <3>1. d < next
      BY <1>1, <1>2, <2>3, ColumnTypes
    <3>2. QED
      BY <1>4, <2>1, <2>3, <3>1 DEF NestInv, ClosedApart
  <2>4. QED
    BY <2>2, <2>3
<1>9. ClosedAround'
  BY <1>4, <1>5 DEF NestInv, ClosedAround
<1>10. OpenAround'
  <2> SUFFICES ASSUME NEW c \in Above[n], NEW d \in Columns, c <= d, d < n + 1
               PROVE  c \in Above[d]
    BY <1>2 DEF OpenAround
  <2>1. CASE d = n
    BY <2>1
  <2>2. CASE d # n
    <3>1. d < next /\ c # n
      BY <1>1, <1>2, <2>2, ColumnTypes
    <3>2. c \in Above[at]
      BY <1>3, <3>1
    <3>3. QED
      BY <3>1, <3>2 DEF NestInv, OpenAround
  <2>3. QED
    BY <2>1, <2>2
<1>11. QED
  BY <1>6, <1>7, <1>8, <1>9, <1>10 DEF NestInv

\* Leaving a column keeps the nesting: it ends where the buffer ends, and all
\* columns entered since are inside it.
LEMMA CloseColumnNests == TypeOK /\ TypeOK' /\ NestInv /\ CloseColumn => NestInv'
<1> SUFFICES ASSUME TypeOK, TypeOK', NestInv, CloseColumn PROVE NestInv'
  OBVIOUS
<1>1. PICK a : a = at
  OBVIOUS
<1>2. /\ a # 0 /\ at' = Parent[a] /\ next' = next /\ buf' = buf
      /\ cds' = [cds EXCEPT ![a].total_size = TotalSize(a)]
  BY <1>1 DEF CloseColumn, ReturnsTo
<1>3. a \in Columns /\ a < next
  BY <1>1, <1>2 DEF TypeOK, Columns
<1>4. Above[a] = {a} \cup Above[Parent[a]] /\ a \notin Above[Parent[a]]
  <2>1. Parent[a] \in 0 .. NumColumns /\ Parent[a] < a
    BY <1>3, SchemaAssumption
  <2>2. Above[Parent[a]] \subseteq 1 .. Parent[a]
    BY <2>1, AboveFacts
  <2>3. a \notin 1 .. Parent[a]
    BY <1>3, <2>1, SchemaAssumption DEF Columns
  <2>4. QED
    BY <1>3, <2>2, <2>3, AboveDef
<1>5. /\ \A c \in Columns : cds'[c].column_offset = cds[c].column_offset
      /\ \A c \in Columns : c # a => End(c)' = End(c)
      /\ End(a)' = Len(buf)
  <2>1. cds \in [Columns -> ColumnDescriptor]
    BY DEF TypeOK
  <2>2. cds[a] \in ColumnDescriptor /\ Len(buf) \in Nat
    BY <1>3, <2>1, SMTT(30) DEF TypeOK
  <2>3. PICK x : x = TotalSize(a)
    OBVIOUS
  <2>4. x = Len(buf) - cds[a].column_offset
    BY <2>3 DEF TotalSize
  <2>5. /\ cds'[a] = [cds[a] EXCEPT !.total_size = x]
        /\ \A c \in Columns : c # a => cds'[c] = cds[c]
    BY <1>2, <1>3, <2>1, <2>3
  <2>6. cds'[a].column_offset = cds[a].column_offset /\ cds'[a].total_size = x
    BY <2>2, <2>5 DEF ColumnDescriptor
  <2>7. cds[a].column_offset + x = Len(buf)
    BY <2>2, <2>4 DEF ColumnDescriptor
  <2>8. End(a)' = Len(buf)
    BY <2>6, <2>7 DEF End
  <2>9. QED
    BY <2>5, <2>6, <2>8 DEF End
<1>6. \A c \in Columns : Closed(c)' => c = a \/ Closed(c)
  BY <1>1, <1>2, <1>4 DEF Closed
<1>7. OffsetsOrdered'
  BY <1>2, <1>5 DEF NestInv, OffsetsOrdered
<1>8. ClosedInside'
  BY <1>2, <1>5, <1>6, ColumnTypes DEF NestInv, ClosedInside
<1>9. ClosedApart'
  <2> SUFFICES ASSUME NEW c \in Columns, NEW d \in Columns,
                      c < d, d < next, Closed(c)', c \notin Above[d]
               PROVE  End(c)' <= cds[d].column_offset
    BY <1>2, <1>5 DEF ClosedApart
  <2>1. CASE c = a
    <3>1. c \in Above[at] /\ c <= d
      BY <1>1, <1>4, <2>1, ColumnTypes
    <3>2. QED
      BY <3>1 DEF NestInv, OpenAround
  <2>2. CASE c # a
    BY <1>5, <1>6, <2>2 DEF NestInv, ClosedApart
  <2>3. QED
    BY <2>1, <2>2
<1>10. ClosedAround'
  <2> SUFFICES ASSUME NEW c \in Columns, NEW d \in Columns,
                      c < d, Closed(c)', Closed(d)', c \in Above[d]
               PROVE  End(d)' <= End(c)'
    BY DEF ClosedAround
  <2>1. c # d
    BY ColumnTypes
  <2>2. CASE c = a
    BY <1>5, <1>6, <2>1, <2>2 DEF NestInv, ClosedInside
  <2>3. CASE d = a
    <3>1. Closed(c)
      BY <1>6, <2>1, <2>3
    <3>2. c \in Above[at]
      BY <1>1, <2>3
    <3>3. QED
      BY <3>1, <3>2 DEF Closed
  <2>4. CASE c # a /\ d # a
    BY <1>5, <1>6, <2>4 DEF NestInv, ClosedAround
  <2>5. QED
    BY <2>2, <2>3, <2>4
<1>11. OpenAround'
  BY <1>1, <1>2, <1>4 DEF NestInv, OpenAround
<1>12. QED
  BY <1>7, <1>8, <1>9, <1>10, <1>11 DEF NestInv

\* For every nesting of structs, a column descriptor spans the descriptors of
\* the fields below it and overlaps no other: what PhysicalExpr::Flush takes
\* for column_offset before it descends into the fields, and for total_size
\* after, belong together.
THEOREM ColumnsAlwaysNest == Spec => []ColumnsNest
<1>1. Init => NestInv
  <2> SUFFICES ASSUME Init PROVE NestInv
    OBVIOUS
  <2>1. next = 1 /\ at = 0 /\ Above[at] = {}
    BY AboveDef DEF Init
  <2>2. \A c \in Columns : ~(c < next)
    BY <2>1, SchemaAssumption DEF Columns
  <2>3. QED
    BY <2>1, <2>2 DEF NestInv, OffsetsOrdered, ClosedInside, ClosedApart, ClosedAround, OpenAround, Closed
<1>2. TypeOK /\ TypeOK' /\ IInv /\ NestInv /\ [Next]_vars => NestInv'
  <2> SUFFICES ASSUME TypeOK, TypeOK', IInv, NestInv, [Next]_vars PROVE NestInv'
    OBVIOUS
  <2>1. CASE OpenColumn
    BY <2>1, OpenColumnNests
  <2>2. CASE CloseColumn
    BY <2>2, CloseColumnNests
  <2>3. CASE DumpSegment
    <3>1. UNCHANGED <<next, at, cds>>
      BY <2>3 DEF DumpSegment
    <3>2. Len(buf) <= Len(buf')
      <4>1. PICK sd \in SegmentDescriptor : Len(buf') = Len(buf) + sd.entrypoint_size + sd.data_size
        BY <2>3, DumpSegmentAdds
      <4>2. QED
        BY <4>1, ColumnTypes DEF SegmentDescriptor
    <3>3. Len(buf') \in Nat
      BY DEF TypeOK
    <3>4. OffsetsOrdered'
      BY <3>1, <3>2, <3>3, ColumnTypes DEF NestInv, OffsetsOrdered
    <3>5. ClosedInside'
      BY <3>1, <3>2, <3>3, ColumnTypes DEF NestInv, ClosedInside, Closed, End
    <3>6. QED
      BY <3>1, <3>4, <3>5 DEF NestInv, ClosedApart, ClosedAround, OpenAround, Closed, End
  <2>4. CASE AppendRowgroup
    <3>1. next' = 1 /\ at' = 0 /\ Above[at'] = {}
      BY <2>4, AboveDef DEF AppendRowgroup
    <3>2. \A c \in Columns : ~(c < next')
      BY <3>1, SchemaAssumption DEF Columns
    <3>3. QED
      BY <3>1, <3>2 DEF NestInv, OffsetsOrdered, ClosedInside, ClosedApart, ClosedAround, OpenAround, Closed
  <2>5. CASE ExecuteVector \/ Terminated \/ UNCHANGED vars
    <3>1. UNCHANGED <<next, at, cds, buf>>
      BY <2>5 DEF ExecuteVector, Terminated, vars, flushVars
    <3>2. QED
      BY <3>1 DEF NestInv, OffsetsOrdered, ClosedInside, ClosedApart, ClosedAround, OpenAround, Closed, End
  <2>6. QED
    BY <2>1, <2>2, <2>3, <2>4, <2>5 DEF Next
<1>3. TypeOK /\ NestInv => ColumnsNest
  <2> SUFFICES ASSUME TypeOK, NestInv, NEW c \in Columns, NEW d \in Columns,
                      c < d, Closed(c), Closed(d)
               PROVE  IF c \in Above[d]
                        THEN cds[c].column_offset <= cds[d].column_offset /\ End(d) <= End(c)
                        ELSE End(c) <= cds[d].column_offset
    BY DEF ColumnsNest
  <2>1. d < next
    BY DEF Closed
  <2>2. QED
    BY <2>1 DEF NestInv, OffsetsOrdered, ClosedApart, ClosedAround
<1>4. QED
  BY <1>1, <1>2, <1>3, Inductive, TypeCorrect, PTL DEF Spec
=============================================================================
