--------------------------- MODULE RowgroupEncoder ---------------------------
(***************************************************************************)
(* The write path of a table, from the segments the operators fill to the  *)
(* bytes of the file, and the views through which a reader finds each      *)
(* vector again: Encoder::encode, PhysicalExpr::Flush, Segment and         *)
(* SegmentView.                                                            *)
(*                                                                         *)
(* Encoder::encode handles the rowgroups one after the other and, in a     *)
(* rowgroup, the columns one after the other: it executes the column's     *)
(* expression once per vector, which appends to the segments of the column *)
(* (and, for a struct, of all the fields below it), then finalizes and     *)
(* flushes the expression into the rowgroup buffer, descending into a      *)
(* struct's fields before the struct's own segments.  The columns are      *)
(* numbered in the order in which Flush enters them.                       *)
(*                                                                         *)
(* A byte is a cell that says which write produced it.  Segments a later   *)
(* operator has made temporary are left out: Flush returns early on them   *)
(* and PhysicalExpr::Flush skips them (ExpressionChains has them).         *)
(***************************************************************************)
EXTENDS Integers, Sequences

CONSTANTS
  NumColumns,     \* number of columns, struct columns and their fields included
  Parent,         \* Parent[c]: the struct column c is a field of, 0 for none
  Segments,       \* Segments[c]: the kinds of the segments of c, in flush order
  Sizes,          \* Sizes[kind]: the sizes in bytes one write to such a segment may have
  Capacity,       \* n_vector_per_rowgroup
  HeaderSize,     \* sizeof(FileHeader)
  U8Max, U16Max,  \* the largest values of the two narrow entry point types
  MaxRowgroups    \* bound: rowgroups of the table

Columns == 1 .. NumColumns
SegKinds == {"vector", "block"}

ASSUME SchemaAssumption ==
  /\ NumColumns \in Nat \ {0}
  /\ Parent \in [Columns -> 0 .. NumColumns]
  /\ \A c \in Columns : Parent[c] < c
  /\ Segments \in [Columns -> Seq(SegKinds)]
  /\ \A c \in Columns : Parent[c] # 0 => Segments[Parent[c]] = <<>>

ASSUME SizeAssumption ==
  /\ Sizes \in [SegKinds -> SUBSET Nat]
  /\ Capacity \in Nat \ {0}
  /\ HeaderSize \in Nat
  /\ MaxRowgroups \in Nat \ {0}
  /\ U8Max \in Nat /\ U16Max \in Nat /\ U8Max < U16Max

\* A segment is named by its column and its position in the flush order.
SegIds == UNION {{c} \X (1 .. Len(Segments[c])) : c \in Columns}

\* The column of the rowgroup a column belongs to: itself, or the outermost
\* struct around it.
Root[c \in Columns] == IF Parent[c] = 0 THEN c ELSE Root[Parent[c]]

\* A column and the struct columns around it.
Above[c \in 0 .. NumColumns] == IF c = 0 THEN {} ELSE {c} \cup Above[Parent[c]]

VARIABLES
  file,                 \* the bytes of the file
  rgds,                 \* the rowgroup descriptors completed so far
  cur_rowgroup_offset,  \* local of Encoder::encode
  table_binary_size,    \* m_table_binary_size, 0 until encode sets it
  status,               \* "encoding" or "encoded"
  n_vec,                \* m_n_vec of the rowgroup being encoded
  vec_idx,              \* vectors executed for the column of the rowgroup at hand
  next,                 \* the column Flush enters next
  at,                   \* the column whose Flush is running innermost, 0 for none
  current_offset,       \* local of that Flush
  buf,                  \* the rowgroup buffer
  eps,                  \* Segment::entry_points
  data,                 \* Segment::buf
  cds,                  \* column_offset and total_size of the column descriptors
  sds,                  \* their segment_descriptors
  sizes,                \* history: the sizes of the writes to each segment
  written               \* history: sizes, for each completed rowgroup

segmentVars == <<eps, data, sizes>>
flushVars   == <<next, at, current_offset, buf, cds, sds>>
tableVars   == <<file, rgds, cur_rowgroup_offset, table_binary_size, status, written>>
vars        == <<segmentVars, flushVars, tableVars, n_vec, vec_idx>>

-----------------------------------------------------------------------------
(* Bytes *)

HeaderCell            == <<"header", 0, 0, 0, 0>>
DataCell(rg, id, v)   == <<"data", rg, id[1], id[2], v>>
\* Byte k of an entry point of width w that holds x.
EntryCell(w, x, k)    == <<"entry", w, x, k, 0>>
Cell == {"header", "data", "entry"} \X Nat \X Nat \X Nat \X Nat

-----------------------------------------------------------------------------
(* Segments *)

LastEnd(e) == IF e = <<>> THEN 0 ELSE e[Len(e)]

\* flush_entrypoint: the entry points are the ends of the vectors.
FlushEntryPoint(e, size) == Append(e, LastEnd(e) + size)

\* The bytes one write appends to the segment's buffer.
Payload(rg, id, v, size) == [k \in 1 .. size |-> DataCell(rg, id, v)]

EntryPointTypes == {"U8", "U16", "U32"}
Width(t) == CASE t = "U8" -> 1 [] t = "U16" -> 2 [] t = "U32" -> 4

\* Mutant: the type is detected from the first entry point.
SmallestTypeOfFirst(e) ==
  IF e[1] <= U8Max THEN "U8" ELSE IF e[1] <= U16Max THEN "U16" ELSE "U32"

\* detect_smallest_entry_point_type: only the last entry point is looked at.
SmallestEntryPointType(e) ==
  IF LastEnd(e) <= U8Max THEN "U8" ELSE IF LastEnd(e) <= U16Max THEN "U16" ELSE "U32"

\* static_cast<T>.  A segment buffer holds less than 2^32 bytes, so that a
\* 32-bit entry point is exact.
Cast(t, x) == CASE t = "U8"  -> x % (U8Max + 1)
                [] t = "U16" -> x % (U16Max + 1)
                [] t = "U32" -> x

\* cast_entry_points and the reinterpretation of helper_buffer as bytes.
EntryBytes(t, e) ==
  [k \in 1 .. Len(e) * Width(t) |->
     EntryCell(Width(t), Cast(t, e[((k - 1) \div Width(t)) + 1]), ((k - 1) % Width(t)) + 1)]

\* Mutant: the offset is not moved past the entry points.
DescribedAtOnce(offset, e, d) ==
  [entry_point_t     |-> SmallestEntryPointType(e),
   entrypoint_offset |-> offset,
   entrypoint_size   |-> Len(e) * Width(SmallestEntryPointType(e)),
   data_offset       |-> offset,
   data_size         |-> Len(d)]

\* The descriptor Segment::Dump makes of the entry points e and the bytes d.
Described(offset, e, d) ==
  LET t     == SmallestEntryPointType(e)
      esize == Len(e) * Width(t)
  IN  [entry_point_t     |-> t,
       entrypoint_offset |-> offset,
       entrypoint_size   |-> esize,
       data_offset       |-> offset + esize,
       data_size         |-> Len(d)]

\* The bytes it appends.
Dumped(e, d) == EntryBytes(SmallestEntryPointType(e), e) \o d

Blank        == [id \in SegIds |-> <<>>]
NoDescriptor == [column_offset |-> 0, total_size |-> 0]
rg           == Len(rgds) + 1

-----------------------------------------------------------------------------
(* Encoder::encode *)

Init ==
  /\ file = [k \in 1 .. HeaderSize |-> HeaderCell]
  /\ rgds = <<>>
  /\ cur_rowgroup_offset = HeaderSize
  /\ table_binary_size = 0
  /\ status = "encoding"
  /\ n_vec \in 1 .. Capacity
  /\ vec_idx = 0
  /\ next = 1
  /\ at = 0
  /\ current_offset = 0
  /\ buf = <<>>
  /\ eps = Blank /\ data = Blank /\ sizes = Blank
  /\ cds = [c \in Columns |-> NoDescriptor]
  /\ sds = [c \in Columns |-> <<>>]
  /\ written = <<>>

\* A write of sz[id] bytes to each segment id of ids.  A vector segment is
\* written once per vector, a block-based one once per rowgroup.
Write(ids, sz) ==
  /\ eps'   = [id \in SegIds |-> IF id \in ids THEN FlushEntryPoint(eps[id], sz[id]) ELSE eps[id]]
  /\ data'  = [id \in SegIds |-> IF id \in ids
                                 THEN data[id] \o Payload(rg, id, Len(eps[id]) + 1, sz[id])
                                 ELSE data[id]]
  /\ sizes' = [id \in SegIds |-> IF id \in ids THEN Append(sizes[id], sz[id]) ELSE sizes[id]]

VectorSegments(c) == {id \in SegIds : Root[id[1]] = c /\ Segments[id[1]][id[2]] = "vector"}
BlockSegments(c)  == {id \in SegIds : id[1] = c /\ Segments[c][id[2]] = "block"}

\* Mutant: one vector too many.
VectorsLeftOrNone == vec_idx <= n_vec

\* The loop condition of encode.
VectorsLeft == vec_idx < n_vec

\* ExprExecutor::execute on one vector of the column of the rowgroup at hand.
ExecuteVector ==
  /\ status = "encoding" /\ at = 0 /\ next \in Columns
  /\ VectorsLeft
  /\ \E sz \in [VectorSegments(next) -> Sizes["vector"]] : Write(VectorSegments(next), sz)
  /\ vec_idx' = vec_idx + 1
  /\ UNCHANGED <<flushVars, tableVars, n_vec>>

\* Finalize, which writes the block-based segments, and the entry of Flush: for
\* a column of the rowgroup after its last vector, for a field of a struct from
\* the visitor of the struct's Flush.
OpenColumn ==
  /\ status = "encoding" /\ next \in Columns
  /\ Parent[next] = at
  /\ at = 0 => ~VectorsLeft
  /\ \E sz \in [BlockSegments(next) -> Sizes["block"]] : Write(BlockSegments(next), sz)
  /\ cds' = [cds EXCEPT ![next].column_offset = Len(buf)]
  /\ current_offset' = Len(buf)
  /\ at' = next
  /\ next' = next + 1
  /\ UNCHANGED <<buf, sds, tableVars, n_vec, vec_idx>>

\* The visitor has been through the operators of the innermost column, that is,
\* through the fields below it.
FieldsDone == next \in Columns => Parent[next] # at

\* Segment::Dump of the next segment of the column, and the push_back of its
\* descriptor.
DumpSegment ==
  /\ at # 0 /\ FieldsDone
  /\ Len(sds[at]) < Len(Segments[at])
  /\ LET id == <<at, Len(sds[at]) + 1>>
         sd == Described(current_offset, eps[id], data[id])
     IN  /\ buf' = buf \o Dumped(eps[id], data[id])
         /\ current_offset' = current_offset + sd.entrypoint_size + sd.data_size
         /\ sds' = [sds EXCEPT ![at] = Append(@, sd)]
  /\ UNCHANGED <<next, at, cds, segmentVars, tableVars, n_vec, vec_idx>>

\* Mutant: only the column's own segments are counted, not its fields.
OwnSize(c) == IF sds[c] = <<>> THEN 0 ELSE Len(buf) - cds[c].column_offset

TotalSize(c) == Len(buf) - cds[c].column_offset

\* Mutant: the visitor of a struct calls the Flush it is in.
ReturnsToField(c) == IF Parent[c] = 0 THEN 0 ELSE c

\* The column whose Flush has called the one of c, 0 for encode itself.
ReturnsTo(c) == Parent[c]

\* The end of Flush, back in the Flush of the struct around the column or in
\* encode, which goes on with vector 0 of the next column of the rowgroup.
CloseColumn ==
  /\ at # 0 /\ FieldsDone
  /\ Len(sds[at]) = Len(Segments[at])
  /\ cds' = [cds EXCEPT ![at].total_size = TotalSize(at)]
  /\ at' = ReturnsTo(at)
  /\ vec_idx' = IF ReturnsTo(at) = 0 THEN 0 ELSE vec_idx
  /\ UNCHANGED <<next, current_offset, buf, sds, segmentVars, tableVars, n_vec>>

\* Mutant: the offset stays at the first rowgroup.
OffsetKept == cur_rowgroup_offset

OffsetAfter == cur_rowgroup_offset + Len(buf)

\* IO::append of the rowgroup buffer, the rowgroup's offset and size, and
\* Buf::Reset.  Only the last rowgroup of a table may be short; the table has
\* another rowgroup, or encode sets m_table_binary_size and returns.
AppendRowgroup ==
  /\ status = "encoding" /\ at = 0 /\ next = NumColumns + 1
  /\ file' = file \o buf
  /\ rgds' = Append(rgds, [m_n_vec  |-> n_vec,
                           m_size   |-> Len(buf),
                           m_offset |-> cur_rowgroup_offset,
                           cds      |-> cds,
                           sds      |-> sds])
  /\ written' = Append(written, sizes)
  /\ cur_rowgroup_offset' = OffsetAfter
  /\ buf' = <<>>
  /\ next' = 1
  /\ eps' = Blank /\ data' = Blank /\ sizes' = Blank
  /\ cds' = [c \in Columns |-> NoDescriptor]
  /\ sds' = [c \in Columns |-> <<>>]
  /\ \/ /\ n_vec = Capacity /\ rg < MaxRowgroups
        /\ n_vec' \in 1 .. Capacity
        /\ UNCHANGED <<status, table_binary_size>>
     \/ /\ status' = "encoded"
        /\ table_binary_size' = cur_rowgroup_offset'
        /\ UNCHANGED n_vec
  /\ UNCHANGED <<at, current_offset, vec_idx>>

\* encode has returned.
Terminated == status = "encoded" /\ UNCHANGED vars

Next ==
  \/ ExecuteVector \/ OpenColumn \/ DumpSegment \/ CloseColumn \/ AppendRowgroup
  \/ Terminated

Spec == Init /\ [][Next]_vars

\* encode is one call in one thread.
FairSpec == Spec /\ WF_vars(Next)

-----------------------------------------------------------------------------
(* The reader's views *)

\* IO::range_read of a rowgroup: the span every ColumnView of it is given.
RowgroupSpan(f, rgd) == SubSeq(f, rgd.m_offset + 1, rgd.m_offset + rgd.m_size)

\* make_segment_view: the two sub-spans a segment descriptor names.
SegmentView(span, sd) ==
  [entry_point_t |-> sd.entry_point_t,
   entry_span    |-> SubSeq(span, sd.entrypoint_offset + 1, sd.entrypoint_offset + sd.entrypoint_size),
   data_span     |-> SubSeq(span, sd.data_offset + 1, sd.data_offset + sd.data_size)]

\* Entry point k (from 1): the value its bytes make up, or -1, which stands for
\* whatever value bytes of something else make up.
EntryPoint(view, k) ==
  LET w     == Width(view.entry_point_t)
      first == (k - 1) * w + 1
      x     == view.entry_span[first][3]
  IN  IF \A j \in 1 .. w : view.entry_span[first + j - 1] = EntryCell(w, x, j) THEN x ELSE -1

NumEntries(view) == Len(view.entry_span) \div Width(view.entry_point_t)

\* get_offset, SegmentView::PointTo and SegmentView::Size.
Offset(view, v) == IF v = 0 THEN 0 ELSE EntryPoint(view, v)
ViewSize(view, v) == Offset(view, v + 1) - Offset(view, v)
VectorBytes(view, v) == SubSeq(view.data_span, Offset(view, v) + 1, Offset(view, v + 1))

-----------------------------------------------------------------------------
(* What the reader reads back, as a refinement mapping *)

ReadSegment(view) == [v \in 1 .. NumEntries(view) |-> VectorBytes(view, v - 1)]

ReadRowgroup(f, rgd) ==
  [id \in SegIds |-> ReadSegment(SegmentView(RowgroupSpan(f, rgd), rgd.sds[id[1]][id[2]]))]

Stored == [i \in 1 .. Len(rgds) |-> ReadRowgroup(file, rgds[i])]

\* What is being written, as the abstract store sees it.
Handed(i, ws) ==
  [id \in SegIds |-> [v \in 1 .. Len(ws[id]) |-> Payload(i, id, v, ws[id][v])]]

VS == INSTANCE VectorStore WITH Keys <- SegIds, store <- Stored

\* The file the encoder writes, read through the descriptors, is a VectorStore:
\* rowgroups appear whole and in order, and appending one never changes what is
\* read from an earlier one (Encoder::encode against SegmentView).
ImplementsVectorStore == VS!Spec

-----------------------------------------------------------------------------
(* Properties *)

SegmentDescriptor ==
  [entry_point_t : EntryPointTypes, entrypoint_offset : Nat, entrypoint_size : Nat,
   data_offset : Nat, data_size : Nat]
ColumnDescriptor == [column_offset : Nat, total_size : Int]
RowgroupDescriptor ==
  [m_n_vec : Nat, m_size : Nat, m_offset : Nat,
   cds : [Columns -> ColumnDescriptor], sds : [Columns -> Seq(SegmentDescriptor)]]

\* Every variable holds a value of the kind the code gives it, and Flush never
\* stands anywhere but in a column it has entered.
TypeOK ==
  /\ file \in Seq(Cell)
  /\ rgds \in Seq(RowgroupDescriptor)
  /\ cur_rowgroup_offset \in Nat
  /\ table_binary_size \in Nat
  /\ status \in {"encoding", "encoded"}
  /\ n_vec \in 1 .. Capacity
  /\ vec_idx \in 0 .. Capacity
  /\ next \in 1 .. NumColumns + 1
  /\ at \in 0 .. NumColumns /\ at < next
  /\ current_offset \in Nat
  /\ buf \in Seq(Cell)
  /\ eps \in [SegIds -> Seq(Nat)]
  /\ data \in [SegIds -> Seq(Cell)]
  /\ sizes \in [SegIds -> Seq(Nat)]
  /\ cds \in [Columns -> ColumnDescriptor]
  /\ sds \in [Columns -> Seq(SegmentDescriptor)]
  /\ written \in Seq([SegIds -> Seq(Nat)])

\* The vectors a reader finds in a completed rowgroup, through the narrowed
\* entry points and the two offsets of the segment descriptor, are the payloads
\* the operators handed to the segment, byte for byte and in order
\* (Segment::Dump against SegmentView::PointTo and Size).
ReadsBack ==
  \A i \in 1 .. Len(rgds) : Stored[i] = Handed(i, written[i])

\* The regions the descriptors of the rowgroup being encoded name.
Regions ==
  {[from |-> sd.entrypoint_offset, to |-> sd.entrypoint_offset + sd.entrypoint_size]
      : sd \in UNION {{sds[c][s] : s \in 1 .. Len(sds[c])} : c \in Columns}}
  \cup
  {[from |-> sd.data_offset, to |-> sd.data_offset + sd.data_size]
      : sd \in UNION {{sds[c][s] : s \in 1 .. Len(sds[c])} : c \in Columns}}

\* The entry points and the data of all segments tile the rowgroup buffer: every
\* byte PhysicalExpr::Flush appended belongs to exactly one region.
RegionsTile ==
  \A p \in 1 .. Len(buf) :
     \E r \in Regions : /\ r.from < p /\ p <= r.to
                        /\ \A q \in Regions : q.from < p /\ p <= q.to => q = r

\* A column descriptor spans exactly its own regions and those of the fields
\* below it: a finished column lies inside a finished column it is a field of,
\* and apart from every other one (column_offset and total_size are taken around
\* the recursion of Flush into the fields).
Closed(c) == c < next /\ c \notin Above[at]
End(c) == cds[c].column_offset + cds[c].total_size
ColumnsNest ==
  \A c, d \in Columns :
     c < d /\ Closed(c) /\ Closed(d) =>
       IF c \in Above[d]
         THEN cds[c].column_offset <= cds[d].column_offset /\ End(d) <= End(c)
         ELSE End(c) <= cds[d].column_offset

\* The completed rowgroups tile the file between the header and the offset at
\* which the footer will be written, so that range_read of one never sees bytes
\* of another.
RowgroupsTile ==
  /\ Len(file) = cur_rowgroup_offset
  /\ \A i \in 1 .. Len(rgds) :
       /\ rgds[i].m_offset = IF i = 1 THEN HeaderSize ELSE rgds[i - 1].m_offset + rgds[i - 1].m_size
       /\ i = Len(rgds) => rgds[i].m_offset + rgds[i].m_size = cur_rowgroup_offset
  /\ status = "encoded" => table_binary_size = Len(file)

\* encode comes to its end: Flush returns from every struct it descends into, for
\* each column and rowgroup.
EncodeReturns == <>(status = "encoded")
=============================================================================
