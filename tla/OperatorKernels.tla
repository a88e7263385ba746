---------------------------- MODULE OperatorKernels ----------------------------
(***************************************************************************)
(* The data of one column through the operators of one expression: each    *)
(* vector is encoded into a chunk of segments, what holds for the whole    *)
(* column is stored when the column ends, and a reader materializes the    *)
(* vectors in order.                                                       *)
(*                                                                         *)
(* A value is an integer of Width bits, or a string, a sequence of bytes.  *)
(* A vector has VecSz values in NumLanes lanes.                            *)
(***************************************************************************)
EXTENDS Integers, Sequences, Functions, FiniteSetsExt, Vectors

CONSTANTS
  Inputs,      \* the columns: an expression, the cells, Null among them or not, and
               \* for FSST the bytes its symbol table has a code for
  Null,        \* what IsNull recognises
  NullText,    \* the string stored for nulls before the first value
  VecSz,       \* CFG::VEC_SZ
  NumLanes,    \* lanes of a transposed vector
  Width,       \* bits of the type of the values, and of indexes
  OfsWidth,    \* bits of ofs_t
  MaxWidth,    \* the bit width find_best_option begins with, 64
  PosBits,     \* bits of vec_idx_t
  ExcLimit,    \* LOCAL_EXC_LIMIT_C
  Escape,      \* FSST: the code before a byte the table has none for
  Slack        \* FSST: bytes kept free in the output besides two for each byte, 7

\* The types of integers: the least value and the bits.
ValueType  == [least |-> 0 - 2 ^ (Width - 1), bits |-> Width]
IndexType  == [least |-> 0, bits |-> Width]
OffsetType == [least |-> 0, bits |-> OfsWidth]

OfType(t) == t.least .. (t.least + 2 ^ t.bits - 1)

NumericExprs == {"FFOR", "FFOR_SLPATCH", "DELTA", "RLE", "RLE_SLPATCH", "DICT",
                 "DICT_SLPATCH", "FREQUENCY", "CROSS_RLE", "NULL"}
StringExprs  == {"STR", "STR_RLE", "STR_DICT", "STR_FREQUENCY", "STR_CROSS_RLE",
                 "STR_FSST", "STR_FSST_DICT"}

VARIABLES
  column,   \* history: the expression of the column, its cells, the symbol table of
            \* FSST, and the bytes NullMap() points at, whatever they are in the tail
  chunks,   \* the entry-point based segments, a record of their pieces for each vector
  block,    \* the block-based segments, filled by Finalize
  out       \* TypedCol::data, or FLSStrColumn::length_arr and byte_arr

vars == <<column, chunks, block, out>>

\* In the following c is a column.
IsString(c) == c.expr \in StringExprs
None        == [none |-> TRUE]
NumVecs(c)  == (Len(c.rows) + VecSz - 1) \div VecSz

-----------------------------------------------------------------------------
(* The column as it is ingested *)

\* TypedCol::data, nulls stored as the value before them, the last vector filled
\* up with the last value.
Data(c) == StoredAs(c.rows, Null, IF IsString(c) THEN NullText ELSE 0, VecSz)

VecOf(s, v) == VectorOf(s, v, VecSz)

\* Some positions of s in order, and the values there.
InOrder(s, positions) == Kept([i \in DOMAIN s |-> i], positions)

ValuesAt(s, positions) ==
  LET at == InOrder(s, positions) IN [k \in DOMAIN at |-> s[at[k]]]

\* PopulateBiMap and GetStatistics: the values in the order they appear first.
Keys(d) == ValuesAt(d, {i \in DOMAIN d : \A j \in 1 .. i - 1 : d[j] # d[i]})

KeyOf(d, x) == (CHOOSE k \in DOMAIN Keys(d) : Keys(d)[k] = x) - 1

Occurrences(d, x) == {i \in DOMAIN d : d[i] = x}

\* The value that reaches the highest frequency first.  Strings are inserted
\* once each, so that the first one has reached it.
MostFrequent(c) ==
  LET d == Data(c)
      n(x) == Cardinality(Occurrences(d, x))
  IN  IF IsString(c) THEN d[1]
      ELSE CHOOSE x \in Range(d) : \A y \in Range(d) \ {x} :
             n(x) > n(y) \/ (n(x) = n(y) /\ Max(Occurrences(d, x)) < Max(Occurrences(d, y)))

-----------------------------------------------------------------------------
(* Integers of some type, packed *)

\* Mutant: a sum is kept as it is.
FitPlain(type, x) == x

\* What an integer is in the type: the kernels add and subtract in the unsigned
\* type of the same width, which wraps, and the result is read as the type again.
Fit(type, x) == type.least + ((x - type.least) % 2 ^ type.bits)

CountBits(type, max, min) ==
  LET delta == (max - min) % 2 ^ type.bits
  IN  CHOOSE b \in 0 .. type.bits : delta < 2 ^ b /\ (b = 0 \/ delta >= 2 ^ (b - 1))

Ffor(s, base, bw) ==
  [base |-> base, bw |-> bw, packed |-> [i \in DOMAIN s |-> (s[i] - base) % 2 ^ bw]]

Unffor(type, f) == [i \in DOMAIN f.packed |-> Fit(type, f.packed[i] + f.base)]

-----------------------------------------------------------------------------
(* enc_analyze_opr *)

\* Mutant: the deltas of null cells are left out too.
LiveNotNull(s, isNull, is_rsum) == {s[i] : i \in {j \in DOMAIN s : ~ isNull[j]}}

\* The values that count for the bit width.
Live(s, isNull, is_rsum) == {s[i] : i \in {j \in DOMAIN s : is_rsum \/ ~ isNull[j]}}

\* Without patches: the range of all live values; null cells become the least.
Analyze(type, s, isNull, is_rsum) ==
  LET live == Live(s, isNull, is_rsum)
      min  == IF live = {} THEN 0 ELSE Min(live)
  IN  [bw    |-> IF live = {} THEN 0 ELSE CountBits(type, Max(live), min),
       base  |-> min,
       data  |-> [i \in DOMAIN s |-> IF isNull[i] /\ ~ is_rsum THEN min ELSE s[i]]]

\* Option::size, in bits.
OptionSize(type, bw, n) == VecSz * bw + n * (type.bits + PosBits)

OutOf(s, lo, hi) == Cardinality({i \in DOMAIN s : s[i] < lo \/ s[i] > hi})

\* Mutant: as many exceptions as the limit are taken.
WithinLimitOrAt(n) == n <= ExcLimit

WithinLimit(n) == n < ExcLimit

\* Mutant: the outer loop stops before the last value of the histogram.
OptionsButLast(s) ==
  {o \in Range(s) \X Range(s) : o[1] <= o[2] /\ o[1] # Max(Range(s))}

\* The pairs of values of the histogram.
Options(s) == {o \in Range(s) \X Range(s) : o[1] <= o[2]}

\* The first of the smallest options, null cells or not, if it is smaller than
\* leaving the values as they are.
BestOption(type, s) ==
  LET Size(o) == OptionSize(type, CountBits(type, o[2], o[1]), OutOf(s, o[1], o[2]))
      able == {o \in Options(s) : /\ WithinLimit(OutOf(s, o[1], o[2]))
                                  /\ Size(o) < OptionSize(type, MaxWidth, 0)}
      First(o, p) == o[1] < p[1] \/ (o[1] = p[1] /\ o[2] <= p[2])
      best == CHOOSE o \in able : \A p \in able : Size(o) < Size(p) \/ (Size(o) = Size(p) /\ First(o, p))
  IN  IF able = {} THEN [bw |-> MaxWidth, base |-> 0]
      ELSE [bw |-> CountBits(type, best[2], best[1]), base |-> best[1]]

\* is_exception: the difference is taken modulo the width, so that values
\* beyond the end of the type may be within the range of the base.
IsException(type, o, x) ==
  o.bw < type.bits /\ (x - o.base) % 2 ^ type.bits >= 2 ^ o.bw

\* The values at some positions, stored apart from the others with their
\* positions, which count from 0.
Apart(s, apart) ==
  LET positions == InOrder(s, apart)
  IN  [k \in DOMAIN positions |-> [pos |-> positions[k] - 1, val |-> s[positions[k]]]]

Vals(exceptions) == [k \in DOMAIN exceptions |-> exceptions[k].val]

\* With patches.
AnalyzePatched(type, s, isNull, is_rsum) ==
  LET o == BestOption(type, s)
      apart == {i \in DOMAIN s : IsException(type, o, s[i]) /\ (is_rsum \/ ~ isNull[i])}
  IN  [bw   |-> o.bw,
       base |-> o.base,
       data |-> [i \in DOMAIN s |-> IF isNull[i] /\ ~ is_rsum THEN o.base ELSE s[i]],
       exceptions |-> Apart(s, apart)]

FforOf(a) == Ffor(a.data, a.base, a.bw)

\* dec_slpatch_opr::Patch
Patch(s, exceptions) ==
  PatchedAt(s, [k \in DOMAIN exceptions |-> exceptions[k].pos], Vals(exceptions))

-----------------------------------------------------------------------------
(* Transposed vectors and running sums *)

Rows == VecSz \div NumLanes

\* The rows of a lane are consecutive values of the vector: what transpose_i
\* does to the 1024 positions, with fewer lanes.
Transpose(s) ==
  [k \in 1 .. VecSz |-> s[((k - 1) % NumLanes) * Rows + (k - 1) \div NumLanes + 1]]

Untranspose(s) ==
  [i \in 1 .. VecSz |-> s[((i - 1) % Rows) * NumLanes + (i - 1) \div Rows + 1]]

\* The first row of each lane is stored as it is, and its delta is zero.
Bases(t) == [l \in 1 .. NumLanes |-> t[l]]

Unrsum(type, t) ==
  [k \in 1 .. VecSz |-> IF k <= NumLanes THEN 0 ELSE Fit(type, t[k] - t[k - NumLanes])]

InLane(t, l) == [r \in 1 .. Rows |-> t[(r - 1) * NumLanes + l]]

\* rsum: the running sums of each lane.
Rsum(type, bases, deltas) ==
  [k \in 1 .. VecSz |->
     LET lane == ((k - 1) % NumLanes) + 1
         row  == ((k - 1) \div NumLanes) + 1
     IN  Fit(type, bases[lane] + Sums(InLane(deltas, lane))[row])]

-----------------------------------------------------------------------------
(* Runs *)

Starts(s) == {i \in DOMAIN s : i = 1 \/ s[i] # s[i - 1]}

RunStarts(s) == InOrder(s, Starts(s))

\* RLE::encode: a value for each run, and for each position the number of its run.
RleVals(s) == ValuesAt(s, Starts(s))
RleIdxs(s) == [i \in DOMAIN s |-> Max({k \in DOMAIN RunStarts(s) : RunStarts(s)[k] <= i}) - 1]

\* Mutant: the last run ends with the last complete vector of rows.
LengthsShort(s) ==
  LET starts == RunStarts(s)
  IN  [k \in DOMAIN starts |->
         (IF k = Len(starts) THEN Max({starts[k] + 1, Len(s) - VecSz + 1}) ELSE starts[k + 1]) - starts[k]]

\* The runs of the column, whatever vectors they lie in.
Lengths(s) ==
  LET starts == RunStarts(s)
  IN  [k \in DOMAIN starts |->
         (IF k = Len(starts) THEN Len(s) + 1 ELSE starts[k + 1]) - starts[k]]

\* find_rle_segment: the run in which vector v begins.
FindRleSegment(lengths, v) ==
  LET beyond == {k \in DOMAIN lengths : Sums(lengths)[k] > v * VecSz}
  IN  IF beyond = {} THEN Len(lengths) ELSE Min(beyond)

\* The loop of decode_rle_range: what has been taken after each run.
TakeRuns(lengths, values, start, offset) ==
  LET taken[k \in 0 .. Len(lengths)] ==
        IF k < start THEN <<>>
        ELSE LET available == lengths[k] - (IF k = start THEN offset ELSE 0)
                 needed    == VecSz - Len(taken[k - 1])
             IN  taken[k - 1] \o [i \in 1 .. Min({available, needed}) |-> values[k]]
  IN  taken[Len(lengths)]

DecodeRleRange(lengths, values, v) ==
  LET start == FindRleSegment(lengths, v)
  IN  TakeRuns(lengths, values, start, v * VecSz - Sums(lengths)[start - 1])

-----------------------------------------------------------------------------
(* Strings: bytes one after the other, and where each string ends *)

Bytes(strings)  == Joined(strings)
EndsOf(lengths) == [k \in DOMAIN lengths |-> Sums(lengths)[k]]
Ends(strings)   == EndsOf(LengthsOf(strings))

Between(bytes, from, to) == [i \in 1 .. to - from |-> bytes[from + i]]

\* The string of index k, from 0: it begins where the one before it ends.
Slice(bytes, ends, k) == Between(bytes, IF k = 0 THEN 0 ELSE ends[k], ends[k + 1])

\* With a first offset of zero, rle_val_offsets.
SliceFromZero(bytes, offsets, k) == Between(bytes, offsets[k + 1], offsets[k + 2])

AllStrings(bytes, ends) == [k \in DOMAIN ends |-> Slice(bytes, ends, k - 1)]

-----------------------------------------------------------------------------
(* FSST: the symbol table is the library's, and may lack any byte *)

\* A code for a byte of the table, the byte itself after an escape otherwise.
\* Symbols of several bytes would only make it shorter.
Code(symbols, string) ==
  Joined([i \in DOMAIN string |-> IF string[i] \in symbols THEN <<string[i]>> ELSE <<Escape, string[i]>>])

Codes(symbols, strings) == [k \in DOMAIN strings |-> Code(symbols, strings[k])]

\* fsst_decompress: a code that is no symbol announces a byte.
Decompress(symbols, codes) ==
  LET escape[n \in 0 .. Len(codes)] ==
        IF n = 0 THEN FALSE ELSE ~ escape[n - 1] /\ codes[n] \notin symbols
  IN  ValuesAt(codes, {n \in DOMAIN codes : ~ escape[n]})

\* fsst_byte_arr and fsst_length_arr: empty for nulls, other than byte_arr.
FsstData(c) ==
  [i \in DOMAIN Data(c) |-> IF i <= Len(c.rows) /\ c.rows[i] = Null THEN <<>> ELSE Data(c)[i]]

\* enc_fsst_opr: maximum_n_bytes_p_value * CFG::VEC_SZ * 2
FsstCapacity(c) == Max({Len(Data(c)[i]) : i \in DOMAIN Data(c)}) * VecSz * 2

\* fsst_compress: the strings encoded before one for which there may not be room.
NEncoded(c, strings, ends) ==
  LET full == {k \in DOMAIN strings :
                 2 * Len(strings[k]) + Slack > FsstCapacity(c) - (ends[k] - Len(Code(c.table, strings[k])))}
  IN  IF full = {} THEN VecSz ELSE Min(full) - 1

\* enc_fsst_opr::Encode: fsst_encoded_offset_arr is as before from the string on
\* that has not been encoded.
FsstOffsets(codes, n, before) ==
  [k \in 1 .. VecSz |-> IF n = VecSz \/ k <= n THEN Ends(codes)[k] ELSE before[k]]

-----------------------------------------------------------------------------
(* Encoding *)

\* transpose, rsum, analyze and ffor.
EncodeSums(type, s, isNull) ==
  LET t == Transpose(s)
  IN  [bases |-> Bases(t), ffor |-> FforOf(Analyze(type, Unrsum(type, t), isNull, TRUE))]

EncodeSumsPatched(type, s, isNull) ==
  LET t == Transpose(s)
      a == AnalyzePatched(type, Unrsum(type, t), isNull, TRUE)
  IN  [bases |-> Bases(t), ffor |-> FforOf(a), exceptions |-> a.exceptions]

EncodeFfor(type, s, isNull) == [ffor |-> FforOf(Analyze(type, s, isNull, FALSE))]

EncodeFforPatched(type, s, isNull) ==
  LET a == AnalyzePatched(type, s, isNull, FALSE)
  IN  [ffor |-> FforOf(a), exceptions |-> a.exceptions]

FsstChunk(c, v, before) ==
  LET strings == VecOf(FsstData(c), v)
      codes   == Codes(c.table, strings)
      ends    == FsstOffsets(codes, NEncoded(c, strings, Ends(codes)), before)
  IN  [offsets |-> ends,
       bytes |-> Between(Bytes(codes), 0, ends[VecSz]),
       sums  |-> EncodeSumsPatched(OffsetType, ends, VecOf(c.nulls, v))]

\* The indexes of keys, and of the runs of a vector.
DictOf(d, s) == [i \in DOMAIN s |-> KeyOf(d, s[i])]

Others(s, x) == {i \in DOMAIN s : s[i] # x}

EncodeChunk(c, v, before) ==
  LET e      == c.expr
      s      == VecOf(Data(c), v)
      isNull == VecOf(c.nulls, v)
      runs   == RleVals(s)
      dict   == DictOf(Data(c), s)
      kept   == {i \in DOMAIN s : ~ isNull[i]}
      others == Apart(s, Others(s, MostFrequent(c)))
  IN  CASE e = "FFOR"          -> EncodeFfor(ValueType, s, isNull)
        [] e = "FFOR_SLPATCH"  -> EncodeFforPatched(ValueType, s, isNull)
        [] e = "DELTA"         -> EncodeSums(ValueType, s, isNull)
        [] e = "RLE"           -> [sums |-> EncodeSums(IndexType, RleIdxs(s), isNull), vals |-> runs]
        [] e = "RLE_SLPATCH"   -> [sums |-> EncodeSumsPatched(IndexType, RleIdxs(s), isNull), vals |-> runs]
        [] e = "STR_RLE"       -> [sums  |-> EncodeSums(IndexType, RleIdxs(s), isNull),
                                   bytes |-> Bytes(runs), offsets |-> <<0>> \o Ends(runs)]
        [] e = "DICT"          -> EncodeFfor(IndexType, dict, isNull)
        [] e \in {"DICT_SLPATCH", "STR_DICT", "STR_FSST_DICT"} -> EncodeFforPatched(IndexType, dict, isNull)
        [] e = "FREQUENCY"     -> [exceptions |-> Apart(s, Others(s, MostFrequent(c)) \cap kept)]
        [] e = "STR_FREQUENCY" -> [pos |-> [k \in DOMAIN others |-> others[k].pos],
                                   bytes |-> Bytes(Vals(others)), ends |-> Ends(Vals(others))]
        [] e = "NULL"          -> [exceptions |-> Apart(s, kept)]
        [] e = "STR"           -> [bytes |-> Bytes(s), lengths |-> LengthsOf(s)]
        [] e = "STR_FSST"      -> FsstChunk(c, v, before)
        [] e \in {"CROSS_RLE", "STR_CROSS_RLE"} -> None

FinalizeBlock(c) ==
  LET e    == c.expr
      d    == Data(c)
      keys == Keys(d)
      runs == RleVals(d)
  IN  CASE e \in {"DICT", "DICT_SLPATCH"} -> [vals |-> keys]
        [] e = "STR_DICT"      -> [bytes |-> Bytes(keys), ends |-> Ends(keys)]
        [] e = "STR_FSST_DICT" -> [bytes |-> Bytes(Codes(c.table, keys)), ends |-> Ends(Codes(c.table, keys)),
                                   symbols |-> c.table]
        [] e = "STR_FSST"      -> [symbols |-> c.table]
        [] e = "FREQUENCY"     -> [val |-> MostFrequent(c)]
        [] e = "STR_FREQUENCY" -> [bytes |-> MostFrequent(c), size |-> Len(MostFrequent(c))]
        [] e = "CROSS_RLE"     -> [vals |-> runs, lengths |-> Lengths(d)]
        [] e = "STR_CROSS_RLE" -> [bytes |-> Bytes(runs), ends |-> Ends(runs), lengths |-> Lengths(d)]
        [] OTHER               -> None

-----------------------------------------------------------------------------
(* Decoding *)

DecodeSums(type, c) == Rsum(type, c.bases, Unffor(type, c.ffor))

DecodeSumsPatched(type, c) == Rsum(type, c.bases, Patch(Unffor(type, c.ffor), c.exceptions))

\* The value of each index, from 0.
Lookup(vals, idxs) == [i \in DOMAIN idxs |-> vals[idxs[i] + 1]]

Slices(bytes, ends, idxs) == [i \in DOMAIN idxs |-> Slice(bytes, ends, idxs[i])]

\* dec_frequency_str_opr::Materialize: the exceptions are met in order.
MergeFrequent(c, b) ==
  LET Before(i) == Cardinality({k \in DOMAIN c.pos : c.pos[k] < i - 1})
      IsNext(i) == Before(i) < Len(c.pos) /\ c.pos[Before(i) + 1] = i - 1
  IN  [i \in 1 .. VecSz |->
         IF IsNext(i) THEN Slice(c.bytes, c.ends, Before(i)) ELSE Between(b.bytes, 0, b.size)]

\* dec_fsst_opr::Decode: the codes of a string follow those of the one before.
FsstStrings(c, symbols) ==
  LET ends == Untranspose(DecodeSumsPatched(OffsetType, c.sums))
  IN  [i \in 1 .. VecSz |-> Decompress(symbols, Slice(c.bytes, ends, i - 1))]

\* The values materialized for vector v, of the chunk c and the column's block b.
DecodeChunk(e, v, c, b) ==
  CASE e = "FFOR"          -> Unffor(ValueType, c.ffor)
    [] e = "FFOR_SLPATCH"  -> Patch(Unffor(ValueType, c.ffor), c.exceptions)
    [] e = "DELTA"         -> Untranspose(DecodeSums(ValueType, c))
    [] e = "RLE"           -> Untranspose(Lookup(c.vals, DecodeSums(IndexType, c.sums)))
    [] e = "RLE_SLPATCH"   -> Untranspose(Lookup(c.vals, DecodeSumsPatched(IndexType, c.sums)))
    [] e = "STR_RLE"       -> LET idxs == Untranspose(DecodeSums(IndexType, c.sums))
                              IN  [i \in DOMAIN idxs |-> SliceFromZero(c.bytes, c.offsets, idxs[i])]
    [] e = "DICT"          -> Lookup(b.vals, Unffor(IndexType, c.ffor))
    [] e = "DICT_SLPATCH"  -> Lookup(b.vals, Patch(Unffor(IndexType, c.ffor), c.exceptions))
    [] e = "STR_DICT"      -> Slices(b.bytes, b.ends, Patch(Unffor(IndexType, c.ffor), c.exceptions))
    [] e = "STR_FSST_DICT" -> LET idxs == Patch(Unffor(IndexType, c.ffor), c.exceptions)
                              IN  [i \in DOMAIN idxs |-> Decompress(b.symbols, Slice(b.bytes, b.ends, idxs[i]))]
    [] e = "STR_FSST"      -> FsstStrings(c, b.symbols)
    [] e = "FREQUENCY"     -> Patch([i \in 1 .. VecSz |-> b.val], c.exceptions)
    [] e = "STR_FREQUENCY" -> MergeFrequent(c, b)
    [] e = "NULL"          -> Patch([i \in 1 .. VecSz |-> 0], c.exceptions)
    [] e = "STR"           -> AllStrings(c.bytes, EndsOf(c.lengths))
    [] e = "CROSS_RLE"     -> DecodeRleRange(b.lengths, b.vals, v)
    [] e = "STR_CROSS_RLE" -> DecodeRleRange(b.lengths, AllStrings(b.bytes, b.ends), v)

-----------------------------------------------------------------------------
(* The column *)

NoOutput == [data |-> <<>>, lengths |-> <<>>, bytes |-> <<>>]

\* null_map_arr has an entry for each row; what NullMap() finds behind them, in
\* the part of the last vector that is filled up, may be anything.
Init ==
  /\ \E input \in Inputs : \E behind \in [1 .. NumVecs(input) * VecSz - Len(input.rows) -> BOOLEAN] :
       column = [expr |-> input.expr, rows |-> input.rows, table |-> input.table,
                 nulls |-> [i \in DOMAIN input.rows |-> input.rows[i] = Null] \o behind]
  /\ chunks = <<>>
  /\ block = None
  /\ out = NoOutput

Decoded == (IF IsString(column) THEN Len(out.lengths) ELSE Len(out.data)) \div VecSz

\* What fsst_encoded_offset_arr holds: the offsets of the vector before, and at
\* first anything, zeros or another number everywhere.
Scratch ==
  IF column.expr # "STR_FSST" THEN {<<>>}
  ELSE IF chunks # <<>> THEN {chunks[Len(chunks)].offsets}
  ELSE {[k \in 1 .. VecSz |-> x] : x \in {0, VecSz}}

\* PointTo and the operators of the expression, for the next vector.
EncodeVector ==
  /\ Len(chunks) < NumVecs(column) /\ out = NoOutput
  /\ \E before \in Scratch : chunks' = Append(chunks, EncodeChunk(column, Len(chunks), before))
  /\ UNCHANGED <<column, block, out>>

\* PhysicalExpr::Finalize, after the last vector.
Finalize ==
  /\ Len(chunks) = NumVecs(column) /\ block = None /\ FinalizeBlock(column) # None
  /\ block' = FinalizeBlock(column)
  /\ UNCHANGED <<column, chunks, out>>

\* What materializing some values adds to a column of the reader.
Extended(o, c, vals) ==
  IF IsString(c) THEN [o EXCEPT !.lengths = @ \o LengthsOf(vals), !.bytes = @ \o Bytes(vals)]
  ELSE [o EXCEPT !.data = @ \o vals]

\* RowgroupReader::materialize, one vector after the other.
MaterializeVector ==
  /\ Len(chunks) = NumVecs(column) /\ (block = None => FinalizeBlock(column) = None)
  /\ Decoded < NumVecs(column)
  /\ out' = Extended(out, column, DecodeChunk(column.expr, Decoded, chunks[Decoded + 1], block))
  /\ UNCHANGED <<column, chunks, block>>

Next == EncodeVector \/ Finalize \/ MaterializeVector

Spec == Init /\ [][Next]_vars

-----------------------------------------------------------------------------
(* Assumptions *)

ASSUME SizesAssumption ==
  /\ VecSz \in Nat \ {0} /\ NumLanes \in Nat \ {0} /\ VecSz % NumLanes = 0
  /\ Width \in Nat \ {0} /\ OfsWidth \in Nat /\ OfsWidth >= Width
  /\ MaxWidth \in Nat /\ MaxWidth >= OfsWidth
  /\ PosBits \in Nat /\ ExcLimit \in Nat \ {0} /\ Slack \in Nat
  /\ VecSz <= 2 ^ Width          \* an index of a run fits
  /\ Null \notin Int /\ Null \notin Seq(Nat) /\ NullText \in Seq(Nat)

CellsOf(e) == {Null} \cup (IF e \in StringExprs THEN Seq(Nat) ELSE OfType(ValueType))

ASSUME InputsAssumption ==
  \A input \in Inputs :
    /\ input.expr \in NumericExprs \cup StringExprs
    /\ input.rows \in Seq(CellsOf(input.expr)) /\ input.rows # <<>>
    /\ Escape \notin input.table

\* The wizard takes a type of index that has room for the keys.
ASSUME KeysAssumption ==
  \A input \in Inputs :
    input.expr \in {"DICT", "DICT_SLPATCH", "STR_DICT", "STR_FSST_DICT"} =>
      Len(Keys(Data(input))) <= 2 ^ Width

\* What FSST relies on, and does not check: the strings of a vector fit its
\* buffer, and offsets into their codes fit their type.
ASSUME FsstAssumption ==
  \A input \in Inputs : input.expr = "STR_FSST" =>
    \A v \in 0 .. NumVecs(input) - 1 :
      LET strings == VecOf(FsstData(input), v)
          ends    == Ends(Codes(input.table, strings))
      IN  NEncoded(input, strings, ends) = VecSz /\ ends[VecSz] < 2 ^ OfsWidth

-----------------------------------------------------------------------------
(* Properties *)

\* The values of a column that can be addressed: FLSStrColumn's strings follow
\* one another in byte_arr.
Values == IF IsString(column) THEN AllStrings(out.bytes, EndsOf(out.lengths)) ELSE out.data

\* Whole vectors are encoded and materialized; numbers are of their type, and
\* strings take up all bytes.
KernelsTypeOK ==
  /\ column.expr \in NumericExprs \cup StringExprs
  /\ column.nulls \in Seq(BOOLEAN) /\ Len(column.nulls) = NumVecs(column) * VecSz
  /\ Len(chunks) <= NumVecs(column)
  /\ out.data \in Seq(OfType(ValueType)) /\ Len(out.data) % VecSz = 0
  /\ out.lengths \in Seq(Nat) /\ Len(out.lengths) % VecSz = 0
  /\ Sums(out.lengths)[Len(out.lengths)] = Len(out.bytes)

\* A row that is not null is materialized as it was ingested, by every
\* expression, wherever its vector begins and whatever NullMap() finds behind
\* the rows.
RoundTrip ==
  \A i \in 1 .. Decoded * VecSz :
    i <= Len(column.rows) => (column.rows[i] # Null => Values[i] = column.rows[i])

Indexed == {"DICT_SLPATCH", "STR_DICT", "STR_FSST_DICT"}
Summed  == {"RLE_SLPATCH", "STR_FSST"}
Patched(c) == c.expr \in {"FFOR_SLPATCH"} \cup Indexed \cup Summed

SlpatchOf(c, chunk) == IF c.expr \in Summed THEN chunk.sums ELSE chunk

AnalyzedType(c) ==
  IF c.expr = "FFOR_SLPATCH" THEN ValueType ELSE IF c.expr = "STR_FSST" THEN OffsetType ELSE IndexType

\* The integers analyze gets for vector v and its chunk.
Analyzed(c, v, chunk) ==
  LET s == VecOf(Data(c), v)
  IN  CASE c.expr = "FFOR_SLPATCH" -> s
        [] c.expr \in Indexed      -> DictOf(Data(c), s)
        [] c.expr = "RLE_SLPATCH"  -> Unrsum(IndexType, Transpose(RleIdxs(s)))
        [] c.expr = "STR_FSST"     -> Unrsum(OffsetType, Transpose(chunk.offsets))

\* The exceptions of a vector are fewer than LOCAL_EXC_LIMIT_C, at increasing
\* positions: is_exception, which takes values beyond the end of the type for
\* in range, finds no more than find_best_option has counted by comparing.
FewExceptions ==
  Patched(column) => \A v \in DOMAIN chunks :
    LET x == SlpatchOf(column, chunks[v]).exceptions
    IN  /\ Len(x) < ExcLimit
        /\ \A k \in 1 .. Len(x) - 1 : x[k].pos < x[k + 1].pos

\* A vector takes no more bits than with any other range of values that leaves
\* fewer than LOCAL_EXC_LIMIT_C of them out, nor than unpatched.
NoBetterRange ==
  Patched(column) => \A v \in DOMAIN chunks :
    LET chunk == SlpatchOf(column, chunks[v])
        s == Analyzed(column, v - 1, chunks[v])
        t == AnalyzedType(column)
    IN  \A lo \in OfType(t) : \A bw \in 0 .. t.bits :
          LET n == OutOf(s, lo, lo + 2 ^ bw - 1)
          IN  n < ExcLimit =>
                OptionSize(t, chunk.ffor.bw, Len(chunk.exceptions)) <= OptionSize(t, bw, n)

\* The runs stored for the whole column are as long as they can be and cover
\* its vectors completely.
RunsTile ==
  column.expr \in {"CROSS_RLE", "STR_CROSS_RLE"} /\ block # None =>
    LET vals == IF IsString(column) THEN AllStrings(block.bytes, block.ends) ELSE block.vals
        n    == Len(block.lengths)
    IN  /\ Len(vals) = n
        /\ \A k \in 1 .. n : block.lengths[k] > 0
        /\ \A k \in 1 .. n - 1 : vals[k] # vals[k + 1]
        /\ Sums(block.lengths)[n] = NumVecs(column) * VecSz
=============================================================================
