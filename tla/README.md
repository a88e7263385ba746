# FastLanes: a TLA+ development

FastLanes is a columnar file format and the C++ library that reads and writes it.
The library is single-threaded. Its difficulties are not races but bookkeeping:
several layers agree about positions (offsets, entry points, operand tokens,
indexes of operators) that no type relates, and files are published by a sequence
of appends that can stop anywhere. This directory models those layers in TLA+,
model-checks them with TLC, and proves the central facts with TLAPS.

Paths below are relative to `src/src/` unless they start with another name.

## 1. Inventory

| component | code | state | operations |
|---|---|---|---|
| Connection, table file | `connection.cpp`, `reader/table_reader.cpp`, `flatbuffers/`, `file/`, `footer/table_descriptor.cpp`, `io/` | `m_table`, `m_table_descriptor`, configuration; the files | `read_csv`, `read_json`, `spell`, `to_fls`, `verify_fls`, `read_fls`, `reset`, `inline_footer` |
| Ingestion | `reader/csv_reader.cpp`, `reader/json_reader.cpp`, `table/attribute.cpp` | the rowgroup being filled | one tuple, close a rowgroup, fill the tail |
| Tables in memory | `table/`, `common/bimap*.cpp` | columns, null maps, statistics, bimaps | `Finalize`, `GetStatistics`, `Cast`, `PopulateBiMap` |
| Wizard | `wizard/` | operator and operand tokens of each column descriptor | constant, equality, one-to-one and external-dictionary rules, trial encoding |
| Physical expressions | `expression/` | chains of operators, their buffers, `InterpreterState`, segments | interpret (encode and decode), execute a vector, finalize, flush, materialize |
| Rowgroup encoder | `encoder/encoder.cpp`, `reader/segment.cpp`, `reader/column_view.cpp` | rowgroup buffer, segments, descriptors, offsets | execute vectors, dump segments, append a rowgroup |
| Rowgroup reader | `reader/rowgroup_reader.cpp`, `encoder/materializer.cpp` | decoding expressions of all columns | `get_chunk`, `materialize` |
| Numeric kernels | `expression/analyze_operator*`, `expression/*_operator.cpp`, `primitive/` | the segments of a chunk, the block-based segments of a column | analyse, pack, patch, run-length, transpose, frequency, dictionaries, FSST |
| ALP | `alp/src/encoder.cpp`, `include/alp/`, `expression/alp_expression.cpp` | the sampled combinations, the dictionary of left parts, static scratch arrays | sample, search, encode with exceptions, arrange them for lanes, decode |

How they interact: a connection owns a table and a descriptor. `to_fls` prepares the
table (statistics, casts, bimaps), lets the wizard write tokens into the column
descriptors, and calls `Encoder::encode`, which for each rowgroup and column
builds a chain of operators from the tokens, runs it once per vector and flushes
the segments of the chain into the rowgroup buffer. Operators hand data to each other through raw
pointers into the buffers of earlier operators, and add operand tokens to the
descriptor as they are built. A `TableReader` takes the descriptor from
the file or from `table_descriptor.fbb`, and for each rowgroup builds the decoding
chains from the same tokens. All calls are synchronous; nothing is locked.

What makes each component correct, and what is hard about it:

- **Table file.** A file that `verify_fls` accepts is whole and reads back what it
  was written from, as long as the file and its descriptor are there. Hard: appends
  interrupted anywhere, retries, a connection used again, external descriptors that
  other files replace, open readers.
- **Encoder and segments.** The regions of a rowgroup tile it, descriptors nest,
  each vector reads back byte for byte. Hard: narrowed entry points at their
  limits, empty vectors, block-based segments beside vector segments,
  recursion into structs.
- **Expressions.** Each operator finds its input, its segments and a current buffer.
  Hard: lookup by position, tokens that count segments, in-place patching of
  shared buffers, the prefix of active operators, references between columns.
- **Wizard.** A column replaced by a reference decodes to itself. Hard: nulls, order
  of first appearance, index types, chains of references.
- **Ingestion and tables.** Rows, null maps and vectors stay aligned. Hard: the
  partial last vector, casts.
- **Kernels.** Decoding inverts encoding at every width, and the search for a range of
  values finds the best one. Hard: wrap-around, exceptions, runs across vectors, nulls,
  bytes read behind the null map.
- **ALP.** Each value comes back bit for bit, the special ones too, and the samplings
  find what they look for. Hard: values the sample has missed, exceptions and their
  fillers, scratch arrays that keep the vector before, casts that differ by build.

`PROJECT.json` lists the hazards line by line with the properties that cover them.

## 2. Modules

| module | what it is |
|---|---|
| `RowgroupEncoder` | write path of rowgroups, and the reader's views |
| `VectorStore` | what that write path promises, without offsets |
| `RowgroupEncoderProofs` | theorems about it: types, what is read back, the refinement, the places of segments and columns |
| `ExpressionChains` | operators, interpreters, tokens, chunks, materialization |
| `ExpressionChainsProofs` | theorems about it: types, overloads, tokens, chunks, round trip |
| `RowgroupIngest` | a rowgroup in memory: tuples, nulls, filled tail, casts, bimaps |
| `RowgroupIngestProofs` | theorems about its columns: lengths, types and casts |
| `Wizard` | extends `RowgroupIngest` by the passes that choose operators and relate columns |
| `WizardProofs` | theorems about it: what a column may rest on, what reads back, and that no pass fails |
| `OperatorKernels` | the operators of one expression on the numbers or strings of a column |
| `OperatorKernelsProofs` | theorems about it: round trip, exceptions and ranges, runs |
| `AlpKernels` | ALP, GALP and ALP-RD on the values of a column |
| `AlpKernelsProofs` | theorems about it: round trip, sizes, searches, lanes |
| `Vectors` | what the kernels and the chains say of sequences: kept, joined, summed, patched, cut into vectors |
| `DataLemmas` | lemmas about those, induction with sets in place of predicates, division, powers of two |
| `TableFile` | connections, `to_fls` and its interruptions, readers |
| `FileCatalog` | what `to_fls` and `verify_fls` promise together |
| `TableFileProofs` | theorems about it: types, what verifies is whole, the refinement of `FileCatalog` |
| `MC...` | the small instances TLC checks |

### RowgroupEncoder

A byte is a cell that says which write produced it, so that reading back the right
bytes means reading back the right cells. Columns are numbered in the order in which
`PhysicalExpr::Flush` enters them, with `Parent` for the fields of structs.

| model | code |
|---|---|
| `ExecuteVector` | one turn of the vector loop, `encoder/encoder.cpp:47`; every vector segment of the root column gets a write, block-based ones get theirs with the last vector (`PhysicalExpr::Finalize`) |
| `OpenColumn`, `DumpSegment`, `CloseColumn` | `PhysicalExpr::Flush` and `Segment::Dump`: `column_offset`, the recursion into fields, the two regions of a segment, `total_size` |
| `AppendRowgroup` | `IO::append`, `m_size`, `m_offset`, `buf.Reset()` |
| `SmallestEntryPointType`, `Cast`, `EntryBytes` | narrowing of entry points; `U8Max`, `U16Max` stand for 255 and 65535 |
| `SegmentView`, `Offset`, `VectorBytes` | `make_segment_view`, `SegmentView::PointTo` and `Size` |

Run `rowgroup_encoder`: a flat column and a struct with one field, a block-based and
a vector segment, one or two vectors per rowgroup, two rowgroups, writes of 0, 3, 4
bytes against maxima 3 and 6, so that segments end below, at and above both
limits and vectors may be empty. `ReadsBack`, `RegionsTile`, `ColumnsNest`,
`RowgroupsTile` and the refinement of `VectorStore` hold, and `encode` returns. Larger tables repeat what two
rowgroups, two vectors and one level of nesting already relate: every offset is either the
first or follows another.

### ExpressionChains

The content of a vector is a term: its column, its number, and the transformations
(transposed, delta, with holes for exceptions, index, ...) it has been through. An operator
that combines what does not belong together produces `Junk`. The module has
each chain of `make_enc_*_expr` and `make_dec_*_expr` as a sequence of operator
names, and per operator the rule of its constructor: where its input comes from
(`FollowsCursor`, `FollowsBack`, `BehindBack`, `BehindFirst`), which overloads its
visitor has (`EncAccepts`, `DecAccepts`), which segments it leaves
(`SegmentsOf`), how many operands it takes (`NumOperands`). `SchemasAssumption` says which rowgroups
there are, as the passes of the wizard leave them: what a column rests on is before it, no column equals one that is
itself equal to another, and an index is borrowed from a dictionary with the same type of index. TLC evaluates it for the schemas of the run.

| model | code |
|---|---|
| `ConstructEncoder`, `ConstructDecoder` | one `emplace_back` of an interpreter |
| `ExecuteVector`, `FinalizeAndFlush` | the encoder loop and `extract_segments` |
| `NextExpression` | `ExprExecutor::CountOperator` |
| `GetChunkAt` | `RowgroupReader::get_chunk`, any vector, any order, before and between materializations |
| `StartMaterialize`, `MaterializeVector` | `RowgroupReader::materialize` |

Run `expression_chains`: each of the expressions alone, for each key and index type,
and rowgroups in which columns refer to others (equal columns, external dictionaries, a dictionary
indexed by a column that is itself external, a column shared by two others),
with three vectors, so that a chunk may follow an earlier, a later and the same chunk.
All properties hold; `EveryVectorDelivered` says that a `materialize` that has begun hands over
every vector of every column, also on a reader that served single chunks before. Left out are the patched dictionaries of integers with 32-bit
indexes: the wizard's pool offers them (`wizard/wizard.cpp:384`) and the encoder has them, but the
decoder has no case for them (`expression/interpreter_decoding.cpp:1061`). Such an index needs more
than 65536 distinct values in one rowgroup, hence `set_n_vectors_per_rowgroup` above 64, or a
forced schema pool. The types of plain columns are left out too, and with them `EXP_FREQUENCY_U08`, which the pool of UINT8 offers
(`wizard/wizard.cpp:621`): it is encoded as `u08` (`expression/interpreter_encoding.cpp:1029`) and decoded by an operator for
`i08` (`expression/interpreter_decoding.cpp:1003`), which `material_visitor` has no overload for with a UINT8 column. So `NoUnreachable` says that
the three enumerations agree on the chains of the module, and nothing of these two kinds.

### RowgroupIngest

A cell is an integer, or null. A string of digits is its number, plus a multiple of 2^64 that says how many zeros
lead it, so that "7" and "007" are different cells; other strings are negative codes. `Stoll` is the number alone. `declared` and `tuples` are history: what the file says. The module follows one rowgroup,
since the readers start each with empty columns.

| model | code |
|---|---|
| `IngestTuple` | one turn of the loop of `CsvReader::Read` or `JsonReader::Read`, `TypedIngest`, `FLSStringIngest`; a null is stored as the last value seen, or as 0 or `"NULL"` before the first |
| `EndRowgroup` | `FillMissingValues`; the JSON reader fills nothing (`Format`) |
| `Prepare` | `prepare_rowgroup`: `Finalize`, `GetStatistics`, `Cast`, `PopulateBiMap`; any number of times, as every `to_fls` calls it. No forced schema, which would leave out `Cast` |
| `SmallestSigned`, `CastType`, `CastColumn` | `getSmallestSignedType`, `cast`, `col_cast_visitor`; `ToCast` are the numbers it converts, by `std::stoll` from strings |
| `Numbered` | the keys of `bimap_frequency`, or of a string column's `bimap` |

`H` has half the numbers of each width: 1, 2, 4 and 8 in place of 2^7, 2^15, 2^31 and 2^63. The cells lie on both sides of each limit.
Run `rowgroup_ingest` takes two columns and one vector of two values, filled or not: columns do not
influence each other here, and a second vector repeats the first. A column of strings is cast when all of them are strings of digits, and leading
zeros do not keep it from that (`table/attribute.cpp:288`): "007" is ingested and "7" printed. `CastExact` says that such zeros are all that a
cast loses (`Survives`), and a cell of the run has them. The run `json_tail` shows where this ends:
the last vector of a JSON file is not filled. The schemas and cells of the passing run leave out values that the model, given them,
shows not to survive:

- strings of digits from 2^63 on, for which `std::stoll` throws (`NumeralsAssumption`; `table/rowgroup.cpp:303`);
- strings of digits beyond 32 bits, which are cast to 32 bits (`table/rowgroup.cpp:405`);
- UINT64 from 2^63 on, compared as signed (`table/rowgroup.cpp:381`);
- dates, which become integers and are printed as numbers of days (`table/rowgroup.cpp:418`);
- small numerals, cast to 32 bits first and made smaller when prepared again (`table/rowgroup.cpp:405`).

### Wizard

| model | code |
|---|---|
| `ConstantCheck`, `EqualityCheck`, `NullCheck`, `Map1t1Check`, `ExpressionCheck` | the passes of `rowgroup_check`, one action each; a pass that reaches `FLS_UNREACHABLE` ends in `"failed"` |
| `EqualTo`, `SourceOf` | the two loops over pairs of columns, as the smallest earlier column that qualifies; `SourceOf` is a recursive function, since a column that rests on another is no source |
| `HasEquality`, `HasNull`, `HasExternal`, `HasPool`, `HasDictionary` | the switches and pools by type and index |
| `misread` in `Map1t1Check` | with a string column, `null_map_arr` is read past its end in a rowgroup whose tail was filled; what is found there is any choice |
| `Decoded` | what the materializer gets for a column, given what it rests on |

Run `wizard` has three columns, so that one column may be related to two others, and one to three tuples.
The thresholds are 1/2 for nulls and 1 for dictionaries, in place of 0.95 and 0.25, and dictionaries of
two keys have the smallest index type, so that every operator is reached with three tuples.
The run `gaps` adds columns equal to one that becomes `EXP_NULL`, and wrong values are read back.
The schemas and cells of both runs avoid leading nulls in columns with zeros, where a one-to-one map reads wrong
values back as well (`wizard/wizard.cpp:1071`), and a BOOLEAN column that is one-to-one with another, for which the wizard
takes the best of no expressions, the end of an empty vector, which the model counts as a failure. They also avoid
three kinds of columns for which a pass reaches `FLS_UNREACHABLE`: equal BOOLEANs
(`wizard/wizard.cpp:313`), sparse columns of a type without an `EXP_NULL` (`wizard/wizard.cpp:197`), and FLOAT pairs with
more than an 8-bit dictionary (`wizard/wizard.cpp:1246`).

`ExpressionChains` begins where `Wizard` ends: it takes any combination of operators the passes can leave.
There a shared index is a term; here it is a number that is looked up.

### OperatorKernels

Where `ExpressionChains` has terms, this module has numbers of `Width` bits with wrapping
arithmetic, and strings as sequences of bytes. A behaviour takes one column through one expression: the vectors
are encoded in order, the block-based segments are filled, and the vectors are materialized in order.

| model | code |
|---|---|
| `Init` | the column as ingested: nulls stored as the value before, the tail filled; `column.nulls` is what `NullMap()` points at, any bytes behind the last row (`table/rowgroup.cpp:748`) |
| `EncodeVector` | one turn of the loop of `encoder/encoder.cpp:47` on the operators of the expression: `EncodeFfor`, `EncodeFforPatched` (`analyze_operator.cpp`, `analyze_operator_impl.hpp`), `EncodeSums` (transposition and differences), `RleIdxs`, `FsstChunk`, ... |
| `Finalize` | `FinalizeBlock`: dictionaries, the most frequent value, the runs of cross-RLE |
| `MaterializeVector` | `DecodeChunk`: the decoding operators and `material_visitor`; for cross-RLE the slice of the runs that a vector cuts out |

The run `operator_kernels` has vectors of four values in two lanes. Three bits and positions of one bit are enough for
every way in which a sum, a difference or a range can wrap, and all 4096 vectors are taken; two vectors with a
partial last one and nulls anywhere, and three vectors of two values for runs that begin, end or
span vectors, cover positions. `ExcLimit` is 2 of 4 values; `MaxWidth`, which stands for the 64 bits `find_best_option` begins with, is the width of offsets. `RoundTrip` compares rows; `FewExceptions`
and `NoBetterRange` compare the one-pass search of `find_best_option` with all ranges of values there are.
For strings the "most frequent" value is the first one of the column (`table/rowgroup.cpp:157`), which costs space only.

The buffer of FSST holds two bytes for each byte of the longest string and row (`expression/fsst_expression.cpp:40`), and the compressor keeps
some bytes free besides. With a symbol table in which no byte of a vector of
equally long strings has a symbol, the last string does not fit; nothing but an assertion of debug builds looks
at the number of strings that did (`expression/fsst_expression.cpp:71`), and a row gets the offset of an earlier vector. `NEncoded` and
`Scratch` model this. `FsstAssumption` states what the code relies on: that the strings of each vector fit. The symbol tables of the
run have a code for a byte that every non-empty string has, so that it holds there. `KeysAssumption` is that an index type
holds the number of keys, as the wizard's choice of the type ensures.

### AlpKernels

For ALP a value is NaN, -0.0, or a decimal: an integer in units of `Base^-Digits`, base 3 with four digits. Products with powers
of the base are exact, and adding the magic number or converting to the type loses the last bits from `Magic` on, so that
there are values that a combination encodes exactly, encodes inexactly, or takes out of the range
of integers. `upper` is `ENCODING_UPPER_LIMIT`, below the largest integer as for doubles (126) or beyond all as for floats (500). For ALP-RD a value
is a pattern of five bits.

| model | code |
|---|---|
| `Construct` | `enc_alp_opr`, `encoder::init`: `FirstLevelSample`, `Found`, `TopCombinations` (`find_top_k_combinations`); for ALP-RD `BestCut` and `Dictionaries`, where counts that are equal come in any order |
| `EncodeAlp` | `encoder::encode`: `BestOf` (the search with its early exit), `Encoded`, `ExceptionPositions`, `TmpIndex`, `Filler`, `NotNull`, `Ffor`, and `LaneEnds`, `ByLane` (`primitive/patch/patch.cpp`) for GALP |
| `EncodeWithoutCombination` | the same on a column for which the sampling found none |
| `EncodeRd`, `FinalizeRd` | `enc_alp_rd_opr` |
| `MaterializeVector` | `dec_alp_opr`, `dec_alp_rd_opr`; a thread of GALP decodes what `LanesSeparate` says it may rely on |

`Cast` is the conversion of a floating-point number that does not fit an integer: x86-64 makes it the least integer, ARM the nearest;
the AVX-512 build finds exceptions with masks and leaves the tail of `TMP_INDEX_ARR` as it was. The mask of the
exponent of doubles in the code has 65 digits (`include/alp/constants.hpp`), so that of doubles `WithoutSpecials` replaces -0.0 only, of floats NaN too; a NaN is an exception
in either case, since it equals nothing.

Run `alp_kernels`: vectors of four values of which two are sampled; single vectors of all values with every build and with scratch arrays at rest or not;
five or seven vectors of different shapes, of which every second of the first five is sampled (`MaxSampled`, 100 in the code:
`include/alp/sampler.hpp:16`), so that vectors meet combinations nobody tried on them and the early exit (two worse ones in a row, of up to four) happens; for ALP-RD three vectors with more left parts than
the dictionary has places for. `UpperNeverDecodes`, an assumption TLC evaluates, is what the code relies on to recognise
impossible values: the upper limit decodes to no value that is encoded to it. The columns of the run can be compressed. In the run `alp_scheme`
none of the sampled values can, the sampling sets the scheme to ALP-RD and leaves no combinations (`alp/src/encoder.cpp:344`),
and the encoder, which never reads the scheme, takes elements of an empty vector.

### TableFile

A file is the sequence of its appends; an offset is a position in it. A rowgroup carries the
rowgroup's content and the expressions it was encoded with, and reads back if the
descriptor has the same expressions and these were spelled for this content after
it was prepared: a weaker requirement would make the outcome depend on which wrong expression
happens to fit. `promised` is a history variable.

| model | code |
|---|---|
| `Load`, `Reset`, `InlineFooter`, `Spell` | the calls on an idle connection |
| `StartToFls` | the checks of `to_fls`, `prepare_table`, the call of `spell` |
| `WriteHeader`, `AppendRowgroup`, `WriteDescriptor`, `WriteFooter` | its appends, in order; the external descriptor is a truncating write of another file |
| `Throw`, `Crash` | `to_fls` stops before the next write or inside it; the connection survives or not |
| `ReadFls`, `MaterializeRowgroup`, `CloseReader` | a client that calls `verify_fls` and then `read_fls`; one rowgroup at a time |
| `RemoveFile` | somebody removes a file nobody writes; if a reader has it open, what that reader does next is not followed |

Run `table_file`: two paths in one directory, tables of one and of two
rowgroups, one connection used again and again, one reader. The reader is open while the connection writes the other
path, with a footer inside or next to it, and so while the `table_descriptor.fbb` it was opened with is replaced or torn. `VerifiedComplete`,
`ReaderSeesPublished` and the refinement of
`FileCatalog` hold. The state space is finite without bounds on the number of calls.

What they say is limited in two ways, and a violation run shows for each what is beyond the limit:

- *A file keeps its table until its descriptor is replaced.* `OwnDescriptor` says whether `table_descriptor.fbb` was last written for the
  file, by the history variable `described`. `VerifiedComplete` is about files that have theirs, and `ReaderSeesPublished` about a
  reader that was opened on such a file, whatever becomes of the descriptor afterwards: a reader that loaded it again with every
  rowgroup would see the other file's. `VerifiedReadsBack` has no such condition: in `shared_directory` the second `to_fls`
  overwrites the descriptor of the first file, which still passes `verify_fls`.
- *A connection that holds a descriptor is reset before it reads another table*, as
  the tests and benchmarks do. In `second_load` the new table is encoded with the old
  descriptor.

Also assumed: writes happen or stop `to_fls` (stream errors are not checked by
`io/file.cpp`), a process end loses nothing that was appended, and no two connections
write one path at the same time. Clients call `verify_fls` before `read_fls`, since the constructor of
`TableReader` ignores the statuses of its loads. A client's own `spell()` happens on prepared tables only:
nothing in the repository calls it, and a descriptor spelled before `to_fls` prepares the
table would not fit the prepared columns.

### Fairness

The library runs each call to its end in the thread of its caller and waits for nothing. That is all the fairness assumed,
as weak fairness of the steps inside a call; that a client makes any call is never assumed.

| module | `FairSpec` | property |
|---|---|---|
| `RowgroupEncoder` | the whole module is one call of `Encoder::encode`, so that `WF_vars(Next)` | `EncodeReturns`: the recursion of `Flush` and the loops come to an end |
| `ExpressionChains` | `CallStep`: building chains, running vectors, flushing, the loop of `materialize`; not `GetChunkAt` and `StartMaterialize`, which are calls | `EveryVectorDelivered` |
| `TableFile` | `ToFlsStep(c)` for each connection, and `MaterializeRowgroup`; not `Throw`, `Crash`, nor any call | `PublishedUnlessStopped`: if stops cease at some time, every later `to_fls` publishes its table, whatever the stopped ones have left on the connection and on the disk; `ReaderGetsTable`: a reader that was opened with its file's own descriptor and stays open gets all of its table |

## 3. Proofs

`RowgroupEncoderProofs` proves, for every schema, nesting of structs, number of vectors and
rowgroups, every set of write sizes and all limits of the entry points:

- `TypeCorrect`: `Spec => []TypeOK`.
- `ReadsBackAlways`: `Spec => []ReadsBack`, the vectors read through the
  descriptors of a completed rowgroup are byte for byte those handed over.
- `EncoderImplementsStore`: `Spec => ImplementsVectorStore`.
- `RowgroupsAlwaysTile`: `Spec => []RowgroupsTile`, rowgroups lie in the file without overlaps and gaps.
- `RegionsAlwaysTile`: `Spec => []RegionsTile`, the regions of the segments leave no gap in a rowgroup and do not overlap.
- `ColumnsAlwaysNest`: `Spec => []ColumnsNest`, the bytes of a column contain those of its fields and no others.

`ReadsBack` speaks of completed rowgroups and is not inductive. The strengthening `IInv`
follows the data: the segments of unflushed columns hold the concatenation of their
writes with an entry point at the end of each (`SegmentsFilled`); flushed segments
are `Placed` in the rowgroup buffer where their descriptors say, entry points narrowed
without loss (`SegmentsPlaced`, by `CastExact`: the last entry point is the largest);
the columns entered by `Flush` are those before `next` (`FlushOrder`); the offset that `Flush` counts
is the end of the rowgroup buffer (`OffsetCurrent`); and the file ends with the last rowgroup, and earlier rowgroups stay
readable (`RowgroupsRead`). Growth of the buffer and of the file disturbs nothing
placed before (`PlacedGrow`, `SpanGrow`). TLC checked `IInv` before it was proved. There is one lemma
per action.

`RegionsTile` and `ColumnsNest` are about a rowgroup whose columns are being flushed. Each region begins where the one before ends because
`Segment::Dump` records the end of the buffer and then grows it (`RegionInv`). For nesting, `NestInv` splits pairs of columns by whether each is open
or closed: offsets grow in the order of `Flush`, a closed column lies within every column that is open around it
and apart from one that is not, and an open column reaches to the end of the buffer, wherever that will be.

The assumptions are those of the module: the schema is a forest with parents numbered
before their fields, and `U8Max < U16Max`. That the outermost struct around a column is not numbered after it
follows by induction over the numbers. The induction rules of the library take a predicate as a parameter, which the provers
at hand cannot instantiate. `DataLemmas` states the rules with a set in its place: a set of numbers is all of
`Nat` when no number is the least one outside it, which follows from the well-foundedness of `<`, and a lemma is applied to the
set of the numbers for which the claim holds. It serves for recursive functions too: that one is what its defining equations say is shown by building it up
argument by argument (`Recursion`).

`RowgroupIngestProofs` proves, for every schema, file, size of vectors and of rowgroups:

- `RowsAligned`: each column keeps one null-map entry per tuple and a value per tuple, through
  filling, casts and any number of preparations, whichever reader read the file.
- `VectorsAlwaysComplete`: with the CSV reader, `IngestSpec => []VectorsComplete`. For the JSON reader it is
  false, as `json_tail` shows; the premise `Format = "csv"` is what it takes.

Its `IInv` says how long data and null map are before and after the rowgroup is ended. The arithmetic, that
the filling makes as many whole vectors as `VecCount` rounds up to, is `FillingCompletes`, from the
uniqueness of quotients. Besides `SizesAssumption` nothing is assumed.

About the values:

- `TypesAlwaysOK`: `IngestSpec => []IngestTypeOK`, with any schema and cells.
- `CastAlwaysExact`: `IngestSpec => []CastExact`, a cell prints as it was ingested, less the leading zeros of numerals, and
- `TypesAlwaysFinal`: `IngestSpec => TypesFinal`, both for the files `ExactCells` describes, which are those of the passing run: no DATE, TIMESTAMP or DECIMAL,
  no numeral whose number fits 16 bits or exceeds 32, no integer outside `int64_t`. Each exception is one of the values listed above for `RowgroupIngest` that do not survive.

A sequence of numbers has a greatest and a least element (`Greatest`, `Least`, by induction), `Max` and `Min` find them (`MaxMin`), and a type that holds both holds all
between them (`SmallestHolds`), also of the halves of doubles. So a cast changes no value, and the type chosen for the result is the type chosen before
(`PrepareSettles`), which is what makes a second preparation a stutter. Keys that contain the values are not extended again (`ExtendedFacts`).
`ValueInv` says what a column that is read has to do with the tuples, the values stored for nulls and filled in being among the admitted ones, and that a
prepared one is settled. Nothing is assumed of the halves `H` but that they increase.

`WizardProofs` proves, for every schema, file and threshold, and whatever is read behind the null maps:

- `WizardTypesAlwaysOK`: `WizardSpec => []WizardTypeOK`.
- `SourcesAlwaysStand`: `WizardSpec => []SourcesStand`, what a column rests on is before it and stands on its own.
- `DecodedAlwaysEqualsOriginal`: `WizardSpec => []DecodedEqualsOriginal` for files of `QuietNulls`: nulls are in string columns only, and no string is
  the one stored for a leading null. Nulls of other columns can make `null_check` choose `EXP_NULL_*` for a column that an earlier pass has found equal to
  another one, as the run `gaps` shows; a string "NULL" makes a leading null equal to a value of another row. The passing run has other nulls too,
  in columns without zeros.

`StandInv` says which operators there can be after each pass, and `SourcesStand` follows pass by pass: `Min(EqualTo(c))` is equal to no earlier column since
equality is transitive, and a column that is found to be the first of a pair rests on none (`SourceFacts`, from the recursive equation of `SourceOf`, which `SourceDef`
establishes by induction on the columns).
`DecodeInv` says that what has been chosen is true of the columns (`Faithful`). Its core is about dictionaries: `checkMappingImpl` compares the rows that are not
null, but indexes are looked up for all values of a column. In a `QuietNulls` file a null repeats the value before it in both columns of a pair, a leading one has a value no other row
has, and what is filled in repeats the last row (`QuietInv`), so that the columns are equal in the same pairs of all rows (`MirrorsEverywhere`, `MapTwins`); such columns number their
values alike (`KeysMirror`, by induction over the rows), their dictionaries are of one length, and a pair and all other pairs of its first column get one type of index (`TwinIndex`).

`TableFileProofs` proves, for any number of connections, readers one after the other, paths, tables and
rowgroups:

- `TypeCorrect`: `Spec => []TypeOK`, with any calls of the clients.
- `VerifiedIsWhole`: `Spec => []VerifiedComplete`.
- `ReaderUndisturbed`: `Spec => []ReaderSeesPublished`.
- `Refines`: `Spec => ImplementsFileCatalog`.

The last three assume `RepositoryCalls`, no second load without a reset and no `spell` before the table is prepared; the run `second_load`
shows that the first of these is necessary. Paths may share directories. `VerifiedComplete` speaks of finished
files only, so the inductive `IInv` adds how far each `to_fls` has come (`Progress`: nothing written, `InBody` with the first rowgroups
where the descriptor says, `AtEnd` with the descriptor in the file or next to it), that the descriptor of a connection was spelled for its
prepared table (`ConnectionInv`), that no two connections write one path (`OneWriter`), and that a reader holds the descriptor of a file that
verifies (`ReaderInv`). The argument: before its footer a file does not verify (`UnfinishedCells`), and neither does one whose `to_fls` was
stopped (`StopLeaves`); nobody appends to a file that is there; so only `WriteFooter` makes a file verify (`Published`). A write of
`table_descriptor.fbb`, whole or torn, takes the descriptor of one path of the directory at most, and no other file is touched (`LeftAlone`). In the catalog
the footer is `Publish`, the removal of a file or of its descriptor is `Remove`, and every other step stutters. TLC checked this `IInv` with one connection and with two before it was proved.

`WizardProofs` further proves

- `SpellingSucceeds`: `WizardSpec => []NoUnreachable` for files that are `QuietNulls` and `Encodable`: the columns have none of the types BOOLEAN
  and UINT8, at most 65536 rows are in a rowgroup, and there are at most 256 different FLOATs; integers of 8 bits fit their type.

Each hypothesis excludes columns for which a pass fails: BOOLEAN and UINT8 columns that are equal (`wizard/wizard.cpp:313`) or get a dictionary; FLOATs with more than 256
keys in a pair (`wizard/wizard.cpp:1246`); an index of 32 bits for a column of 16; and sparse columns of a type without an `EXP_NULL` (`wizard/wizard.cpp:197`), of which
strings are none, as their nulls are not counted. `NarrowInv` says that what `prepare` makes of a column never lacks an operator either: no cast leads to
BOOLEAN or UINT8, and a column cast to INT8 has as few values as its type. The keys of a column are different values of its rows (`KeysAre`), so that there are no more of them than rows, nor than
values of the type (`KeysFew`, by the pigeonhole principle), which bounds the type of the index; then every pass has an operator for every column that reaches its switch.

`ExpressionChainsProofs` proves, for every rowgroup `SchemasAssumption` describes, with any number of columns and of vectors:

- `Along`: `Spec => []IInv`.
- `Typing`: `Spec => []TypeOK`.
- `Reachable`: `Spec => []NoUnreachable`.
- `Tokens`: `Spec => []TokensNameSegments`.
- `Current`: `Spec => []ChunkIsCurrent`.
- `Delivered`: `Spec => []RoundTrip`.

`RoundTrip` speaks of what is handed over at the end, and rests on everything before: `IInv` follows the chains operator by operator. Each expression has a row in tables of what
its operators read, give and leave (`ReadsOf`, `GivesOf`, `Starts`, ...). One group of lemmas goes through the rows and shows that the rules
of the constructors, which know positions and counts only, lead along them: `operators[cur_operator++]` and `operators.back()` are the operators the
table names, and the decoder, counting down from the last token, arrives at the segment the encoder has put there (`RowOf` and the lemmas next to it). Another one follows the invariant
through each action: what is finished (tokens, flushed segments, expressions) is the table's, what is being built is a prefix of it.
The rest is about buffers. While the active operators of a column run, the packed vector stays with holes until
the patching operator has run, which is the second one (`PartRun`); an equal column runs the last operator of
another column again, which finds its work done, also when it patches (`RunAgain`); nothing else writes into the buffers of an earlier
column, so that a borrowed index is the one just unpacked. No induction over the fetches is needed besides `IInv`: a chunk overwrites every buffer that is read, whatever it held.

Two definitions were changed for these proofs. The chains are records by expression instead of cases, and the loops over columns and operators
recursive functions. Some `CASE`s had guards that overlap; their value was then open, and TLC took the first that holds. They are disjoint now. TLC checked `IInv` on the run before it was proved.

`AlpKernelsProofs` proves, for every base, number of digits, width, size of vectors, every column, build, content of the scratch
array and bytes behind the null map:

- `AlpTyped`: `Spec => []AlpTypeOK`.
- `AlpRoundTrips`: `Spec => []AlpRoundTrip`.
- `AlpPacksTight`: `Spec => []PackedRange`.
- `AlpSearches`: `Spec => []SearchFindsBest`.
- `GalpLanesApart`: `Spec => []LanesSeparate`.
- `AlpRdCutsBest`: `Spec => []NoBetterCut`.

The inductive `AlpInv` says of each chunk what it was made from: some combination, the integers of the vector with fillers
at its exceptions (`AlpInv`, conjunct by conjunct next to its definition), and that `out` is the decoded vectors one after the other. A value that is not an exception
is packed as its own integer, which `Unffor` gives back since the width of the range holds the difference (`PowersGrow`), and an exception is patched in at its own position and
nowhere else. That an exception at a null is dropped changes no row. `PackedRange` rests on a fact about `TMP_INDEX_ARR`: the least index that differs from its
own entry is not an exception, whatever is left behind the positions. `NoBetterCut` compares how many samples two dictionaries of one size miss:
exchanging parts for more frequent ones, the most frequent miss no more (`HitsCompared`). `UpperNeverDecodes` is assumed, which TLC evaluates and the code relies on.

`OperatorKernelsProofs` proves, for every width, size of vectors, number of lanes and limit of exceptions, every column and expression, symbol
table and content behind the null map:

- `OperatorKernelsInvariant`: `Spec => []IInv`.
- `OperatorKernelsTypes`: `Spec => []KernelsTypeOK`.
- `OperatorKernelsRoundTrip`: `Spec => []RoundTrip`, with each of the 17 expressions.
- `OperatorKernelsExceptions`: `Spec => []FewExceptions`.
- `OperatorKernelsSmallest`: `Spec => []NoBetterRange`.
- `OperatorKernelsRuns`: `Spec => []RunsTile`.

`RoundTrip` speaks of what is materialized. `IInv` says where it comes from: each chunk is what encoding the vector by itself gives, whatever FSST has left in its
offsets before (`ChunkAsAny`), the block is the whole column's, and `out` holds whole vectors equal to the ingested ones except at nulls. The rest is one
lemma per expression, from lemmas about the operators: a difference modulo `2^w` that is in the range of the width comes back
(`PowersGrow`), running sums of wrapped differences are those of the integers modulo `2^w` in each lane (`RsumIs`), runs tile the
column and the slice of a vector is its part of them (`LengthsAre`, `RangeRecovers`), strings cut at their ends from joined bytes are the strings (`UnjoinedIs`),
an index finds its key (`DictIs`), and escaped bytes decompress to themselves (`DecompressIs`). For `NoBetterRange`, the exceptions of the chosen range, which the patching
operator counts modulo `2^w`, are those below and above it (`ExceptionsOfBest`), and the one-pass search over sorted values is a minimum over all ranges, as
a best range can begin at a value.
Assumed are `SizesAssumption`, `InputsAssumption`, `KeysAssumption` and `FsstAssumption`; without the last one `RoundTrip` is false, as said above.

Besides these, the modules assume that the null value is none of the data it stands beside (`NoneAssumption`, `AbsentAssumption`).

Only model-checked: the liveness properties `EncodeReturns`, `EveryVectorDelivered`, `PublishedUnlessStopped` and `ReaderGetsTable`,
since fairness and `ENABLED` are beyond the prover. Every safety property of a passing run is proved, under the hypotheses named above.

## 4. Not modelled

- Parsing and printing of text (CSV, JSON, dates, decimals), JSON and FlatBuffers
  serialisation, logging, CPU detection, language bindings: no decision depends on them.
- The layout of packed bits, and the choice of symbols by FSST: generated or vendored; taken as
  functions with an inverse, given the width and the symbols. The expressions of FSST12, which the pools of the wizard offer beside
  those of FSST, have no chains and kernels of their own here: they are the twins of those of FSST, with another width of symbols. Rounding of products of doubles: a value that is lost to rounding
  is an exception, like one that is lost to missing digits, which the model has.
- Legacy encoders and readers: not reached from the public interface.
- `galp`, `cuda`, `publications`: other programs. With the generated kernels (`alp/src/falp.cpp`, `primitive/bitpack`)
  they are nearly all of the lines of the repository.
- `Connection::project`: `Table::Project` is not implemented in the code.

## 5. Plan

Done, each with its proofs: the encoder and the table file, the expression chains, ingestion and casts
of a rowgroup, the passes of the wizard, the kernels of the operators and of ALP; and liveness
of the calls. Next, in this order:

1. Structs in `ExpressionChains` (validity masks inside a struct have no executor).
2. Several rowgroups in `RowgroupIngest`, and its composition with `TableFile`, whose `Rowgroups` are
   names so far.
