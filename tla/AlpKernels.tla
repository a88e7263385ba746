------------------------------ MODULE AlpKernels ------------------------------
(***************************************************************************)
(* A column of floating-point values through ALP, GALP or ALP-RD.  The     *)
(* operator samples the column when it is made; every vector is encoded    *)
(* into a chunk of segments, and a reader materializes them in order.      *)
(*                                                                         *)
(* For ALP a value is NaN, -0.0 or an integer in units of Base^-Digits,    *)
(* and arithmetic is exact except for the bits that the magic number and   *)
(* the conversions lose from Magic on.  For ALP-RD a value is its bit      *)
(* pattern, of RdBits bits.                                                *)
(***************************************************************************)
EXTENDS Integers, Sequences, Functions, FiniteSetsExt, Vectors

CONSTANTS
  Inputs,       \* the columns: expression, cells, upper limit of the type, build,
                \* and what TMP_INDEX_ARR holds from the vectors encoded before
  Null, NaN, NegZero,
  Base,         \* 10
  Digits,       \* digits behind the point that a value may have
  MaxExponent,  \* Constants<PT>::MAX_EXPONENT
  MaxFactor,    \* FACT_ARR.size() - 1
  Width,        \* bits of ST
  Magic,        \* from here on adding MAGIC_NUMBER loses a bit more than PT does
  VecSz,        \* config::VECTOR_SIZE
  Increment,    \* distance of the sampled values of a vector
  MaxSampled,   \* config::N_VECTORS_PER_ROWGROUP: vectors behind them are not sampled
  Jump,         \* config::ROWGROUP_SAMPLES_JUMP
  MaxK,         \* config::MAX_K_COMBINATIONS
  EarlyExit,    \* SAMPLING_EARLY_EXIT_THRESHOLD
  ExcSize,      \* Constants<PT>::EXCEPTION_SIZE
  PosSize,      \* EXCEPTION_POSITION_SIZE
  RdLimit,      \* Constants<PT>::RD_SIZE_THRESHOLD_LIMIT
  NumLanes,     \* lanes of a vector on a GPU
  RdBits,       \* EXACT_TYPE_BIT_SIZE
  CuttingLimit, \* config::CUTTING_LIMIT
  MaxDict,      \* config::MAX_RD_DICTIONARY_SIZE
  RdExcSize     \* RD_EXCEPTION_POSITION_SIZE + RD_EXCEPTION_SIZE

Exprs  == {"ALP", "GALP", "ALP_RD"}
Builds == {"x86", "avx512", "arm64"}

VARIABLES
  expr,       \* the expression of the column
  cells,      \* history: what was ingested, Null among it
  data,       \* TypedCol::data
  nulls,      \* the bytes NullMap() points at
  upper,      \* Constants<PT>::ENCODING_UPPER_LIMIT
  build,      \* instruction set the library was built for
  state,      \* alp_state, as init leaves it, or None before
  tmp_index,  \* TMP_INDEX_ARR
  chunks,     \* the entry-point based segments, a record for each vector
  dict,       \* rd_dict_segment
  out,        \* TypedCol::data of the reader
  crashed     \* whether an address that is not mapped was read

vars == <<expr, cells, data, nulls, upper, build, state, tmp_index, chunks, dict, out, crashed>>

None    == [none |-> TRUE]
NumVecs == Len(data) \div VecSz

\* The values stored for the cells, in whole vectors.
Stored(rows) == StoredAs(rows, Null, 0, VecSz)

VecOf(s, v) == VectorOf(s, v, VecSz)

-----------------------------------------------------------------------------
(* Values and integers *)

IntMin == 0 - 2 ^ (Width - 1)
IntMax == 2 ^ (Width - 1) - 1

\* The integer nearest to num / den, the even one of two.
Nearest(num, den) ==
  LET q == num \div den
      r == 2 * (num % den)
  IN  IF r > den \/ (r = den /\ q % 2 = 1) THEN q + 1 ELSE q

\* static_cast<ST>: what does not fit becomes the least integer on x86-64, and
\* the nearest one on arm64.
Cast(b, x) ==
  IF x \in IntMin .. IntMax THEN x
  ELSE IF b # "arm64" \/ x < 0 THEN IntMin ELSE IntMax

\* static_cast<PT>.
ToPT(n) == IF n \in 0 - Magic .. Magic THEN n ELSE 2 * Nearest(n, 2)

\* (num / den) + MAGIC_NUMBER - MAGIC_NUMBER.
ToInteger(num, den) ==
  IF num < 0 - Magic * den \/ num > Magic * den
  THEN 4 * Nearest(num, 4 * den) ELSE Nearest(num, den)

Scale == Base ^ Digits

\* encode_value, for the combination c of an exponent and a factor.
EncodeValue(up, b, v, c) ==
  IF v \in {NaN, NegZero} THEN Cast(b, up)
  ELSE LET num == v * Base ^ c[1]
           den == Base ^ c[2] * Scale
       IN  IF num > up * den \/ num < 0 - up * den THEN Cast(b, up)
           ELSE Cast(b, ToInteger(num, den))

\* decode_value.
DecodeValue(n, c) == ToPT(n) * Base ^ (Digits + c[2] - c[1])

\* == of C++: a NaN equals nothing, and -0.0 equals 0.0.
Equal(x, v) == v # NaN /\ x = (IF v = NegZero THEN 0 ELSE v)

Exact(up, b, v, c) == Equal(DecodeValue(EncodeValue(up, b, v, c), c), v)

\* count_bits.
CountBits(max, min) ==
  LET delta == (max - min) % 2 ^ Width
  IN  CHOOSE n \in 0 .. Width : delta < 2 ^ n /\ (n = 0 \/ delta >= 2 ^ (n - 1))

\* The bits for the range of a set, those of the initial maximum and minimum if
\* there is nothing in it.
RangeBits(ints) ==
  IF ints = {} THEN CountBits(IntMin, IntMax) ELSE CountBits(Max(ints), Min(ints))

-----------------------------------------------------------------------------
(* Sampling and the search for combinations *)

SamplesPerVector == VecSz \div Increment

\* Equidistant values of a vector.
SampleOf(s) == [k \in 1 .. SamplesPerVector |-> s[(k - 1) * Increment + 1]]

\* first_level_sample: the samples of the vectors that are taken, which are among
\* those of a rowgroup of the default size.
FirstLevelSample ==
  [j \in 1 .. (Min({MaxSampled, NumVecs}) + Jump - 1) \div Jump |-> SampleOf(VecOf(data, (j - 1) * Jump))]

\* Exponents and factors.
ValidCombinations == {c \in (0 .. MaxExponent) \X (0 .. MaxFactor) : c[2] <= c[1]}

\* Every one of them in the order they are tried.
Combinations ==
  LET n == MaxFactor + 1
  IN  Kept([k \in 1 .. (MaxExponent + 1) * n |->
              <<MaxExponent - (k - 1) \div n, MaxFactor - ((k - 1) % n)>>],
           ValidCombinations)

ExactOnes(up, b, sample, c) == {k \in DOMAIN sample : Exact(up, b, sample[k], c)}

\* The estimated compression size, in bits.
Estimate(up, b, sample, c) ==
  LET ok == ExactOnes(up, b, sample, c)
  IN  SamplesPerVector * RangeBits({EncodeValue(up, b, sample[k], c) : k \in ok})
        + (Len(sample) - Cardinality(ok)) * (ExcSize + PosSize)

WorstSize == SamplesPerVector * (ExcSize + PosSize) + SamplesPerVector * ExcSize

\* The best combination for one sampled vector: bigger exponents, then bigger
\* factors are preferred.
Preferred(up, b, sample, best, c) ==
  LET size == Estimate(up, b, sample, c)
  IN  IF /\ Cardinality(ExactOnes(up, b, sample, c)) >= 2
         /\ \/ size < best.size
            \/ size = best.size /\ best.c[1] < c[1]
            \/ size = best.size /\ best.c[1] = c[1] /\ best.c[2] < c[2]
      THEN [size |-> size, c |-> c] ELSE best

Found(up, b, sample) ==
  LET tried == Combinations
      best[n \in 0 .. Len(tried)] ==
        IF n = 0 THEN [size |-> WorstSize, c |-> <<0, 0>>]
        ELSE Preferred(up, b, sample, best[n - 1], tried[n])
  IN  best[Len(tried)]

\* compare_best_combinations, of the combinations found for the vectors.
GoesBefore(found, c, d) ==
  LET Times(x) == Cardinality({j \in DOMAIN found : found[j].c = x})
  IN  \/ Times(c) > Times(d)
      \/ Times(c) = Times(d) /\ c[1] > d[1]
      \/ Times(c) = Times(d) /\ c[1] = d[1] /\ c[2] > d[2]

\* The first of some combinations in this order.
FirstOf(found, S) == CHOOSE c \in S : \A d \in S \ {c} : GoesBefore(found, c, d)

\* The first MaxK of them, sorted.
TopCombinations(found) ==
  LET all == {found[j].c : j \in DOMAIN found}
      behind[n \in 0 .. MaxK] ==
        IF n = 0 THEN all ELSE behind[n - 1] \ {FirstOf(found, behind[n - 1])}
  IN  [k \in 1 .. Min({MaxK, Cardinality(all)}) |-> FirstOf(found, behind[k - 1])]

FoundIn(up, b, samples) ==
  LET found[n \in 0 .. Len(samples)] ==
        IF n = 0 THEN <<>> ELSE Append(found[n - 1], Found(up, b, samples[n]))
  IN  found[Len(samples)]

\* find_top_k_combinations: with no compression in sight the scheme is ALP_RD,
\* and there is no combination, though k_combinations is still MaxK.
AlpInit(up, b) ==
  LET found == FoundIn(up, b, FirstLevelSample)
      top   == TopCombinations(found)
  IN  IF Min({WorstSize} \cup {found[j].size : j \in DOMAIN found}) >= RdLimit
      THEN [scheme |-> "ALP_RD", k |-> MaxK, top |-> <<>>]
      ELSE [scheme |-> "ALP", k |-> Len(top), top |-> top]

\* Mutant: the size to beat stays that of the first combination.
BetterKeptSize(best, c, size) == [best EXCEPT !.c = c, !.worse = 0]

Better(best, c, size) == [size |-> size, c |-> c, worse |-> 0]

\* find_best_exponent_factor_from_combinations: the search ends when EarlyExit
\* combinations in a row are not better.
Searched(up, b, sample, best, c) ==
  LET size == Estimate(up, b, sample, c)
  IN  IF best.worse = EarlyExit THEN best
      ELSE IF size >= best.size THEN [best EXCEPT !.worse = @ + 1]
      ELSE Better(best, c, size)

BestOf(up, b, sample, top) ==
  LET best[n \in 0 .. Len(top) - 1] ==
        IF n = 0 THEN [size |-> Estimate(up, b, sample, top[1]), c |-> top[1], worse |-> 0]
        ELSE Searched(up, b, sample, best[n - 1], top[n + 1])
  IN  best[Len(top) - 1].c

\* encoder::encode, when a combination has been found.
Combination(s) ==
  IF state.k > 1 THEN BestOf(upper, build, SampleOf(s), state.top) ELSE state.top[1]

-----------------------------------------------------------------------------
(* encode_simdized *)

\* ENCODING_UPPER_LIMIT of floats is the largest float, far beyond ST.
IsFloat == upper > IntMax

\* The mask for the exponent of a double has a bit too many, so that only
\* floats have their NaNs replaced.
WithoutSpecials(s) ==
  [i \in DOMAIN s |-> IF s[i] = NegZero \/ (s[i] = NaN /\ IsFloat) THEN upper * Scale ELSE s[i]]

Encoded(s, c) ==
  LET w == WithoutSpecials(s)
  IN  [i \in DOMAIN s |-> EncodeValue(upper, build, w[i], c)]

\* Positions, from 0, that are not decoded to what is encoded.
ExceptionPositions(s, c) ==
  LET w == WithoutSpecials(s)
  IN  Kept([i \in DOMAIN s |-> i - 1], {i \in 0 .. VecSz - 1 : ~ Exact(upper, build, w[i + 1], c)})

\* TMP_INDEX_ARR: the positions, and, unless they are stored with a mask, the
\* last index behind them if it is not one of them.
TmpIndex(pos) ==
  [i \in 0 .. VecSz - 1 |->
     IF i < Len(pos) THEN pos[i + 1]
     ELSE IF i = Len(pos) /\ build # "avx512" /\ VecSz - 1 \notin Range(pos) THEN VecSz - 1
     ELSE tmp_index[i]]

\* a_non_exception_value.
Filler(ints, tmp) ==
  LET free == {i \in 0 .. VecSz - 1 : tmp[i] # i}
  IN  IF free = {} THEN 0 ELSE ints[Min(free) + 1]

\* Mutant: exceptions keep the integer they were encoded as.
FilledAsEncoded(ints, pos, tmp) == ints

\* encoded_integers: exceptions take the integer of another value.
Filled(ints, pos, tmp) ==
  [i \in DOMAIN ints |-> IF i - 1 \in Range(pos) THEN Filler(ints, tmp) ELSE ints[i]]

\* Mutant: the null map is read at the index among the exceptions.
NotNullByRank(pos, isNull) ==
  LET kept == Kept([k \in DOMAIN pos |-> k], {k \in 1 .. VecSz : ~ isNull[k]})
  IN  [j \in DOMAIN kept |-> pos[kept[j]]]

\* Exceptions at null positions are dropped.
NotNull(pos, isNull) == Kept(pos, {i \in 0 .. VecSz - 1 : ~ isNull[i + 1]})

-----------------------------------------------------------------------------
(* Packing and data_parallelize *)

Ffor(ints) ==
  LET base == Min(Range(ints))
      bw   == CountBits(Max(Range(ints)), base)
  IN  [base |-> base, bw |-> bw, packed |-> [i \in DOMAIN ints |-> (ints[i] - base) % 2 ^ bw]]

Unffor(f) ==
  [i \in DOMAIN f.packed |-> IntMin + ((f.packed[i] + f.base - IntMin) % 2 ^ Width)]

LanePositions(pos, lane) == Kept(pos, {p \in 0 .. VecSz - 1 : p % NumLanes = lane})

Counts(pos) == [l \in 1 .. NumLanes |-> Len(LanePositions(pos, l - 1))]

\* Mutant: the cursors are not advanced.
LaneEndsUnmoved(pos) == [l \in 1 .. NumLanes |-> Sums(Counts(pos))[l - 1]]

\* out_offset, after its cursors have been advanced.
LaneEnds(pos) == [l \in 1 .. NumLanes |-> Sums(Counts(pos))[l]]

\* out_pos_arr: the positions of a lane next to each other.
ByLane(pos) == Joined([l \in 1 .. NumLanes |-> LanePositions(pos, l - 1)])

\* enc_alp_opr::Encode, vector v.
AlpChunk(v, c) ==
  LET s    == VecOf(data, v)
      all  == ExceptionPositions(s, c)
      pos  == NotNull(all, VecOf(nulls, v))
      laid == IF expr = "GALP" THEN ByLane(pos) ELSE pos
  IN  [c      |-> c,
       ffor   |-> Ffor(Filled(Encoded(s, c), all, TmpIndex(all))),
       pos    |-> laid,
       exc    |-> [k \in DOMAIN laid |-> s[laid[k] + 1]],
       counts |-> IF expr = "GALP" THEN Counts(pos) ELSE <<>>,
       ends   |-> IF expr = "GALP" THEN LaneEnds(pos) ELSE <<>>]

\* dec_alp_opr::Decode.
AlpVector(ch) ==
  LET ints == Unffor(ch.ffor)
  IN  PatchedAt([i \in DOMAIN ints |-> DecodeValue(ints[i], ch.c)], ch.pos, ch.exc)

-----------------------------------------------------------------------------
(* ALP-RD *)

Left(x, rbw)  == x \div 2 ^ rbw
Right(x, rbw) == x % 2 ^ rbw

Sampled == Joined(FirstLevelSample)

LeftParts(rbw) == {Left(Sampled[k], rbw) : k \in DOMAIN Sampled}

Repetitions(rbw, left) == Cardinality({k \in DOMAIN Sampled : Left(Sampled[k], rbw) = left})

\* Mutant: the dictionary takes all left parts.
DictSizeUnlimited(rbw) == Cardinality(LeftParts(rbw))

DictSize(rbw) == Min({MaxDict, Cardinality(LeftParts(rbw))})

\* std::max(1, std::ceil(std::log2(actual_dictionary_size))).
LeftBits(n) == CHOOSE b \in 1 .. n : 2 ^ b >= n /\ (b = 1 \/ 2 ^ (b - 1) < n)

\* estimate_compression_size, times the number of sampled values.
RdEstimate(rbw, entries) ==
  LET missed == {k \in DOMAIN Sampled : Left(Sampled[k], rbw) \notin entries}
  IN  Len(Sampled) * (rbw + LeftBits(Cardinality(entries))) + Cardinality(missed) * RdExcSize

\* Mutant: the left parts are sorted the other way.
DictionariesRare(rbw) ==
  {d \in [1 .. DictSize(rbw) -> LeftParts(rbw)] :
     /\ IsInjective(d)
     /\ \A i \in DOMAIN d : \A left \in LeftParts(rbw) \ {d[j] : j \in 1 .. i} :
          Repetitions(rbw, d[i]) <= Repetitions(rbw, left)}

\* left_parts_dict: the most frequent left parts, in any order if they are as
\* frequent as others.
Dictionaries(rbw) ==
  {d \in [1 .. DictSize(rbw) -> LeftParts(rbw)] :
     /\ IsInjective(d)
     /\ \A i \in DOMAIN d : \A left \in LeftParts(rbw) \ {d[j] : j \in 1 .. i} :
          Repetitions(rbw, d[i]) >= Repetitions(rbw, left)}

\* find_best_dictionary: the first of the cuts with the smallest estimate.
BestCut ==
  LET cuts    == {RdBits - i : i \in 1 .. CuttingLimit}
      size == [r \in cuts |-> RdEstimate(r, Range(CHOOSE d \in Dictionaries(r) : TRUE))]
  IN  CHOOSE r \in cuts : \A q \in cuts \ {r} : size[r] < size[q] \/ (size[r] = size[q] /\ r > q)

RdInits ==
  {[scheme |-> "ALP_RD", rbw |-> BestCut, lbw |-> LeftBits(DictSize(BestCut)), dict |-> d] :
     d \in Dictionaries(BestCut)}

IsRdException(index) == index >= Len(state.dict)

\* The index of a left part, the size of the dictionary if it is not in it.
\* (Left parts of the sample that did not fit may have a greater index.)
RdIndex(left) ==
  IF left \in Range(state.dict) THEN (CHOOSE i \in DOMAIN state.dict : state.dict[i] = left) - 1
  ELSE Len(state.dict)

\* enc_alp_rd_opr::Encode, vector v: ffor keeps left_bit_width bits of an index.
RdChunk(v) ==
  LET s     == VecOf(data, v)
      index == [i \in DOMAIN s |-> RdIndex(Left(s[i], state.rbw))]
      pos   == Kept([i \in DOMAIN s |-> i - 1], {i \in 0 .. VecSz - 1 : IsRdException(index[i + 1])})
  IN  [lbw  |-> state.lbw,
       rbw  |-> state.rbw,
       left  |-> [i \in DOMAIN s |-> index[i] % 2 ^ state.lbw],
       right |-> [i \in DOMAIN s |-> Right(s[i], state.rbw)],
       pos   |-> pos,
       exc   |-> [k \in DOMAIN pos |-> Left(s[pos[k] + 1], state.rbw)]]

\* dec_alp_rd_opr::Decode: an entry of the dictionary that was not set is 0.
RdVector(ch) ==
  LET entry(i) == IF i < Len(dict) THEN dict[i + 1] ELSE 0
      glue(left, right) == left * 2 ^ ch.rbw + right
  IN  PatchedAt([i \in DOMAIN ch.left |-> glue(entry(ch.left[i]), ch.right[i])], ch.pos,
            [k \in DOMAIN ch.pos |-> glue(ch.exc[k], ch.right[ch.pos[k] + 1])])

-----------------------------------------------------------------------------
(* The column *)

Init ==
  /\ \E input \in Inputs :
       /\ expr = input.expr /\ cells = input.cells /\ data = Stored(input.cells)
       /\ upper = input.upper /\ build = input.build
       /\ tmp_index = input.tmp
       /\ \E behind \in [1 .. Len(data) - Len(cells) -> BOOLEAN] :
            nulls = [i \in DOMAIN cells |-> cells[i] = Null] \o behind
  /\ state = None /\ chunks = <<>> /\ dict = <<>> /\ out = <<>>
  /\ crashed = FALSE

\* The constructors of enc_alp_opr and enc_alp_rd_opr sample the column.
Construct ==
  /\ state = None
  /\ state' \in IF expr = "ALP_RD" THEN RdInits ELSE {AlpInit(upper, build)}
  /\ UNCHANGED <<expr, cells, data, nulls, upper, build, tmp_index, chunks, dict, out, crashed>>

Encoding == state # None /\ Len(chunks) < NumVecs /\ ~ crashed

\* enc_alp_opr::PointTo and Encode.
EncodeAlp ==
  /\ Encoding /\ expr # "ALP_RD" /\ state.top # <<>>
  /\ LET s == VecOf(data, Len(chunks))
         c == Combination(s)
     IN  /\ chunks' = Append(chunks, AlpChunk(Len(chunks), c))
         /\ tmp_index' = TmpIndex(ExceptionPositions(s, c))
  /\ UNCHANGED <<expr, cells, data, nulls, upper, build, state, dict, out, crashed>>

\* encode, without a combination: the vector of combinations has never had
\* memory, and its elements are read from there.
EncodeWithoutCombination ==
  /\ Encoding /\ expr # "ALP_RD" /\ state.top = <<>>
  /\ crashed' = TRUE
  /\ UNCHANGED <<expr, cells, data, nulls, upper, build, state, tmp_index, chunks, dict, out>>

\* enc_alp_rd_opr::PointTo and Encode.
EncodeRd ==
  /\ Encoding /\ expr = "ALP_RD"
  /\ chunks' = Append(chunks, RdChunk(Len(chunks)))
  /\ UNCHANGED <<expr, cells, data, nulls, upper, build, state, tmp_index, dict, out, crashed>>

\* enc_alp_rd_opr::Finalize.
FinalizeRd ==
  /\ Len(chunks) = NumVecs /\ expr = "ALP_RD" /\ dict = <<>>
  /\ dict' = state.dict
  /\ UNCHANGED <<expr, cells, data, nulls, upper, build, state, tmp_index, chunks, out, crashed>>

Decoded == Len(out) \div VecSz

\* RowgroupReader::materialize, one vector after the other.
MaterializeVector ==
  /\ Len(chunks) = NumVecs /\ (expr = "ALP_RD" => dict # <<>>)
  /\ Decoded < NumVecs
  /\ out' = out \o (IF expr = "ALP_RD" THEN RdVector(chunks[Decoded + 1]) ELSE AlpVector(chunks[Decoded + 1]))
  /\ UNCHANGED <<expr, cells, data, nulls, upper, build, state, tmp_index, chunks, dict, crashed>>

Next ==
  \/ Construct
  \/ EncodeAlp
  \/ EncodeWithoutCombination
  \/ EncodeRd
  \/ FinalizeRd
  \/ MaterializeVector

Spec == Init /\ [][Next]_vars

-----------------------------------------------------------------------------
(* Assumptions *)

\* What a cell of a column may hold.
CellsOf(e) ==
  IF e = "ALP_RD" THEN {Null} \cup 0 .. 2 ^ RdBits - 1 ELSE {Null, NaN, NegZero} \cup Int

InputTypes ==
  \A input \in Inputs :
    /\ input.expr \in Exprs /\ input.build \in Builds /\ input.upper \in Int
    /\ input.cells \in Seq(CellsOf(input.expr)) /\ input.cells # <<>>
    /\ input.tmp \in [0 .. VecSz - 1 -> 0 .. VecSz - 1]

\* The value put in the place of -0.0 and of NaNs is an exception with every
\* combination and in every build.
UpperNeverDecodes ==
  \A up \in {input.upper : input \in Inputs} : \A b \in Builds, c \in ValidCombinations :
    ~ Exact(up, b, up * Scale, c)

ASSUME AlpAssumption ==
  /\ Digits \in Nat /\ MaxExponent \in 0 .. Digits /\ MaxFactor \in Nat
  /\ Width \in Nat \ {0} /\ VecSz \in Nat \ {0}
  /\ Increment \in 1 .. VecSz /\ VecSz % Increment = 0 /\ Jump \in Nat \ {0}
  /\ MaxSampled \in Nat \ {0}
  /\ NumLanes \in Nat \ {0} /\ VecSz % NumLanes = 0
  /\ MaxK \in Nat \ {0} /\ EarlyExit \in Nat \ {0}
  /\ ExcSize \in Nat /\ PosSize \in Nat /\ RdExcSize \in Nat
  /\ RdBits \in Nat /\ CuttingLimit \in 1 .. RdBits /\ MaxDict \in Nat \ {0}
  /\ InputTypes
  /\ UpperNeverDecodes

-----------------------------------------------------------------------------
(* Properties *)

\* Whole vectors are encoded and materialized, a dictionary is stored only for
\* ALP-RD, and the packed integers have the bits they are said to have.
AlpTypeOK ==
  /\ Len(chunks) <= NumVecs /\ Len(out) % VecSz = 0
  /\ tmp_index \in [0 .. VecSz - 1 -> 0 .. VecSz - 1]
  /\ dict # <<>> => expr = "ALP_RD" /\ Len(dict) \in 1 .. MaxDict
  /\ \A v \in DOMAIN chunks :
       /\ Len(chunks[v].pos) = Len(chunks[v].exc)
       /\ expr = "ALP_RD" =>
            /\ \A i \in 1 .. VecSz : chunks[v].left[i] \in 0 .. 2 ^ chunks[v].lbw - 1
            /\ \A i \in 1 .. VecSz : chunks[v].right[i] \in 0 .. 2 ^ chunks[v].rbw - 1

\* A row that is not null is materialized bit for bit, NaNs and -0.0 too, by
\* every build, whatever the sample has missed and the vectors before have left
\* in TMP_INDEX_ARR.
AlpRoundTrip ==
  \A i \in 1 .. Len(out) : i <= Len(cells) => (cells[i] # Null => out[i] = cells[i])

\* Exceptions do not widen a vector: it is packed with the bits its other
\* values need, and 0.
PackedRange ==
  expr # "ALP_RD" => \A v \in DOMAIN chunks :
    LET s    == VecOf(data, v - 1)
        c    == chunks[v].c
        kept == {EncodeValue(upper, build, s[i], c) : i \in {j \in DOMAIN s :
                   s[j] # NegZero /\ Exact(upper, build, s[j], c)}}
    IN  chunks[v].ffor.bw <= RangeBits(kept \cup {0})

\* The combination of a vector is, on its sampled values, no worse than any of
\* those the search tries for certain.
SearchFindsBest ==
  expr # "ALP_RD" => \A v \in DOMAIN chunks :
    LET sample == SampleOf(VecOf(data, v - 1))
    IN  \A k \in 1 .. Min({Len(state.top), EarlyExit + 1}) :
          Estimate(upper, build, sample, chunks[v].c) <= Estimate(upper, build, sample, state.top[k])

\* The exceptions of a lane lie next to each other, in order, and end where the
\* offset of the lane says: a thread of a GPU patches its own lane only.
LanesSeparate ==
  expr = "GALP" => \A v \in DOMAIN chunks :
    LET ch    == chunks[v]
        first == [l \in 1 .. NumLanes |-> IF l = 1 THEN 1 ELSE ch.ends[l - 1] + 1]
    IN  /\ ch.ends[NumLanes] = Len(ch.pos)
        /\ \A l \in 1 .. NumLanes :
             /\ ch.ends[l] - first[l] + 1 = ch.counts[l]
             /\ \A k \in first[l] .. ch.ends[l] : ch.pos[k] % NumLanes = l - 1
             /\ \A k \in first[l] .. ch.ends[l] - 1 : ch.pos[k] < ch.pos[k + 1]

\* No cut with another dictionary as large as can be would be estimated to take
\* less than the one ALP-RD has chosen.
NoBetterCut ==
  expr = "ALP_RD" /\ state # None =>
    \A i \in 1 .. CuttingLimit : \A entries \in kSubset(DictSize(RdBits - i), LeftParts(RdBits - i)) :
      RdEstimate(state.rbw, Range(state.dict)) <= RdEstimate(RdBits - i, entries)

\* What encode assumes: there is a combination to encode a vector with.
CombinationFound == ~ crashed
=============================================================================
