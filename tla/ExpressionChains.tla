--------------------------- MODULE ExpressionChains ---------------------------
(***************************************************************************)
(* The physical expressions of the columns of one rowgroup: the chain of   *)
(* encoding operators Interpreter::Encoding builds for a column's operator *)
(* token, the segments the chain leaves behind, the chain of decoding      *)
(* operators Interpreter::Decoding builds from the operand tokens, and the *)
(* chunks and materialized vectors RowgroupReader takes out of it.         *)
(*                                                                         *)
(* The hard part is bookkeeping that no type checks: an operator finds its *)
(* input by position (operators[cur_operator++], operators.back() or       *)
(* operators[0]), a segment by an operand token that counts the segments   *)
(* of the operators before it, the decoder counts the tokens down from the *)
(* last one, a patching operator writes into the buffer of another one, a  *)
(* column may read the buffer of another column, and only the first        *)
(* n_active_operators of a chain run when a chunk is fetched.              *)
(*                                                                         *)
(* The content of a vector is a term: the column and the vector it comes   *)
(* from, and the transformations it has been through since.  A byte of a   *)
(* segment is abstracted to its role in that term.                         *)
(***************************************************************************)
EXTENDS Integers, Sequences, SequencesExt, FiniteSetsExt, Vectors

CONSTANTS
  NumVectors,   \* m_n_vec of the rowgroup
  Schemas       \* the rowgroups to encode: sequences of Choice

ASSUME NumVectorsAssumption == NumVectors \in Nat \ {0}

VARIABLES
  schema,       \* what the wizard chose for each column
  phase,        \* "encode", "decode", "read" or "unreachable"
  col,          \* the column whose expression is being built or run
  enc,          \* PhysicalExpr::operators of the column being encoded
  state,        \* InterpreterState of the column at hand
  tokens,       \* operand_tokens of each column
  segs,         \* the entries of the segments of the column being encoded
  vec_idx,      \* vectors executed for it
  file,         \* the segments flushed for each column, in segment descriptor order
  dec,          \* the decoding operators each column owns
  ops,          \* PhysicalExpr::operators of each column: references to operators
  n_active,     \* n_active_operators of each column
  bufs,         \* the data buffer of every decoding operator
  chunk,        \* the vector of the last get_chunk, 0 before the first
  next_vec,     \* the vector RowgroupReader::materialize takes next, 0 when it is not running
  out           \* the columns it has materialized so far

encVars  == <<enc, segs, vec_idx, file, tokens>>
decVars  == <<dec, ops, n_active>>
readVars == <<bufs, chunk, next_vec, out>>
vars     == <<schema, phase, col, state, encVars, decVars, readVars>>

Cols    == 1 .. Len(schema)
Vectors == 1 .. NumVectors

-----------------------------------------------------------------------------
(* The chains *)

\* Interpreter::Encoding: the operators of an expression, in construction order.
EncChains ==
  [uncompressed           |-> <<"uncompressed">>,
   validitymask           |-> <<"validitymask">>,
   str_uncompressed       |-> <<"str_uncompressed">>,
   constant               |-> <<>>,
   equal                  |-> <<>>,
   ffor                   |-> <<"scan", "analyze", "ffor">>,
   ffor_slpatch           |-> <<"scan", "analyze_patch", "slpatch", "ffor">>,
   delta                  |-> <<"scan", "transpose", "rsum", "analyze", "ffor">>,
   rle                    |-> <<"rle_map", "transpose", "rsum", "analyze", "ffor">>,
   rle_slpatch            |-> <<"rle_map", "transpose", "rsum", "analyze_patch", "slpatch", "ffor">>,
   rle_str                |-> <<"rle_map_str", "transpose", "rsum", "analyze", "ffor">>,
   rle_str_slpatch        |-> <<"rle_map_str", "transpose", "rsum", "analyze_patch", "slpatch", "ffor">>,
   dict_ffor              |-> <<"dict", "dict_map", "analyze", "ffor">>,
   dict_ffor_slpatch      |-> <<"dict", "dict_map", "analyze_patch", "slpatch", "ffor">>,
   dict_str_ffor          |-> <<"dict_str", "dict_map", "analyze", "ffor">>,
   dict_str_ffor_slpatch  |-> <<"dict_str", "dict_map", "analyze_patch", "slpatch", "ffor">>,
   fsst_dict_ffor         |-> <<"fsst_dict", "dict_map", "analyze", "ffor">>,
   fsst_dict_ffor_slpatch |-> <<"fsst_dict", "dict_map", "analyze_patch", "slpatch", "ffor">>,
   dict                   |-> <<"dict">>,
   dict_str               |-> <<"dict_str">>,
   fsst_dict              |-> <<"fsst_dict">>,
   fsst                   |-> <<"fsst">>,
   fsst_delta             |-> <<"fsst", "transpose", "rsum", "analyze", "ffor">>,
   fsst_delta_slpatch     |-> <<"fsst", "transpose", "rsum", "analyze_patch", "slpatch", "ffor">>,
   null                   |-> <<"null">>,
   frequency              |-> <<"frequency">>,
   frequency_str          |-> <<"frequency_str">>,
   cross_rle              |-> <<"cross_rle">>,
   cross_rle_str          |-> <<"cross_rle_str">>,
   alp                    |-> <<"alp">>,
   galp                   |-> <<"alp", "data_parallel_patch">>,
   alp_rd                 |-> <<"alp_rd">>]

Expressions == DOMAIN EncChains

\* Interpreter::Decoding.  "first_column" puts the whole expression of another
\* column into the chain, "shared" the last operator of one.
DecChains ==
  [uncompressed           |-> <<"uncompressed">>,
   validitymask           |-> <<"validitymask">>,
   str_uncompressed       |-> <<"str_uncompressed">>,
   constant               |-> <<"constant">>,
   equal                  |-> <<"shared">>,
   ffor                   |-> <<"unffor">>,
   ffor_slpatch           |-> <<"unffor", "slpatch">>,
   delta                  |-> <<"unffor", "rsum", "transpose">>,
   rle                    |-> <<"unffor", "rsum", "rle_map">>,
   rle_slpatch            |-> <<"unffor", "slpatch", "rsum", "rle_map">>,
   rle_str                |-> <<"unffor", "rsum", "rle_map_str">>,
   rle_str_slpatch        |-> <<"unffor", "slpatch", "rsum", "rle_map_str">>,
   dict_ffor              |-> <<"unffor", "dict">>,
   dict_ffor_slpatch      |-> <<"unffor", "slpatch", "dict">>,
   dict_str_ffor          |-> <<"unffor", "dict_str">>,
   dict_str_ffor_slpatch  |-> <<"unffor", "slpatch", "dict_str">>,
   fsst_dict_ffor         |-> <<"unffor", "fsst_dict">>,
   fsst_dict_ffor_slpatch |-> <<"unffor", "slpatch", "fsst_dict">>,
   dict                   |-> <<"first_column", "dict">>,
   dict_str               |-> <<"first_column", "dict_str">>,
   fsst_dict              |-> <<"first_column", "fsst_dict">>,
   fsst                   |-> <<"scan", "fsst">>,
   fsst_delta             |-> <<"unffor", "rsum", "fsst">>,
   fsst_delta_slpatch     |-> <<"unffor", "slpatch", "rsum", "fsst">>,
   null                   |-> <<"null">>,
   frequency              |-> <<"frequency">>,
   frequency_str          |-> <<"frequency_str">>,
   cross_rle              |-> <<"cross_rle">>,
   cross_rle_str          |-> <<"cross_rle_str">>,
   alp                    |-> <<"alp">>,
   galp                   |-> <<"alp">>,
   alp_rd                 |-> <<"alp_rd">>]

External == {"dict", "dict_str", "fsst_dict"}   \* their index is in another column
Dictionaries ==
  External \cup {"dict_ffor", "dict_ffor_slpatch", "dict_str_ffor", "dict_str_ffor_slpatch",
                 "fsst_dict_ffor", "fsst_dict_ffor_slpatch"}

\* What the wizard settles for a column: the expression, for a dictionary the
\* types of its keys and indexes, and the column the external operand names.
Choice ==
  [expr : Expressions, key : {"i64", "i32", "flt", "dbl", "str", "any"},
   index : {"u08", "u16", "u32", "none"}, of : Nat]

\* The operator tokens without a case in the switch of Interpreter::Encoding.
HasEncoder(ch) ==
  ~ (ch.expr \in {"dict_ffor", "dict_ffor_slpatch"} /\ ch.key = "flt" /\ ch.index = "u32")

\* And in that of Interpreter::Decoding.
HasDecoder(ch) ==
  /\ HasEncoder(ch)
  /\ ~ (ch.expr = "dict_ffor_slpatch" /\ ch.key \in {"i32", "i64"} /\ ch.index = "u32")

\* The rowgroups the wizard leaves: what a column rests on is before it, a column
\* is not equal to one that is equal to another, and an index is taken from a
\* column that has one of its type.  FSST without a prefix sum is in none of its
\* pools; a token without a decoder is left out.
ASSUME SchemasAssumption ==
  \A s \in Schemas :
    /\ s \in Seq(Choice) /\ s # <<>>
    /\ \A c \in DOMAIN s :
         /\ HasDecoder(s[c]) /\ s[c].expr # "fsst"
         /\ s[c].of < c
         /\ s[c].of # 0 <=> s[c].expr \in External \cup {"equal"}
         /\ s[c].expr = "equal" => s[s[c].of].expr # "equal"
         /\ s[c].expr \in External =>
              s[s[c].of].expr \in Dictionaries /\ s[s[c].of].index = s[c].index

-----------------------------------------------------------------------------
(* Segments and operand tokens *)

Patching == <<"exceptions", "exception_positions", "n_exceptions">>
Alp      == <<"ffor", "alp_base", "bw", "exception", "fac", "exp", "pos", "n_exp">>
Galp     == <<"ffor", "alp_base", "bw", "exception", "fac", "exp", "pos", "n_exp", "out_count",
              "out_offset">>
AlpRd    == <<"l_ffor", "l_bw", "l_base", "r_ffor", "r_bw", "r_base",
              "rd_exception", "rd_pos", "rd_n_exc", "rd_dict">>

\* The segments of an encoding operator in the order of MoveSegments.
SegmentsOf(o) ==
  CASE o.op \in {"uncompressed", "validitymask"} -> <<"values">>
    [] o.op = "str_uncompressed" -> <<"bytes", "lengths">>
    [] o.op = "ffor"             -> <<"bitpacked", "bitwidth", "base">>
    [] o.op = "slpatch"          -> Patching
    [] o.op = "rsum"             -> <<"bases">>
    [] o.op = "rle_map"          -> <<"rle_vals">>
    [] o.op = "rle_map_str"      -> <<"rle_vals", "rle_offsets">>
    [] o.op = "dict"             -> <<"keys">>
    [] o.op = "dict_str"         -> <<"key_offsets", "key_bytes">>
    [] o.op = "fsst"             -> <<"fsst_header", "fsst_bytes", "fsst_offsets">>
    [] o.op = "fsst_dict"        -> <<"dict_header", "dict_bytes", "dict_offsets">>
    [] o.op = "null"             -> <<"vals", "vals_position", "n_vals">>
    [] o.op = "frequency"        -> <<"frequent", "exceptions", "exception_positions", "n_exceptions">>
    [] o.op = "frequency_str"    -> <<"frequent", "frequent_size", "n_exceptions",
                                      "exception_positions", "exceptions", "exception_offsets">>
    [] o.op = "cross_rle"        -> <<"run_values", "run_lengths">>
    [] o.op = "cross_rle_str"    -> <<"run_values", "run_offsets", "run_lengths">>
    [] o.op = "alp"              -> IF o.data_parallelize THEN Galp ELSE Alp
    [] o.op = "alp_rd"           -> AlpRd
    [] OTHER                     -> <<>>

\* The segments written once per rowgroup, by Finalize.
BlockBased ==
  {"keys", "key_offsets", "key_bytes", "fsst_header", "dict_header", "dict_bytes", "dict_offsets",
   "frequent", "frequent_size", "run_values", "run_offsets", "run_lengths", "rd_dict"}

\* The operators that put no operand token down: they are found at fixed
\* segment indexes.
Tokenless == {"alp", "alp_rd"}

\* The expressions whose tokens are written as literals, the cursor unmoved.
Literal == {"uncompressed", "validitymask", "str_uncompressed"}

\* What stands in one entry of a segment of operator o.
Entry(o, role, v) == [role |-> role, col |-> col, vec |-> v, by |-> o.reads]

Fresh == [cur_operator |-> 0, cur_operand |-> 0]

\* The operand tokens the wizard has put down before any operator is built.
WizardTokens(ch) == IF ch.of = 0 THEN <<>> ELSE <<ch.of - 1>>

Junk == [col |-> 0, vec |-> 0, by |-> <<>>]

Init ==
  /\ schema \in Schemas
  /\ phase = "encode" /\ col = 1 /\ state = Fresh
  /\ enc = <<>> /\ segs = <<>> /\ vec_idx = 0
  /\ file = [c \in Cols |-> <<>>]
  /\ tokens = [c \in Cols |-> WizardTokens(schema[c])]
  /\ dec = [c \in Cols |-> <<>>] /\ ops = [c \in Cols |-> <<>>]
  /\ n_active = [c \in Cols |-> 0]
  /\ bufs = [c \in Cols |-> <<>>]
  /\ chunk = 0 /\ next_vec = 0
  /\ out = [c \in Cols |-> <<>>]

\* FLS_UNREACHABLE(), and the exceptions the interpreters throw for tokens they
\* have no case for.
FLS_UNREACHABLE ==
  /\ phase' = "unreachable"
  /\ UNCHANGED <<schema, col, state, encVars, decVars, readVars>>

-----------------------------------------------------------------------------
(* Building and running the encoding operators of column col *)

EncChain == EncChains[schema[col].expr]

\* The operators that take their input from operators[cur_operator++] ...
FollowsCursor == {"transpose", "rsum", "data_parallel_patch"}

\* ... and the ones that take it from operators.back().
FollowsBack == {"analyze", "analyze_patch", "slpatch", "ffor"}

\* The overloads of the visitor of each constructor.
EncAccepts ==
  [transpose           |-> {"scan", "fsst", "rle_map", "rle_map_str", "dict_map"},
   rsum                |-> {"scan", "transpose"},
   data_parallel_patch |-> {"alp"},
   analyze             |-> {"scan", "rsum", "dict_map"},
   analyze_patch       |-> {"scan", "rsum", "dict_map"},
   slpatch             |-> {"analyze_patch"},
   ffor                |-> {"analyze", "analyze_patch"}]

\* Mutant: ffor looks at the last operator only.
FforSourceLast == Len(enc)

\* ffor behind slpatch steps back to the analyze operator in front of it.
FforSource == IF Last(enc).op = "slpatch" THEN Len(enc) - 1 ELSE Len(enc)

\* The position in enc an operator takes its input from; 0 for those reading the column.
SourceOf(op) ==
  CASE op \in FollowsCursor -> state.cur_operator + 1
    [] op = "ffor"          -> FforSource
    [] op \in FollowsBack \ {"ffor"} -> Len(enc)
    [] OTHER                -> 0

\* What an operator reads and what it leaves to the next one, as
\* transformations of the column: ffor packs a vector whose exceptions are
\* patched elsewhere, with holes.
Reads(op, s) ==
  CASE s = 0 -> <<>>
    [] op = "ffor" /\ enc[s].op = "analyze_patch" -> Append(enc[s].gives, "holes")
    [] OTHER -> enc[s].gives

Gives(op, in) ==
  CASE op = "transpose" -> Append(in, "transpose")
    [] op = "rsum"      -> Append(in, "delta")
    [] op = "dict_map"  -> <<"index">>
    [] op = "fsst"      -> <<"offsets">>
    [] op \in {"rle_map", "rle_map_str"} -> <<"runs">>
    [] OTHER            -> in

Operator(op, s) ==
  [op |-> op, temporary |-> {}, data_parallelize |-> FALSE,
   reads |-> Reads(op, s), gives |-> Gives(op, Reads(op, s))]

\* What a constructor does to the operator it takes its input from: transpose
\* takes the offsets of fsst over, data_parallel_patch sets a flag of alp.
SourceAfter(op, o) ==
  CASE op = "transpose" /\ o.op = "fsst" -> [o EXCEPT !.temporary = {"fsst_offsets"}]
    [] op = "data_parallel_patch"        -> [o EXCEPT !.data_parallelize = TRUE]
    [] OTHER                             -> o

Counted(n) == [k \in 1 .. n |-> state.cur_operand + k - 1]

\* Mutant: the token of the offsets segment stays although the segment does not.
OffsetsTokenKept(op, s) ==
  LET own == IF op \in Tokenless THEN 0 ELSE Len(SegmentsOf(Operator(op, s)))
  IN [tokens |-> tokens[col] \o Counted(own), cur |-> state.cur_operand + own]

\* The operands after the construction of op over the operator o: the tokens
\* of the column and the cursor.
OperandsAfter(op, s) ==
  LET own == IF op \in Tokenless THEN 0 ELSE Len(SegmentsOf(Operator(op, s)))
      ts  == tokens[col]
  IN IF op = "transpose" /\ enc[s].op = "fsst"
       THEN [tokens |-> Front(ts), cur |-> state.cur_operand - 1]
       ELSE [tokens |-> ts \o Counted(own),
             cur    |-> state.cur_operand + IF op \in Literal THEN 0 ELSE own]

CursorAfter(op) ==
  IF op \in FollowsCursor \cup {"dict", "dict_str", "fsst_dict"}
    THEN state.cur_operator + 1
    ELSE state.cur_operator

\* The next constructor of the make_enc_*_expr of the column.
ConstructEncoder ==
  /\ phase = "encode" /\ vec_idx = 0 /\ Len(enc) < Len(EncChain)
  /\ LET op == EncChain[Len(enc) + 1]
         s  == SourceOf(op)
     IN IF ~ HasEncoder(schema[col]) \/ (s # 0 /\ enc[s].op \notin EncAccepts[op])
          THEN FLS_UNREACHABLE
          ELSE /\ enc' = Append(IF s = 0 THEN enc ELSE [enc EXCEPT ![s] = SourceAfter(op, @)],
                                Operator(op, s))
               /\ tokens' = [tokens EXCEPT ![col] = OperandsAfter(op, s).tokens]
               /\ state' = [cur_operator |-> CursorAfter(op), cur_operand |-> OperandsAfter(op, s).cur]
               /\ UNCHANGED <<schema, phase, col, segs, vec_idx, file, decVars, readVars>>

\* PhysicalExpr::extract_segments: the segments of all operators of the column
\* in order, without the temporary ones, each with its operator.
Persistent ==
  Joined([k \in DOMAIN enc |->
    LET kept == Kept(SegmentsOf(enc[k]), ToSet(SegmentsOf(enc[k])) \ enc[k].temporary)
    IN [i \in DOMAIN kept |-> [opr |-> enc[k], role |-> kept[i]]]])

\* Mutant: one vector too many.
VectorsLeftOrOne == vec_idx <= NumVectors

VectorsLeft == vec_idx < NumVectors

\* One vector through the chain: every vector segment gets an entry.
ExecuteVector ==
  /\ phase = "encode" /\ Len(enc) = Len(EncChain) /\ VectorsLeft
  /\ vec_idx' = vec_idx + 1
  /\ segs' = [i \in DOMAIN Persistent |->
                LET s     == Persistent[i]
                    so_far == IF i \in DOMAIN segs THEN segs[i] ELSE <<>>
                IN IF s.role \in BlockBased THEN so_far
                   ELSE Append(so_far, Entry(s.opr, s.role, vec_idx + 1))]
  /\ UNCHANGED <<schema, phase, col, state, enc, file, tokens, decVars, readVars>>

\* Finalize, Flush and the next column; after the last one the file is opened.
FinalizeAndFlush ==
  /\ phase = "encode" /\ vec_idx = NumVectors
  /\ LET flushed(s, i) ==
           IF s.role \in BlockBased THEN <<Entry(s.opr, s.role, 0)>> ELSE segs[i]
     IN file' = [file EXCEPT ![col] = [i \in DOMAIN Persistent |-> flushed(Persistent[i], i)]]
  /\ enc' = <<>> /\ segs' = <<>> /\ vec_idx' = 0 /\ state' = Fresh
  /\ IF col < Len(schema)
       THEN col' = col + 1 /\ phase' = "encode"
       ELSE col' = 1 /\ phase' = "decode"
  /\ UNCHANGED <<schema, tokens, decVars, readVars>>

-----------------------------------------------------------------------------
(* Building the decoding operators *)

Chain == DecChains[schema[col].expr]

\* Where the decoder starts counting the operand tokens down from.
FirstOperand ==
  IF schema[col].expr \in {"dict", "dict_str"} \cup Literal THEN 0 ELSE Len(tokens[col]) - 1

\* The operand tokens each operator takes and leaves the cursor below, given
\* what the prefix sum takes.
OperandsTaken(by_rsum) ==
  [unffor |-> 3, slpatch |-> 3, rsum |-> by_rsum, transpose |-> 0, scan |-> 0, fsst |-> 0,
   rle_map |-> 1, rle_map_str |-> 2, dict |-> 1, dict_str |-> 1, fsst_dict |-> 3, null |-> 3,
   frequency |-> 4, frequency_str |-> 6, cross_rle |-> 2, cross_rle_str |-> 3, constant |-> 0,
   alp |-> 0, alp_rd |-> 0, uncompressed |-> 0, validitymask |-> 0, str_uncompressed |-> 0]

\* Mutant: the prefix sum leaves the cursor where it is.
RsumTakesNone == OperandsTaken(0)

NumOperands == OperandsTaken(1)

\* The segment indexes an operator passes to ColumnView::GetSegment.
Indexes(op, cur) ==
  LET n   == NumOperands[op]
      ts  == tokens[col]
  IN CASE op = "fsst"     -> <<0, 1>>
       [] op = "dict_str" -> <<0, 1>>
       [] op = "scan"     -> <<2>>
       [] op = "rsum"     -> <<cur>>
       [] op = "alp"      -> [k \in 1 .. 8 |-> k - 1]
       [] op = "alp_rd"   -> [k \in 1 .. 10 |-> k - 1]
       [] op \in {"uncompressed", "validitymask"} -> <<Last(ts)>>
       [] op = "str_uncompressed" -> <<ts[1], ts[2]>>
       [] OTHER           -> [k \in 1 .. n |-> ts[cur - n + k + 1]]

\* What an operator takes the segments behind these indexes for.
DecViews(op) ==
  CASE op \in {"uncompressed", "validitymask"} -> <<"values">>
    [] op = "str_uncompressed" -> <<"bytes", "lengths">>
    [] op = "unffor"        -> <<"bitpacked", "bitwidth", "base">>
    [] op = "slpatch"       -> Patching
    [] op = "rsum"          -> <<"bases">>
    [] op = "scan"          -> <<"fsst_offsets">>
    [] op = "fsst"          -> <<"fsst_header", "fsst_bytes">>
    [] op = "rle_map"       -> <<"rle_vals">>
    [] op = "rle_map_str"   -> <<"rle_vals", "rle_offsets">>
    [] op = "dict"          -> <<"keys">>
    [] op = "dict_str"      -> <<"key_offsets", "key_bytes">>
    [] op = "fsst_dict"     -> <<"dict_header", "dict_bytes", "dict_offsets">>
    [] op = "null"          -> <<"vals", "vals_position", "n_vals">>
    [] op = "frequency"     -> <<"frequent", "exceptions", "exception_positions", "n_exceptions">>
    [] op = "frequency_str" -> <<"frequent", "frequent_size", "n_exceptions",
                                 "exception_positions", "exceptions", "exception_offsets">>
    [] op = "cross_rle"     -> <<"run_values", "run_lengths">>
    [] op = "cross_rle_str" -> <<"run_values", "run_offsets", "run_lengths">>
    [] op = "alp"           -> Alp
    [] op = "alp_rd"        -> AlpRd
    [] OTHER                -> <<>>

\* References: <<c, k>> is operator k of column c, <<c, 0>> the expression of column c.
Op(r) == dec[r[1]][r[2]]

\* The first operator of each expression, through the expressions put in front
\* of it: the visitors of the dictionaries recurse into operators[0].
RootOf ==
  LET root[c \in 1 .. col] == IF ops[c][1][2] = 0 THEN root[ops[c][1][1]] ELSE ops[c][1]
  IN root

BehindBack  == {"slpatch", "rsum", "transpose", "rle_map", "rle_map_str", "fsst"}
BehindFirst == {"dict", "dict_str", "fsst_dict"}

DecAccepts ==
  [slpatch |-> {"unffor"}, rsum |-> {"unffor", "slpatch"}, transpose |-> {"rsum"},
   rle_map |-> {"rsum"}, rle_map_str |-> {"rsum"}, fsst |-> {"scan", "rsum"},
   dict |-> {"unffor"}, dict_str |-> {"unffor"}, fsst_dict |-> {"unffor"}]

\* The operator whose buffer op reads; <<0, 0>> for the ones that read segments only.
InputOf(op) ==
  CASE op \in BehindBack  -> Last(ops[col])
    [] op \in BehindFirst -> RootOf[col]
    [] OTHER              -> <<0, 0>>

\* A patching operator has no buffer: it exposes the one it patches.
BufferOf(r) == IF r[1] # 0 /\ Op(r).op = "slpatch" THEN Op(r).from ELSE r

\* The visitor has an overload for the input, of the index type of the dictionary.
Matches(op, r) ==
  \/ r = <<0, 0>>
  \/ /\ Op(r).op \in DecAccepts[op]
     /\ op \in BehindFirst => schema[r[1]].index = schema[col].index

\* An operator that is made for this column: it takes its segments by index and
\* its input by position.
ConstructOperator(op, cur) ==
  LET r == InputOf(op)
  IN IF ~ Matches(op, r)
       THEN FLS_UNREACHABLE
       ELSE /\ dec' = [dec EXCEPT ![col] =
                         Append(@, [op |-> op, indexes |-> Indexes(op, cur), views |-> DecViews(op),
                                    from |-> BufferOf(r)])]
            /\ ops' = [ops EXCEPT ![col] = Append(@, <<col, Len(dec[col]) + 1>>)]
            /\ bufs' = [bufs EXCEPT ![col] = Append(@, Junk)]
            /\ state' = [state EXCEPT !.cur_operand = cur - NumOperands[op]]
            /\ UNCHANGED <<schema, phase, col, encVars, n_active, chunk, next_vec, out>>

\* The next emplace_back of the make_dec_*_expr of the column.
ConstructDecoder ==
  /\ phase = "decode" /\ Len(ops[col]) < Len(Chain)
  /\ LET op    == Chain[Len(ops[col]) + 1]
         first == Len(ops[col]) = 0
         cur   == IF first THEN FirstOperand ELSE state.cur_operand
         of    == tokens[col][1] + 1
     IN CASE ~ HasDecoder(schema[col]) -> FLS_UNREACHABLE
          [] HasDecoder(schema[col]) /\ op = "first_column" ->
               /\ ops' = [ops EXCEPT ![col] = <<<<of, 0>>>>]
               /\ state' = [state EXCEPT !.cur_operand =
                              IF schema[col].expr = "fsst_dict" THEN cur ELSE cur + 1]
               /\ UNCHANGED <<schema, phase, col, encVars, dec, n_active, readVars>>
          [] HasDecoder(schema[col]) /\ op = "shared" ->
               /\ ops' = [ops EXCEPT ![col] = <<Last(ops[of])>>]
               /\ UNCHANGED <<schema, phase, col, state, encVars, dec, n_active, readVars>>
          [] OTHER -> ConstructOperator(op, cur)

\* Mutant: patching is not counted.
ActiveWithoutPatching == {"unffor", "rsum", "scan", "alp", "alp_rd", "frequency", "frequency_str"}

\* ExprExecutor::CountOperator: the operators whose visit runs something.
ActiveOps == {"unffor", "slpatch", "rsum", "scan", "alp", "alp_rd", "frequency", "frequency_str"}

\* The expression is complete: its active operators are counted, and it is
\* put into m_expressions.
NextExpression ==
  /\ phase = "decode" /\ Len(ops[col]) = Len(Chain)
  /\ n_active' = [n_active EXCEPT ![col] =
                    Cardinality({k \in DOMAIN ops[col] :
                                   ops[col][k][2] # 0 /\ Op(ops[col][k]).op \in ActiveOps})]
  /\ state' = Fresh
  /\ IF col < Len(schema)
       THEN col' = col + 1 /\ UNCHANGED phase
       ELSE phase' = "read" /\ UNCHANGED col
  /\ UNCHANGED <<schema, encVars, dec, ops, readVars>>

-----------------------------------------------------------------------------
(* Reading *)

NoEntry == [role |-> "none", col |-> 0, vec |-> 0, by |-> <<>>]

\* SegmentView::PointTo: a block-based segment has one entry.
EntryAt(c, index, v) ==
  IF index + 1 \notin DOMAIN file[c] THEN NoEntry
  ELSE LET seg == file[c][index + 1] IN IF v \in DOMAIN seg THEN seg[v] ELSE seg[1]

\* What the segment views of an operator add up to for vector v: a vector of
\* the column if each of them is what the operator takes it for, of one column,
\* vector and form.
Assembled(c, o, v) ==
  LET parts == [k \in DOMAIN o.views |-> EntryAt(c, o.indexes[k], v)]
      first == parts[1]
      fits(k) == /\ parts[k].role = o.views[k]
                 /\ parts[k].col = first.col /\ parts[k].by = first.by
                 /\ parts[k].vec = IF o.views[k] \in BlockBased THEN 0 ELSE v
  IN IF o.views = <<>> THEN [col |-> c, vec |-> v, by |-> <<>>]
     ELSE IF \A k \in DOMAIN o.views : fits(k) THEN [col |-> first.col, vec |-> v, by |-> first.by]
     ELSE Junk

Holey(x) == [x EXCEPT !.by = Append(@, "holes")]

\* The buffers after one operator has run on vector v (operator_visitor); b are
\* the buffers before.  Patching writes into the buffer of another operator,
\* where it finds the exceptions patched already when it runs again.
RunOperator(b, r, v) ==
  LET o     == Op(r)
      read  == Assembled(r[1], o, v)
      input == IF o.from = <<0, 0>> THEN Junk ELSE b[o.from[1]][o.from[2]]
      put(at, x) == [b EXCEPT ![at[1]][at[2]] = x]
  IN CASE o.op \in {"unffor", "scan", "alp", "alp_rd", "frequency", "frequency_str"} -> put(r, read)
       [] o.op = "slpatch" ->
            put(o.from, IF read # Junk /\ input \in {read, Holey(read)} THEN read ELSE Junk)
       [] o.op = "rsum" ->
            put(r, IF read # Junk /\ input = [read EXCEPT !.by = Append(@, "delta")]
                     THEN read ELSE Junk)
       [] OTHER -> b

\* ExprExecutor::smart_execute: the first n_active operators of a column.
RunColumn(b, c, v) ==
  LET run[k \in 0 .. n_active[c]] ==
        IF k = 0 THEN b ELSE RunOperator(run[k - 1], ops[c][k], v)
  IN run[n_active[c]]

\* The columns in order.
GetChunk(v) ==
  LET run[c \in 0 .. Len(schema)] == IF c = 0 THEN bufs ELSE RunColumn(run[c - 1], c, v)
  IN run[Len(schema)]

\* The index of a dictionary, from the column its keys are indexed by.
RootColumn ==
  LET root[c \in Cols] == IF schema[c].expr \in External THEN root[schema[c].of] ELSE c
  IN root

\* The overloads of material_visitor: what the last operator of a column hands over.
Materialized(r, v, b) ==
  LET o     == Op(r)
      c     == r[1]
      read  == Assembled(c, o, v)
      input == IF o.from = <<0, 0>> THEN Junk ELSE b[o.from[1]][o.from[2]]
      term(x, by) == [col |-> x, vec |-> v, by |-> by]
  IN CASE o.op \in {"unffor", "alp", "alp_rd", "frequency", "frequency_str"} -> b[c][r[2]]
       [] o.op = "slpatch"   -> input
       [] o.op = "transpose" -> IF input.by = <<"transpose">> THEN [input EXCEPT !.by = <<>>] ELSE Junk
       [] o.op \in {"rle_map", "rle_map_str"} ->
            IF read = term(c, <<>>) /\ input = term(c, <<"runs", "transpose">>) THEN read ELSE Junk
       [] o.op = "fsst" ->
            IF read = term(c, <<>>) /\ input = term(c, <<"offsets", "transpose">>) THEN read ELSE Junk
       [] o.op \in BehindFirst ->
            IF read = term(c, <<>>) /\ input = term(RootColumn[c], <<"index">>) THEN read ELSE Junk
       [] OTHER -> read

\* RowgroupReader::get_chunk, on any vector in any order.
GetChunkAt(v) ==
  /\ phase = "read" /\ next_vec = 0
  /\ bufs' = GetChunk(v) /\ chunk' = v
  /\ UNCHANGED <<schema, phase, col, state, encVars, decVars, next_vec, out>>

\* Mutant: the loop ends before the last vector.
NextVecShort == IF next_vec + 1 >= NumVectors THEN 0 ELSE next_vec + 1

\* The loop of materialize: the vector it takes next, 0 behind the last.
NextVec == IF next_vec = NumVectors THEN 0 ELSE next_vec + 1

\* RowgroupReader::materialize: an empty rowgroup ...
StartMaterialize ==
  /\ phase = "read" /\ next_vec = 0
  /\ next_vec' = 1 /\ out' = [c \in Cols |-> <<>>]
  /\ UNCHANGED <<schema, phase, col, state, encVars, decVars, bufs, chunk>>

\* ... and, for each vector in order, get_chunk and Materializer::Materialize.
MaterializeVector ==
  /\ phase = "read" /\ next_vec # 0
  /\ bufs' = GetChunk(next_vec) /\ chunk' = next_vec
  /\ out' = [c \in Cols |-> Append(out[c], Materialized(Last(ops[c]), next_vec, bufs'))]
  /\ next_vec' = NextVec
  /\ UNCHANGED <<schema, phase, col, state, encVars, decVars>>

Next ==
  \/ ConstructEncoder \/ ExecuteVector \/ FinalizeAndFlush
  \/ ConstructDecoder \/ NextExpression
  \/ \E v \in Vectors : GetChunkAt(v)
  \/ StartMaterialize \/ MaterializeVector

Spec == Init /\ [][Next]_vars

\* The steps inside to_fls, the constructor of RowgroupReader and materialize: one
\* thread runs each of them to its end.  Whether a client fetches a chunk or
\* materializes the rowgroup is its own choice.
CallStep ==
  \/ ConstructEncoder \/ ExecuteVector \/ FinalizeAndFlush
  \/ ConstructDecoder \/ NextExpression
  \/ MaterializeVector

FairSpec == Spec /\ WF_vars(CallStep)

-----------------------------------------------------------------------------
(* Properties *)

Forms == {"transpose", "delta", "index", "offsets", "runs", "holes"}

Term == [col : 0 .. Len(schema), vec : 0 .. NumVectors, by : Seq(Forms)]

\* Every variable keeps its type: in particular the operand cursor never runs
\* past the tokens while a chain is built.
TypeOK ==
  /\ schema \in Seq(Choice)
  /\ phase \in {"encode", "decode", "read", "unreachable"}
  /\ col \in Cols /\ vec_idx \in 0 .. NumVectors
  /\ state.cur_operator \in 0 .. 2 /\ state.cur_operand \in -1 .. Len(tokens[col])
  /\ \A c \in Cols : /\ tokens[c] \in Seq(Nat)
                     /\ n_active[c] \in 0 .. Len(ops[c])
                     /\ bufs[c] \in Seq(Term) /\ Len(bufs[c]) = Len(dec[c])
                     /\ out[c] \in Seq(Term)
  /\ chunk \in 0 .. NumVectors /\ next_vec \in 0 .. NumVectors

\* No visitor and no switch of the interpreters falls into FLS_UNREACHABLE: an
\* expression that has a decoder has an encoder, and each operator finds behind
\* it an operator it has an overload for.
NoUnreachable == phase # "unreachable"

\* The tokens a column's own operators put down count the segments its flush
\* keeps, 0, 1, 2, ...: a segment an operator took over leaves no token behind.
TokensNameSegments ==
  \A c \in Cols :
    LET own == SubSeq(tokens[c], Len(WizardTokens(schema[c])) + 1, Len(tokens[c]))
    IN (phase \in {"decode", "read"} /\ own # <<>>) =>
         own = [k \in DOMAIN file[c] |-> k - 1]

\* After get_chunk(v), whatever chunk was fetched before, the buffer of every
\* active operator holds vector v with its exceptions patched in.
ChunkIsCurrent ==
  (phase = "read" /\ chunk # 0) =>
    \A c \in Cols : \A k \in DOMAIN dec[c] :
      dec[c][k].op \in {"unffor", "scan", "rsum", "alp", "alp_rd", "frequency", "frequency_str"} =>
        /\ bufs[c][k].vec = chunk
        /\ "holes" \notin ToSet(bufs[c][k].by)

\* The column an equal column stands for.
Original(c) == IF schema[c].expr = "equal" THEN schema[c].of ELSE c

\* A materialized column is the column that was encoded, vector for vector:
\* each decoder finds its segments, its input and the order of its chain.
RoundTrip ==
  \A c \in Cols : \A v \in DOMAIN out[c] :
    out[c][v] = [col |-> Original(c), vec |-> v, by |-> <<>>]

\* Each rowgroup is encoded and opened for reading in the end, and a
\* materialization that is begun hands over every vector of every column,
\* whatever chunks were fetched before.
EveryVectorDelivered ==
  /\ <>(phase = "read")
  /\ next_vec # 0 ~> (next_vec = 0 /\ \A c \in Cols : Len(out[c]) = NumVectors)
=============================================================================
