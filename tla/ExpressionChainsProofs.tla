------------------------ MODULE ExpressionChainsProofs ------------------------
(***************************************************************************)
(* Proofs about ExpressionChains, for every rowgroup the wizard leaves.    *)
(* Each expression has a row in the tables below: what its operators read  *)
(* and give, how many operands there are behind each of them, and the      *)
(* segments it leaves.  That the rules of the constructors lead to these   *)
(* rows is checked row by row; the invariant then follows the operators.   *)
(***************************************************************************)
EXTENDS ExpressionChains, DataLemmas

-----------------------------------------------------------------------------
(* Tables *)

RleExprs   == {"rle", "rle_slpatch", "rle_str", "rle_str_slpatch"}
FsstDeltas == {"fsst_delta", "fsst_delta_slpatch"}
OwnDicts   == Dictionaries \ External
Patchable  == {"ffor_slpatch", "rle_slpatch", "rle_str_slpatch", "dict_ffor_slpatch",
               "dict_str_ffor_slpatch", "fsst_dict_ffor_slpatch", "fsst_delta_slpatch"}

\* What a prefix sum is taken of, before and after its transposition, and what is
\* packed.
BaseOf(e) ==
  CASE e \in RleExprs   -> <<"runs">>
    [] e \in FsstDeltas -> <<"offsets">>
    [] OTHER            -> <<>>

TransposedOf(e) ==
  CASE e = "delta"      -> <<"transpose">>
    [] e \in RleExprs   -> <<"runs", "transpose">>
    [] e \in FsstDeltas -> <<"offsets", "transpose">>
    [] OTHER            -> <<>>

PackedOf(e) ==
  CASE e = "delta"      -> <<"transpose", "delta">>
    [] e \in RleExprs   -> <<"runs", "transpose", "delta">>
    [] e \in FsstDeltas -> <<"offsets", "transpose", "delta">>
    [] e \in OwnDicts   -> <<"index">>
    [] OTHER            -> <<>>

HoleyOf(e) == IF e \in Patchable THEN Append(PackedOf(e), "holes") ELSE PackedOf(e)

\* What the operator op of expression e reads, and gives.
ReadsOf(e, op) ==
  CASE op = "transpose" -> BaseOf(e)
    [] op = "rsum"      -> TransposedOf(e)
    [] op \in {"analyze", "analyze_patch", "slpatch"} -> PackedOf(e)
    [] op = "ffor"      -> HoleyOf(e)
    [] OTHER            -> <<>>

GivesOf(e, op) ==
  CASE op \in {"rle_map", "rle_map_str"} -> <<"runs">>
    [] op = "fsst"      -> <<"offsets">>
    [] op = "dict_map"  -> <<"index">>
    [] op = "transpose" -> TransposedOf(e)
    [] op \in {"rsum", "analyze", "analyze_patch", "slpatch"} -> PackedOf(e)
    [] op = "ffor"      -> HoleyOf(e)
    [] OTHER            -> <<>>

\* The operand tokens a constructor puts down.
OwnTokens ==
  [uncompressed |-> 1, validitymask |-> 1, str_uncompressed |-> 2, scan |-> 0, analyze |-> 0,
   analyze_patch |-> 0, slpatch |-> 3, ffor |-> 3, transpose |-> 0, rsum |-> 1, rle_map |-> 1,
   rle_map_str |-> 2, dict |-> 1, dict_map |-> 0, dict_str |-> 2, fsst_dict |-> 3, fsst |-> 3,
   null |-> 3, frequency |-> 4, frequency_str |-> 6, cross_rle |-> 2, cross_rle_str |-> 3,
   alp |-> 0, data_parallel_patch |-> 0, alp_rd |-> 0]

\* The operand tokens there are behind each operator.
Counts ==
  [uncompressed           |-> <<1>>,
   validitymask           |-> <<1>>,
   str_uncompressed       |-> <<2>>,
   constant               |-> <<>>,
   equal                  |-> <<>>,
   ffor                   |-> <<0, 0, 3>>,
   ffor_slpatch           |-> <<0, 0, 3, 6>>,
   delta                  |-> <<0, 0, 1, 1, 4>>,
   rle                    |-> <<1, 1, 2, 2, 5>>,
   rle_slpatch            |-> <<1, 1, 2, 2, 5, 8>>,
   rle_str                |-> <<2, 2, 3, 3, 6>>,
   rle_str_slpatch        |-> <<2, 2, 3, 3, 6, 9>>,
   dict_ffor              |-> <<1, 1, 1, 4>>,
   dict_ffor_slpatch      |-> <<1, 1, 1, 4, 7>>,
   dict_str_ffor          |-> <<2, 2, 2, 5>>,
   dict_str_ffor_slpatch  |-> <<2, 2, 2, 5, 8>>,
   fsst_dict_ffor         |-> <<3, 3, 3, 6>>,
   fsst_dict_ffor_slpatch |-> <<3, 3, 3, 6, 9>>,
   dict                   |-> <<1>>,
   dict_str               |-> <<2>>,
   fsst_dict              |-> <<3>>,
   fsst                   |-> <<3>>,
   fsst_delta             |-> <<3, 2, 3, 3, 6>>,
   fsst_delta_slpatch     |-> <<3, 2, 3, 3, 6, 9>>,
   null                   |-> <<3>>,
   frequency              |-> <<4>>,
   frequency_str          |-> <<6>>,
   cross_rle              |-> <<2>>,
   cross_rle_str          |-> <<3>>,
   alp                    |-> <<0>>,
   galp                   |-> <<0, 0>>,
   alp_rd                 |-> <<0>>]

CountAt(e, n) == IF n = 0 THEN 0 ELSE Counts[e][n]

\* The segments an operator leaves, but for the ones it has handed over.
KeptOf(e, op) ==
  CASE op \in {"uncompressed", "validitymask"} -> <<"values">>
    [] op = "str_uncompressed" -> <<"bytes", "lengths">>
    [] op = "ffor"             -> <<"bitpacked", "bitwidth", "base">>
    [] op = "slpatch"          -> Patching
    [] op = "rsum"             -> <<"bases">>
    [] op = "rle_map"          -> <<"rle_vals">>
    [] op = "rle_map_str"      -> <<"rle_vals", "rle_offsets">>
    [] op = "dict"             -> <<"keys">>
    [] op = "dict_str"         -> <<"key_offsets", "key_bytes">>
    [] op = "fsst"             -> <<"fsst_header", "fsst_bytes">>
    [] op = "fsst_dict"        -> <<"dict_header", "dict_bytes", "dict_offsets">>
    [] op = "null"             -> <<"vals", "vals_position", "n_vals">>
    [] op = "frequency"        -> <<"frequent", "exceptions", "exception_positions", "n_exceptions">>
    [] op = "frequency_str"    -> <<"frequent", "frequent_size", "n_exceptions",
                                    "exception_positions", "exceptions", "exception_offsets">>
    [] op = "cross_rle"        -> <<"run_values", "run_lengths">>
    [] op = "cross_rle_str"    -> <<"run_values", "run_offsets", "run_lengths">>
    [] op = "alp"              -> IF e = "galp" THEN Galp ELSE Alp
    [] op = "alp_rd"           -> AlpRd
    [] OTHER                   -> <<>>

\* The segments of a column.
Roles ==
  [uncompressed           |-> <<"values">>,
   validitymask           |-> <<"values">>,
   str_uncompressed       |-> <<"bytes", "lengths">>,
   constant               |-> <<>>,
   equal                  |-> <<>>,
   ffor                   |-> <<"bitpacked", "bitwidth", "base">>,
   ffor_slpatch           |-> <<"exceptions", "exception_positions", "n_exceptions",
                                "bitpacked", "bitwidth", "base">>,
   delta                  |-> <<"bases", "bitpacked", "bitwidth", "base">>,
   rle                    |-> <<"rle_vals", "bases", "bitpacked", "bitwidth", "base">>,
   rle_slpatch            |-> <<"rle_vals", "bases", "exceptions", "exception_positions",
                                "n_exceptions", "bitpacked", "bitwidth", "base">>,
   rle_str                |-> <<"rle_vals", "rle_offsets", "bases", "bitpacked", "bitwidth",
                                "base">>,
   rle_str_slpatch        |-> <<"rle_vals", "rle_offsets", "bases", "exceptions",
                                "exception_positions", "n_exceptions", "bitpacked", "bitwidth",
                                "base">>,
   dict_ffor              |-> <<"keys", "bitpacked", "bitwidth", "base">>,
   dict_ffor_slpatch      |-> <<"keys", "exceptions", "exception_positions", "n_exceptions",
                                "bitpacked", "bitwidth", "base">>,
   dict_str_ffor          |-> <<"key_offsets", "key_bytes", "bitpacked", "bitwidth", "base">>,
   dict_str_ffor_slpatch  |-> <<"key_offsets", "key_bytes", "exceptions",
                                "exception_positions", "n_exceptions", "bitpacked", "bitwidth",
                                "base">>,
   fsst_dict_ffor         |-> <<"dict_header", "dict_bytes", "dict_offsets", "bitpacked",
                                "bitwidth", "base">>,
   fsst_dict_ffor_slpatch |-> <<"dict_header", "dict_bytes", "dict_offsets", "exceptions",
                                "exception_positions", "n_exceptions", "bitpacked", "bitwidth",
                                "base">>,
   dict                   |-> <<"keys">>,
   dict_str               |-> <<"key_offsets", "key_bytes">>,
   fsst_dict              |-> <<"dict_header", "dict_bytes", "dict_offsets">>,
   fsst                   |-> <<"fsst_header", "fsst_bytes", "fsst_offsets">>,
   fsst_delta             |-> <<"fsst_header", "fsst_bytes", "bases", "bitpacked", "bitwidth",
                                "base">>,
   fsst_delta_slpatch     |-> <<"fsst_header", "fsst_bytes", "bases", "exceptions",
                                "exception_positions", "n_exceptions", "bitpacked", "bitwidth",
                                "base">>,
   null                   |-> <<"vals", "vals_position", "n_vals">>,
   frequency              |-> <<"frequent", "exceptions", "exception_positions", "n_exceptions">>,
   frequency_str          |-> <<"frequent", "frequent_size", "n_exceptions",
                                "exception_positions", "exceptions", "exception_offsets">>,
   cross_rle              |-> <<"run_values", "run_lengths">>,
   cross_rle_str          |-> <<"run_values", "run_offsets", "run_lengths">>,
   alp                    |-> Alp,
   galp                   |-> Galp,
   alp_rd                 |-> AlpRd]

\* How many of them there are behind each operator.
Ends ==
  [uncompressed           |-> <<1>>,
   validitymask           |-> <<1>>,
   str_uncompressed       |-> <<2>>,
   constant               |-> <<>>,
   equal                  |-> <<>>,
   ffor                   |-> <<0, 0, 3>>,
   ffor_slpatch           |-> <<0, 0, 3, 6>>,
   delta                  |-> <<0, 0, 1, 1, 4>>,
   rle                    |-> <<1, 1, 2, 2, 5>>,
   rle_slpatch            |-> <<1, 1, 2, 2, 5, 8>>,
   rle_str                |-> <<2, 2, 3, 3, 6>>,
   rle_str_slpatch        |-> <<2, 2, 3, 3, 6, 9>>,
   dict_ffor              |-> <<1, 1, 1, 4>>,
   dict_ffor_slpatch      |-> <<1, 1, 1, 4, 7>>,
   dict_str_ffor          |-> <<2, 2, 2, 5>>,
   dict_str_ffor_slpatch  |-> <<2, 2, 2, 5, 8>>,
   fsst_dict_ffor         |-> <<3, 3, 3, 6>>,
   fsst_dict_ffor_slpatch |-> <<3, 3, 3, 6, 9>>,
   dict                   |-> <<1>>,
   dict_str               |-> <<2>>,
   fsst_dict              |-> <<3>>,
   fsst                   |-> <<3>>,
   fsst_delta             |-> <<2, 2, 3, 3, 6>>,
   fsst_delta_slpatch     |-> <<2, 2, 3, 3, 6, 9>>,
   null                   |-> <<3>>,
   frequency              |-> <<4>>,
   frequency_str          |-> <<6>>,
   cross_rle              |-> <<2>>,
   cross_rle_str          |-> <<3>>,
   alp                    |-> <<8>>,
   galp                   |-> <<10, 10>>,
   alp_rd                 |-> <<10>>]

EndOf(e, n) == IF n = 0 THEN 0 ELSE Ends[e][n]

\* What the writer of a segment has read.
ReadsAt(e, role) ==
  CASE role \in {"bitpacked", "bitwidth", "base"} -> HoleyOf(e)
    [] role \in {"exceptions", "exception_positions", "n_exceptions"} /\ e \in Patchable -> PackedOf(e)
    [] role = "bases" -> TransposedOf(e)
    [] OTHER          -> <<>>

\* What a decoding operator finds in its segments.
FoundBy(e, op) ==
  CASE op = "unffor"  -> HoleyOf(e)
    [] op = "slpatch" -> PackedOf(e)
    [] op = "rsum"    -> TransposedOf(e)
    [] OTHER          -> <<>>

\* Where each decoding operator leaves the cursor of the operands.
Lefts ==
  [uncompressed           |-> <<0>>,
   validitymask           |-> <<0>>,
   str_uncompressed       |-> <<0>>,
   constant               |-> <<0 - 1>>,
   equal                  |-> <<0>>,
   ffor                   |-> <<0 - 1>>,
   ffor_slpatch           |-> <<2, 0 - 1>>,
   delta                  |-> <<0, 0 - 1, 0 - 1>>,
   rle                    |-> <<1, 0, 0 - 1>>,
   rle_slpatch            |-> <<4, 1, 0, 0 - 1>>,
   rle_str                |-> <<2, 1, 0 - 1>>,
   rle_str_slpatch        |-> <<5, 2, 1, 0 - 1>>,
   dict_ffor              |-> <<0, 0 - 1>>,
   dict_ffor_slpatch      |-> <<3, 0, 0 - 1>>,
   dict_str_ffor          |-> <<1, 0>>,
   dict_str_ffor_slpatch  |-> <<4, 1, 0>>,
   fsst_dict_ffor         |-> <<2, 0 - 1>>,
   fsst_dict_ffor_slpatch |-> <<5, 2, 0 - 1>>,
   dict                   |-> <<1, 0>>,
   dict_str               |-> <<1, 0>>,
   fsst_dict              |-> <<3, 0>>,
   fsst                   |-> <<2, 2>>,
   fsst_delta             |-> <<2, 1, 1>>,
   fsst_delta_slpatch     |-> <<5, 2, 1, 1>>,
   null                   |-> <<0 - 1>>,
   frequency              |-> <<0 - 1>>,
   frequency_str          |-> <<0 - 1>>,
   cross_rle              |-> <<0 - 1>>,
   cross_rle_str          |-> <<0 - 1>>,
   alp                    |-> <<0 - 1>>,
   galp                   |-> <<0 - 1>>,
   alp_rd                 |-> <<0 - 1>>]

\* Where the first one finds it.
FirstOf(e) ==
  IF e \in {"dict", "dict_str"} \cup Literal THEN 0
  ELSE CountAt(e, Len(EncChains[e])) - 1 + IF e \in External THEN 1 ELSE 0

LeftAt(e, m) == IF m = 0 THEN FirstOf(e) ELSE Lefts[e][m]

\* The index of the first segment of an operator that finds the cursor at cur.
StartAt(e, op, cur) ==
  CASE op \in {"fsst", "dict_str", "alp", "alp_rd", "uncompressed", "validitymask",
               "str_uncompressed", "transpose", "constant"} -> 0
    [] op = "rsum" -> cur
    [] OTHER -> cur - NumOperands[op] + 1 - IF e \in External THEN 1 ELSE 0

\* The segments each decoding operator begins with.
Starts ==
  [uncompressed           |-> <<0>>,
   validitymask           |-> <<0>>,
   str_uncompressed       |-> <<0>>,
   constant               |-> <<0>>,
   equal                  |-> <<0>>,
   ffor                   |-> <<0>>,
   ffor_slpatch           |-> <<3, 0>>,
   delta                  |-> <<1, 0, 0>>,
   rle                    |-> <<2, 1, 0>>,
   rle_slpatch            |-> <<5, 2, 1, 0>>,
   rle_str                |-> <<3, 2, 0>>,
   rle_str_slpatch        |-> <<6, 3, 2, 0>>,
   dict_ffor              |-> <<1, 0>>,
   dict_ffor_slpatch      |-> <<4, 1, 0>>,
   dict_str_ffor          |-> <<2, 0>>,
   dict_str_ffor_slpatch  |-> <<5, 2, 0>>,
   fsst_dict_ffor         |-> <<3, 0>>,
   fsst_dict_ffor_slpatch |-> <<6, 3, 0>>,
   dict                   |-> <<0, 0>>,
   dict_str               |-> <<0, 0>>,
   fsst_dict              |-> <<0, 0>>,
   fsst                   |-> <<2, 0>>,
   fsst_delta             |-> <<3, 2, 0>>,
   fsst_delta_slpatch     |-> <<6, 3, 2, 0>>,
   null                   |-> <<0>>,
   frequency              |-> <<0>>,
   frequency_str          |-> <<0>>,
   cross_rle              |-> <<0>>,
   cross_rle_str          |-> <<0>>,
   alp                    |-> <<0>>,
   galp                   |-> <<0>>,
   alp_rd                 |-> <<0>>]

\* The operators of a chain that run when a chunk is fetched, the first ones.
ActiveOf(e) ==
  CASE e \in OwnDicts \cup {"ffor_slpatch"} -> IF e \in Patchable THEN 2 ELSE 1
    [] e \in RleExprs \cup FsstDeltas \cup {"delta"} -> IF e \in Patchable THEN 3 ELSE 2
    [] e \in {"ffor", "alp", "galp", "alp_rd", "frequency", "frequency_str"} -> 1
    [] OTHER -> 0

-----------------------------------------------------------------------------
(* The rows of the tables *)

\* The expressions there are.
LEMMA ExpressionsAre ==
  Expressions = {"uncompressed", "validitymask", "str_uncompressed", "constant", "equal", "ffor",
    "ffor_slpatch", "delta", "rle", "rle_slpatch", "rle_str", "rle_str_slpatch", "dict_ffor",
    "dict_ffor_slpatch", "dict_str_ffor", "dict_str_ffor_slpatch", "fsst_dict_ffor",
    "fsst_dict_ffor_slpatch", "dict", "dict_str", "fsst_dict", "fsst", "fsst_delta",
    "fsst_delta_slpatch", "null", "frequency", "frequency_str", "cross_rle", "cross_rle_str",
    "alp", "galp", "alp_rd"}
BY DEF Expressions, EncChains

\* What stands in front of an encoding operator.
EncodersShaped(e) ==
  \A k \in 1 .. Len(EncChains[e]) :
    LET op   == EncChains[e][k]
        prev == EncChains[e][k - 1]
    IN  /\ k = 1 <=> op \notin FollowsCursor \cup FollowsBack \cup {"dict_map"}
        /\ op \in {"transpose", "data_parallel_patch", "dict_map"} => k = 2
        /\ op = "transpose" => e \in RleExprs \cup FsstDeltas \cup {"delta"}
        /\ op = "transpose" /\ prev = "fsst" <=> k = 2 /\ e \in FsstDeltas
        /\ op = "transpose" => prev \in {"scan", "rle_map", "rle_map_str", "fsst"}
        /\ op = "transpose" => GivesOf(e, prev) = BaseOf(e)
        /\ op = "rsum" => k = 3 /\ prev = "transpose" /\ e \in RleExprs \cup FsstDeltas \cup {"delta"}
        /\ op = "data_parallel_patch" => prev = "alp"
        /\ op = "dict_map" => prev \in {"dict", "dict_str", "fsst_dict"}
        /\ op \in {"analyze", "analyze_patch"} => prev \in {"scan", "rsum", "dict_map"}
        /\ op \in {"analyze", "analyze_patch"} => GivesOf(e, prev) = PackedOf(e)
        /\ op = "analyze" => e \notin Patchable
        /\ op = "analyze_patch" => e \in Patchable
        /\ op \in {"frequency", "frequency_str"} => e \notin Patchable
        /\ op = "slpatch" => e \in Patchable /\ prev = "analyze_patch"
        /\ op = "ffor" => IF e \in Patchable
                           THEN k > 2 /\ prev = "slpatch" /\ EncChains[e][k - 2] = "analyze_patch"
                           ELSE prev = "analyze"
        /\ op = "fsst" => k = 1 /\ k < Len(EncChains[e]) /\ EncChains[e][2] = "transpose"
        /\ op = "alp" /\ k < Len(EncChains[e]) <=> e = "galp" /\ k = 1

\* What the constructors of the encoding operators put down.
EncodersCounted(e) ==
  /\ Len(EncChains[e]) \in Nat /\ Len(Counts[e]) = Len(EncChains[e])
  /\ \A k \in 1 .. Len(EncChains[e]) :
       /\ EncChains[e][k] \in DOMAIN OwnTokens
       /\ CountAt(e, k) \in Nat
       /\ CountAt(e, k) = IF k = 2 /\ e \in FsstDeltas THEN CountAt(e, 1) - 1
                          ELSE CountAt(e, k - 1) + OwnTokens[EncChains[e][k]]
       /\ EncChains[e][k] \in Literal => Len(EncChains[e]) = 1 /\ e \in Literal

\* The segments they leave.
SegmentsCounted(e) ==
  /\ Len(Roles[e]) \in Nat /\ EndOf(e, Len(EncChains[e])) = Len(Roles[e])
  /\ \A k \in 1 .. Len(EncChains[e]) :
       EndOf(e, k) \in Nat /\ EndOf(e, k) = EndOf(e, k - 1) + Len(KeptOf(e, EncChains[e][k]))

OwnCounted(e) == CountAt(e, Len(EncChains[e])) \in {0, Len(Roles[e])}

SegmentsLaid(e) ==
  \A k \in 1 .. Len(EncChains[e]) : \A j \in 1 .. Len(KeptOf(e, EncChains[e][k])) :
    Roles[e][EndOf(e, k - 1) + j] = KeptOf(e, EncChains[e][k])[j]

\* What stands in front of a decoding operator.
DecodersShaped(e) ==
  /\ Len(DecChains[e]) \in Nat \ {0}
  /\ ActiveOf(e) \in 0 .. Len(DecChains[e])
  /\ e = "equal" => DecChains[e] = <<"shared">>
  /\ e \in External => Len(DecChains[e]) = 2 /\ DecChains[e][1] = "first_column" /\ DecChains[e][2] = e
  /\ \A k \in 1 .. Len(DecChains[e]) :
       LET op   == DecChains[e][k]
           prev == DecChains[e][k - 1]
       IN  /\ op = "shared" => e = "equal"
           /\ op = "first_column" => e \in External
           /\ op \notin {"shared", "first_column"} => op \in DOMAIN NumOperands
           /\ op = "unffor" => k = 1
           /\ op \in {"frequency", "frequency_str"} => e \notin Patchable
           /\ op = "slpatch" => k = 2 /\ prev = "unffor"
           /\ op = "rsum" => e \in RleExprs \cup FsstDeltas \cup {"delta"}
           /\ op = "rsum" => (k = 2 /\ prev = "unffor") \/ (k = 3 /\ prev = "slpatch")
           /\ op \in {"transpose", "rle_map", "rle_map_str", "fsst"} => k > 2 /\ prev = "rsum"
           /\ op \in {"dict", "dict_str", "fsst_dict"} => k > 1 /\ e \in Dictionaries
           /\ op = "slpatch" <=> k = 2 /\ e \in Patchable
           /\ e \in Patchable \cup OwnDicts \cup RleExprs \cup FsstDeltas \cup {"ffor", "delta"} <=> DecChains[e][1] = "unffor"
           /\ op \in ActiveOps <=> k <= ActiveOf(e)

\* What the constructors of the decoding operators take.
DecodersCounted(e) ==
  /\ Len(Lefts[e]) = Len(DecChains[e])
  /\ \A k \in 0 .. Len(DecChains[e]) : LeftAt(e, k) \in (0 - 1) .. CountAt(e, Len(EncChains[e]))
  /\ \A k \in 1 .. Len(DecChains[e]) :
       CASE DecChains[e][k] = "shared" -> LeftAt(e, k) = 0
         [] DecChains[e][k] = "first_column" ->
              LeftAt(e, k) = IF e = "fsst_dict" THEN LeftAt(e, 0) ELSE LeftAt(e, 0) + 1
         [] OTHER -> LeftAt(e, k) = LeftAt(e, k - 1) - NumOperands[DecChains[e][k]]

\* The segments they find at their indexes.
StartsAre(e) ==
  /\ Len(Starts[e]) = Len(DecChains[e])
  /\ \A k \in 1 .. Len(DecChains[e]) : DecChains[e][k] \in DOMAIN NumOperands =>
       Starts[e][k] = StartAt(e, DecChains[e][k], LeftAt(e, k - 1))

DecodersFit(e) ==
  \A k \in 1 .. Len(DecChains[e]) : DecChains[e][k] \notin {"shared", "first_column"} =>
    Starts[e][k] \in Nat /\ Starts[e][k] + Len(DecViews(DecChains[e][k])) <= Len(Roles[e])

DecodersAimed(e) ==
  \A k \in 1 .. Len(DecChains[e]) : DecChains[e][k] \notin {"shared", "first_column"} =>
    \A j \in 1 .. Len(DecViews(DecChains[e][k])) :
      Roles[e][Starts[e][k] + j] = DecViews(DecChains[e][k])[j]

\* The operators that find their segments by operand tokens, by as many as they
\* have segments.
Fixed == {"fsst", "dict_str", "scan", "rsum", "alp", "alp_rd"} \cup Literal

TokensFit(e) ==
  \A k \in 1 .. Len(DecChains[e]) :
    LET op == DecChains[e][k]
    IN  /\ op # "scan"
        /\ op \in Literal => e = op
        /\ op \notin Fixed \cup {"shared", "first_column"} =>
             /\ NumOperands[op] = Len(DecViews(op))
             /\ NumOperands[op] # 0 =>
                  /\ CountAt(e, Len(EncChains[e])) = Len(Roles[e])
                  /\ Starts[e][k] = LeftAt(e, k - 1) - NumOperands[op] + 1 - IF e \in External THEN 1 ELSE 0

\* What the last operator of an expression is.
LastShaped(e) ==
  LET op == DecChains[e][Len(DecChains[e])]
  IN  /\ op \notin {"rsum", "scan", "first_column"}
      /\ op = "shared" => e = "equal"
      /\ op \in {"unffor", "slpatch"} => PackedOf(e) = <<>>
      /\ op = "unffor" => e \notin Patchable
      /\ op = "transpose" => e = "delta"
      /\ op \in {"rle_map", "rle_map_str"} => e \in RleExprs
      /\ op = "fsst" => e \in FsstDeltas

Row(e) == /\ EncodersShaped(e) /\ EncodersCounted(e) /\ SegmentsCounted(e) /\ OwnCounted(e)
          /\ SegmentsLaid(e) /\ DecodersShaped(e) /\ DecodersCounted(e) /\ StartsAre(e) /\ DecodersAimed(e) /\ DecodersFit(e)
          /\ TokensFit(e) /\ LastShaped(e)

\* Every row of the tables is right.
LEMMA Rows == \A e \in Expressions \ {"fsst"} : Row(e)
<1>1. \A e \in Expressions \ {"fsst"} : EncodersShaped(e)
  <2> USE DEF EncodersShaped, EncChains, FollowsCursor, FollowsBack, Patchable, RleExprs, FsstDeltas,
      OwnDicts, Dictionaries, External, GivesOf, BaseOf, PackedOf
  <2>1. EncodersShaped("uncompressed") OBVIOUS
  <2>2. EncodersShaped("validitymask") OBVIOUS
  <2>3. EncodersShaped("str_uncompressed") OBVIOUS
  <2>4. EncodersShaped("constant") OBVIOUS
  <2>5. EncodersShaped("equal") OBVIOUS
  <2>6. EncodersShaped("ffor") OBVIOUS
  <2>7. EncodersShaped("ffor_slpatch") OBVIOUS
  <2>8. EncodersShaped("delta") OBVIOUS
  <2>9. EncodersShaped("rle") OBVIOUS
  <2>10. EncodersShaped("rle_slpatch") OBVIOUS
  <2>11. EncodersShaped("rle_str") OBVIOUS
  <2>12. EncodersShaped("rle_str_slpatch") OBVIOUS
  <2>13. EncodersShaped("dict_ffor") OBVIOUS
  <2>14. EncodersShaped("dict_ffor_slpatch") OBVIOUS
  <2>15. EncodersShaped("dict_str_ffor") OBVIOUS
  <2>16. EncodersShaped("dict_str_ffor_slpatch") OBVIOUS
  <2>17. EncodersShaped("fsst_dict_ffor") OBVIOUS
  <2>18. EncodersShaped("fsst_dict_ffor_slpatch") OBVIOUS
  <2>19. EncodersShaped("dict") OBVIOUS
  <2>20. EncodersShaped("dict_str") OBVIOUS
  <2>21. EncodersShaped("fsst_dict") OBVIOUS
  <2>22. EncodersShaped("fsst_delta") OBVIOUS
  <2>23. EncodersShaped("fsst_delta_slpatch") OBVIOUS
  <2>24. EncodersShaped("null") OBVIOUS
  <2>25. EncodersShaped("frequency") OBVIOUS
  <2>26. EncodersShaped("frequency_str") OBVIOUS
  <2>27. EncodersShaped("cross_rle") OBVIOUS
  <2>28. EncodersShaped("cross_rle_str") OBVIOUS
  <2>29. EncodersShaped("alp") OBVIOUS
  <2>30. EncodersShaped("galp") OBVIOUS
  <2>31. EncodersShaped("alp_rd") OBVIOUS
  <2> HIDE DEF EncodersShaped, EncChains, FollowsCursor, FollowsBack, Patchable, RleExprs, FsstDeltas,
      OwnDicts, Dictionaries, External, GivesOf, BaseOf, PackedOf
  <2> QED BY ExpressionsAre, <2>1, <2>2, <2>3, <2>4, <2>5, <2>6, <2>7, <2>8, <2>9, <2>10, <2>11, <2>12,
      <2>13, <2>14, <2>15, <2>16, <2>17, <2>18, <2>19, <2>20, <2>21, <2>22, <2>23, <2>24, <2>25,
      <2>26, <2>27, <2>28, <2>29, <2>30, <2>31
<1>2. \A e \in Expressions \ {"fsst"} : EncodersCounted(e)
  <2> USE DEF EncodersCounted, EncChains, Counts, CountAt, OwnTokens, FsstDeltas, Literal
  <2>1. EncodersCounted("uncompressed") OBVIOUS
  <2>2. EncodersCounted("validitymask") OBVIOUS
  <2>3. EncodersCounted("str_uncompressed") OBVIOUS
  <2>4. EncodersCounted("constant") OBVIOUS
  <2>5. EncodersCounted("equal") OBVIOUS
  <2>6. EncodersCounted("ffor") OBVIOUS
  <2>7. EncodersCounted("ffor_slpatch") OBVIOUS
  <2>8. EncodersCounted("delta") OBVIOUS
  <2>9. EncodersCounted("rle") OBVIOUS
  <2>10. EncodersCounted("rle_slpatch") OBVIOUS
  <2>11. EncodersCounted("rle_str") OBVIOUS
  <2>12. EncodersCounted("rle_str_slpatch") OBVIOUS
  <2>13. EncodersCounted("dict_ffor") OBVIOUS
  <2>14. EncodersCounted("dict_ffor_slpatch") OBVIOUS
  <2>15. EncodersCounted("dict_str_ffor") OBVIOUS
  <2>16. EncodersCounted("dict_str_ffor_slpatch") OBVIOUS
  <2>17. EncodersCounted("fsst_dict_ffor") OBVIOUS
  <2>18. EncodersCounted("fsst_dict_ffor_slpatch") OBVIOUS
  <2>19. EncodersCounted("dict") OBVIOUS
  <2>20. EncodersCounted("dict_str") OBVIOUS
  <2>21. EncodersCounted("fsst_dict") OBVIOUS
  <2>22. EncodersCounted("fsst_delta") OBVIOUS
  <2>23. EncodersCounted("fsst_delta_slpatch") OBVIOUS
  <2>24. EncodersCounted("null") OBVIOUS
  <2>25. EncodersCounted("frequency") OBVIOUS
  <2>26. EncodersCounted("frequency_str") OBVIOUS
  <2>27. EncodersCounted("cross_rle") OBVIOUS
  <2>28. EncodersCounted("cross_rle_str") OBVIOUS
  <2>29. EncodersCounted("alp") OBVIOUS
  <2>30. EncodersCounted("galp") OBVIOUS
  <2>31. EncodersCounted("alp_rd") OBVIOUS
  <2> HIDE DEF EncodersCounted, EncChains, Counts, CountAt, OwnTokens, FsstDeltas, Literal
  <2> QED BY ExpressionsAre, <2>1, <2>2, <2>3, <2>4, <2>5, <2>6, <2>7, <2>8, <2>9, <2>10, <2>11, <2>12,
      <2>13, <2>14, <2>15, <2>16, <2>17, <2>18, <2>19, <2>20, <2>21, <2>22, <2>23, <2>24, <2>25,
      <2>26, <2>27, <2>28, <2>29, <2>30, <2>31
<1>3. \A e \in Expressions \ {"fsst"} : SegmentsCounted(e)
  <2> USE DEF SegmentsCounted, EncChains, Ends, EndOf, Roles, KeptOf, Patching, Alp, Galp, AlpRd
  <2>1. SegmentsCounted("uncompressed") OBVIOUS
  <2>2. SegmentsCounted("validitymask") OBVIOUS
  <2>3. SegmentsCounted("str_uncompressed") OBVIOUS
  <2>4. SegmentsCounted("constant") OBVIOUS
  <2>5. SegmentsCounted("equal") OBVIOUS
  <2>6. SegmentsCounted("ffor") OBVIOUS
  <2>7. SegmentsCounted("ffor_slpatch") OBVIOUS
  <2>8. SegmentsCounted("delta") OBVIOUS
  <2>9. SegmentsCounted("rle") OBVIOUS
  <2>10. SegmentsCounted("rle_slpatch") OBVIOUS
  <2>11. SegmentsCounted("rle_str") OBVIOUS
  <2>12. SegmentsCounted("rle_str_slpatch") OBVIOUS
  <2>13. SegmentsCounted("dict_ffor") OBVIOUS
  <2>14. SegmentsCounted("dict_ffor_slpatch") OBVIOUS
  <2>15. SegmentsCounted("dict_str_ffor") OBVIOUS
  <2>16. SegmentsCounted("dict_str_ffor_slpatch") OBVIOUS
  <2>17. SegmentsCounted("fsst_dict_ffor") OBVIOUS
  <2>18. SegmentsCounted("fsst_dict_ffor_slpatch") OBVIOUS
  <2>19. SegmentsCounted("dict") OBVIOUS
  <2>20. SegmentsCounted("dict_str") OBVIOUS
  <2>21. SegmentsCounted("fsst_dict") OBVIOUS
  <2>22. SegmentsCounted("fsst_delta") OBVIOUS
  <2>23. SegmentsCounted("fsst_delta_slpatch") OBVIOUS
  <2>24. SegmentsCounted("null") OBVIOUS
  <2>25. SegmentsCounted("frequency") OBVIOUS
  <2>26. SegmentsCounted("frequency_str") OBVIOUS
  <2>27. SegmentsCounted("cross_rle") OBVIOUS
  <2>28. SegmentsCounted("cross_rle_str") OBVIOUS
  <2>29. SegmentsCounted("alp") OBVIOUS
  <2>30. SegmentsCounted("galp") OBVIOUS
  <2>31. SegmentsCounted("alp_rd") OBVIOUS
  <2> HIDE DEF SegmentsCounted, EncChains, Ends, EndOf, Roles, KeptOf, Patching, Alp, Galp, AlpRd
  <2> QED BY ExpressionsAre, <2>1, <2>2, <2>3, <2>4, <2>5, <2>6, <2>7, <2>8, <2>9, <2>10, <2>11, <2>12,
      <2>13, <2>14, <2>15, <2>16, <2>17, <2>18, <2>19, <2>20, <2>21, <2>22, <2>23, <2>24, <2>25,
      <2>26, <2>27, <2>28, <2>29, <2>30, <2>31
<1>4. \A e \in Expressions \ {"fsst"} : OwnCounted(e)
  <2> USE DEF OwnCounted, EncChains, Counts, CountAt, Roles, Alp, Galp, AlpRd
  <2>1. OwnCounted("uncompressed") OBVIOUS
  <2>2. OwnCounted("validitymask") OBVIOUS
  <2>3. OwnCounted("str_uncompressed") OBVIOUS
  <2>4. OwnCounted("constant") OBVIOUS
  <2>5. OwnCounted("equal") OBVIOUS
  <2>6. OwnCounted("ffor") OBVIOUS
  <2>7. OwnCounted("ffor_slpatch") OBVIOUS
  <2>8. OwnCounted("delta") OBVIOUS
  <2>9. OwnCounted("rle") OBVIOUS
  <2>10. OwnCounted("rle_slpatch") OBVIOUS
  <2>11. OwnCounted("rle_str") OBVIOUS
  <2>12. OwnCounted("rle_str_slpatch") OBVIOUS
  <2>13. OwnCounted("dict_ffor") OBVIOUS
  <2>14. OwnCounted("dict_ffor_slpatch") OBVIOUS
  <2>15. OwnCounted("dict_str_ffor") OBVIOUS
  <2>16. OwnCounted("dict_str_ffor_slpatch") OBVIOUS
  <2>17. OwnCounted("fsst_dict_ffor") OBVIOUS
  <2>18. OwnCounted("fsst_dict_ffor_slpatch") OBVIOUS
  <2>19. OwnCounted("dict") OBVIOUS
  <2>20. OwnCounted("dict_str") OBVIOUS
  <2>21. OwnCounted("fsst_dict") OBVIOUS
  <2>22. OwnCounted("fsst_delta") OBVIOUS
  <2>23. OwnCounted("fsst_delta_slpatch") OBVIOUS
  <2>24. OwnCounted("null") OBVIOUS
  <2>25. OwnCounted("frequency") OBVIOUS
  <2>26. OwnCounted("frequency_str") OBVIOUS
  <2>27. OwnCounted("cross_rle") OBVIOUS
  <2>28. OwnCounted("cross_rle_str") OBVIOUS
  <2>29. OwnCounted("alp") OBVIOUS
  <2>30. OwnCounted("galp") OBVIOUS
  <2>31. OwnCounted("alp_rd") OBVIOUS
  <2> HIDE DEF OwnCounted, EncChains, Counts, CountAt, Roles, Alp, Galp, AlpRd
  <2> QED BY ExpressionsAre, <2>1, <2>2, <2>3, <2>4, <2>5, <2>6, <2>7, <2>8, <2>9, <2>10, <2>11, <2>12,
      <2>13, <2>14, <2>15, <2>16, <2>17, <2>18, <2>19, <2>20, <2>21, <2>22, <2>23, <2>24, <2>25,
      <2>26, <2>27, <2>28, <2>29, <2>30, <2>31
<1>5. \A e \in Expressions \ {"fsst"} : SegmentsLaid(e)
  <2> USE DEF SegmentsLaid, EncChains, Ends, EndOf, Roles, KeptOf, Patching, Alp, Galp, AlpRd
  <2>1. SegmentsLaid("uncompressed") OBVIOUS
  <2>2. SegmentsLaid("validitymask") OBVIOUS
  <2>3. SegmentsLaid("str_uncompressed") OBVIOUS
  <2>4. SegmentsLaid("constant") OBVIOUS
  <2>5. SegmentsLaid("equal") OBVIOUS
  <2>6. SegmentsLaid("ffor") OBVIOUS
  <2>7. SegmentsLaid("ffor_slpatch") OBVIOUS
  <2>8. SegmentsLaid("delta") OBVIOUS
  <2>9. SegmentsLaid("rle") OBVIOUS
  <2>10. SegmentsLaid("rle_slpatch") OBVIOUS
  <2>11. SegmentsLaid("rle_str") OBVIOUS
  <2>12. SegmentsLaid("rle_str_slpatch") OBVIOUS
  <2>13. SegmentsLaid("dict_ffor") OBVIOUS
  <2>14. SegmentsLaid("dict_ffor_slpatch") OBVIOUS
  <2>15. SegmentsLaid("dict_str_ffor") OBVIOUS
  <2>16. SegmentsLaid("dict_str_ffor_slpatch") OBVIOUS
  <2>17. SegmentsLaid("fsst_dict_ffor") OBVIOUS
  <2>18. SegmentsLaid("fsst_dict_ffor_slpatch") OBVIOUS
  <2>19. SegmentsLaid("dict") OBVIOUS
  <2>20. SegmentsLaid("dict_str") OBVIOUS
  <2>21. SegmentsLaid("fsst_dict") OBVIOUS
  <2>22. SegmentsLaid("fsst_delta") OBVIOUS
  <2>23. SegmentsLaid("fsst_delta_slpatch") OBVIOUS
  <2>24. SegmentsLaid("null") OBVIOUS
  <2>25. SegmentsLaid("frequency") OBVIOUS
  <2>26. SegmentsLaid("frequency_str") OBVIOUS
  <2>27. SegmentsLaid("cross_rle") OBVIOUS
  <2>28. SegmentsLaid("cross_rle_str") OBVIOUS
  <2>29. SegmentsLaid("alp") OBVIOUS
  <2>30. SegmentsLaid("galp") OBVIOUS
  <2>31. SegmentsLaid("alp_rd") OBVIOUS
  <2> HIDE DEF SegmentsLaid, EncChains, Ends, EndOf, Roles, KeptOf, Patching, Alp, Galp, AlpRd
  <2> QED BY ExpressionsAre, <2>1, <2>2, <2>3, <2>4, <2>5, <2>6, <2>7, <2>8, <2>9, <2>10, <2>11, <2>12,
      <2>13, <2>14, <2>15, <2>16, <2>17, <2>18, <2>19, <2>20, <2>21, <2>22, <2>23, <2>24, <2>25,
      <2>26, <2>27, <2>28, <2>29, <2>30, <2>31
<1>6. \A e \in Expressions \ {"fsst"} : DecodersShaped(e)
  <2> USE DEF DecodersShaped, DecChains, External, Dictionaries, OwnDicts, Patchable, RleExprs,
      FsstDeltas, ActiveOf, ActiveOps, NumOperands, OperandsTaken
  <2>1. DecodersShaped("uncompressed") OBVIOUS
  <2>2. DecodersShaped("validitymask") OBVIOUS
  <2>3. DecodersShaped("str_uncompressed") OBVIOUS
  <2>4. DecodersShaped("constant") OBVIOUS
  <2>5. DecodersShaped("equal") OBVIOUS
  <2>6. DecodersShaped("ffor") OBVIOUS
  <2>7. DecodersShaped("ffor_slpatch") OBVIOUS
  <2>8. DecodersShaped("delta") OBVIOUS
  <2>9. DecodersShaped("rle") OBVIOUS
  <2>10. DecodersShaped("rle_slpatch") OBVIOUS
  <2>11. DecodersShaped("rle_str") OBVIOUS
  <2>12. DecodersShaped("rle_str_slpatch") OBVIOUS
  <2>13. DecodersShaped("dict_ffor") OBVIOUS
  <2>14. DecodersShaped("dict_ffor_slpatch") OBVIOUS
  <2>15. DecodersShaped("dict_str_ffor") OBVIOUS
  <2>16. DecodersShaped("dict_str_ffor_slpatch") OBVIOUS
  <2>17. DecodersShaped("fsst_dict_ffor") OBVIOUS
  <2>18. DecodersShaped("fsst_dict_ffor_slpatch") OBVIOUS
  <2>19. DecodersShaped("dict") OBVIOUS
  <2>20. DecodersShaped("dict_str") OBVIOUS
  <2>21. DecodersShaped("fsst_dict") OBVIOUS
  <2>22. DecodersShaped("fsst_delta") OBVIOUS
  <2>23. DecodersShaped("fsst_delta_slpatch") OBVIOUS
  <2>24. DecodersShaped("null") OBVIOUS
  <2>25. DecodersShaped("frequency") OBVIOUS
  <2>26. DecodersShaped("frequency_str") OBVIOUS
  <2>27. DecodersShaped("cross_rle") OBVIOUS
  <2>28. DecodersShaped("cross_rle_str") OBVIOUS
  <2>29. DecodersShaped("alp") OBVIOUS
  <2>30. DecodersShaped("galp") OBVIOUS
  <2>31. DecodersShaped("alp_rd") OBVIOUS
  <2> HIDE DEF DecodersShaped, DecChains, External, Dictionaries, OwnDicts, Patchable, RleExprs,
      FsstDeltas, ActiveOf, ActiveOps, NumOperands, OperandsTaken
  <2> QED BY ExpressionsAre, <2>1, <2>2, <2>3, <2>4, <2>5, <2>6, <2>7, <2>8, <2>9, <2>10, <2>11, <2>12,
      <2>13, <2>14, <2>15, <2>16, <2>17, <2>18, <2>19, <2>20, <2>21, <2>22, <2>23, <2>24, <2>25,
      <2>26, <2>27, <2>28, <2>29, <2>30, <2>31
<1>7. \A e \in Expressions \ {"fsst"} : DecodersCounted(e)
  <2> USE DEF DecodersCounted, DecChains, EncChains, Counts, CountAt, Lefts, LeftAt, FirstOf,
      NumOperands, OperandsTaken, External, Literal
  <2>1. DecodersCounted("uncompressed") OBVIOUS
  <2>2. DecodersCounted("validitymask") OBVIOUS
  <2>3. DecodersCounted("str_uncompressed") OBVIOUS
  <2>4. DecodersCounted("constant") OBVIOUS
  <2>5. DecodersCounted("equal") OBVIOUS
  <2>6. DecodersCounted("ffor") OBVIOUS
  <2>7. DecodersCounted("ffor_slpatch") OBVIOUS
  <2>8. DecodersCounted("delta") OBVIOUS
  <2>9. DecodersCounted("rle") OBVIOUS
  <2>10. DecodersCounted("rle_slpatch") OBVIOUS
  <2>11. DecodersCounted("rle_str") OBVIOUS
  <2>12. DecodersCounted("rle_str_slpatch") OBVIOUS
  <2>13. DecodersCounted("dict_ffor") OBVIOUS
  <2>14. DecodersCounted("dict_ffor_slpatch") OBVIOUS
  <2>15. DecodersCounted("dict_str_ffor") OBVIOUS
  <2>16. DecodersCounted("dict_str_ffor_slpatch") OBVIOUS
  <2>17. DecodersCounted("fsst_dict_ffor") OBVIOUS
  <2>18. DecodersCounted("fsst_dict_ffor_slpatch") OBVIOUS
  <2>19. DecodersCounted("dict") OBVIOUS
  <2>20. DecodersCounted("dict_str") OBVIOUS
  <2>21. DecodersCounted("fsst_dict") OBVIOUS
  <2>22. DecodersCounted("fsst_delta") OBVIOUS
  <2>23. DecodersCounted("fsst_delta_slpatch") OBVIOUS
  <2>24. DecodersCounted("null") OBVIOUS
  <2>25. DecodersCounted("frequency") OBVIOUS
  <2>26. DecodersCounted("frequency_str") OBVIOUS
  <2>27. DecodersCounted("cross_rle") OBVIOUS
  <2>28. DecodersCounted("cross_rle_str") OBVIOUS
  <2>29. DecodersCounted("alp") OBVIOUS
  <2>30. DecodersCounted("galp") OBVIOUS
  <2>31. DecodersCounted("alp_rd") OBVIOUS
  <2> HIDE DEF DecodersCounted, DecChains, EncChains, Counts, CountAt, Lefts, LeftAt, FirstOf,
      NumOperands, OperandsTaken, External, Literal
  <2> QED BY ExpressionsAre, <2>1, <2>2, <2>3, <2>4, <2>5, <2>6, <2>7, <2>8, <2>9, <2>10, <2>11, <2>12,
      <2>13, <2>14, <2>15, <2>16, <2>17, <2>18, <2>19, <2>20, <2>21, <2>22, <2>23, <2>24, <2>25,
      <2>26, <2>27, <2>28, <2>29, <2>30, <2>31
<1>8. \A e \in Expressions \ {"fsst"} : StartsAre(e)
  <2> USE DEF StartsAre, DecChains, EncChains, Counts, CountAt, Lefts, LeftAt, FirstOf, StartAt, Starts,
      NumOperands, OperandsTaken, External, Literal
  <2>1. StartsAre("uncompressed") OBVIOUS
  <2>2. StartsAre("validitymask") OBVIOUS
  <2>3. StartsAre("str_uncompressed") OBVIOUS
  <2>4. StartsAre("constant") OBVIOUS
  <2>5. StartsAre("equal") OBVIOUS
  <2>6. StartsAre("ffor") OBVIOUS
  <2>7. StartsAre("ffor_slpatch") OBVIOUS
  <2>8. StartsAre("delta") OBVIOUS
  <2>9. StartsAre("rle") OBVIOUS
  <2>10. StartsAre("rle_slpatch") OBVIOUS
  <2>11. StartsAre("rle_str") OBVIOUS
  <2>12. StartsAre("rle_str_slpatch") OBVIOUS
  <2>13. StartsAre("dict_ffor") OBVIOUS
  <2>14. StartsAre("dict_ffor_slpatch") OBVIOUS
  <2>15. StartsAre("dict_str_ffor") OBVIOUS
  <2>16. StartsAre("dict_str_ffor_slpatch") OBVIOUS
  <2>17. StartsAre("fsst_dict_ffor") OBVIOUS
  <2>18. StartsAre("fsst_dict_ffor_slpatch") OBVIOUS
  <2>19. StartsAre("dict") OBVIOUS
  <2>20. StartsAre("dict_str") OBVIOUS
  <2>21. StartsAre("fsst_dict") OBVIOUS
  <2>22. StartsAre("fsst_delta") OBVIOUS
  <2>23. StartsAre("fsst_delta_slpatch") OBVIOUS
  <2>24. StartsAre("null") OBVIOUS
  <2>25. StartsAre("frequency") OBVIOUS
  <2>26. StartsAre("frequency_str") OBVIOUS
  <2>27. StartsAre("cross_rle") OBVIOUS
  <2>28. StartsAre("cross_rle_str") OBVIOUS
  <2>29. StartsAre("alp") OBVIOUS
  <2>30. StartsAre("galp") OBVIOUS
  <2>31. StartsAre("alp_rd") OBVIOUS
  <2> HIDE DEF StartsAre, DecChains, EncChains, Counts, CountAt, Lefts, LeftAt, FirstOf, StartAt,
      Starts, NumOperands, OperandsTaken, External, Literal
  <2> QED BY ExpressionsAre, <2>1, <2>2, <2>3, <2>4, <2>5, <2>6, <2>7, <2>8, <2>9, <2>10, <2>11, <2>12,
      <2>13, <2>14, <2>15, <2>16, <2>17, <2>18, <2>19, <2>20, <2>21, <2>22, <2>23, <2>24, <2>25,
      <2>26, <2>27, <2>28, <2>29, <2>30, <2>31
<1>9. \A e \in Expressions \ {"fsst"} : DecodersFit(e)
  <2> USE DEF DecodersFit, DecChains, Starts, Roles, DecViews, Patching, Alp, AlpRd, Galp
  <2>1. DecodersFit("uncompressed") OBVIOUS
  <2>2. DecodersFit("validitymask") OBVIOUS
  <2>3. DecodersFit("str_uncompressed") OBVIOUS
  <2>4. DecodersFit("constant") OBVIOUS
  <2>5. DecodersFit("equal") OBVIOUS
  <2>6. DecodersFit("ffor") OBVIOUS
  <2>7. DecodersFit("ffor_slpatch") OBVIOUS
  <2>8. DecodersFit("delta") OBVIOUS
  <2>9. DecodersFit("rle") OBVIOUS
  <2>10. DecodersFit("rle_slpatch") OBVIOUS
  <2>11. DecodersFit("rle_str") OBVIOUS
  <2>12. DecodersFit("rle_str_slpatch") OBVIOUS
  <2>13. DecodersFit("dict_ffor") OBVIOUS
  <2>14. DecodersFit("dict_ffor_slpatch") OBVIOUS
  <2>15. DecodersFit("dict_str_ffor") OBVIOUS
  <2>16. DecodersFit("dict_str_ffor_slpatch") OBVIOUS
  <2>17. DecodersFit("fsst_dict_ffor") OBVIOUS
  <2>18. DecodersFit("fsst_dict_ffor_slpatch") OBVIOUS
  <2>19. DecodersFit("dict") OBVIOUS
  <2>20. DecodersFit("dict_str") OBVIOUS
  <2>21. DecodersFit("fsst_dict") OBVIOUS
  <2>22. DecodersFit("fsst_delta") OBVIOUS
  <2>23. DecodersFit("fsst_delta_slpatch") OBVIOUS
  <2>24. DecodersFit("null") OBVIOUS
  <2>25. DecodersFit("frequency") OBVIOUS
  <2>26. DecodersFit("frequency_str") OBVIOUS
  <2>27. DecodersFit("cross_rle") OBVIOUS
  <2>28. DecodersFit("cross_rle_str") OBVIOUS
  <2>29. DecodersFit("alp") OBVIOUS
  <2>30. DecodersFit("galp") OBVIOUS
  <2>31. DecodersFit("alp_rd") OBVIOUS
  <2> HIDE DEF DecodersFit, DecChains, Starts, Roles, DecViews, Patching, Alp, AlpRd, Galp
  <2> QED BY ExpressionsAre, <2>1, <2>2, <2>3, <2>4, <2>5, <2>6, <2>7, <2>8, <2>9, <2>10, <2>11, <2>12,
      <2>13, <2>14, <2>15, <2>16, <2>17, <2>18, <2>19, <2>20, <2>21, <2>22, <2>23, <2>24, <2>25,
      <2>26, <2>27, <2>28, <2>29, <2>30, <2>31
<1>10. \A e \in Expressions \ {"fsst"} : DecodersAimed(e)
  <2> USE DEF DecodersAimed, DecChains, Starts, Roles, DecViews, Patching, Alp, AlpRd, Galp
  <2>1. DecodersAimed("uncompressed") OBVIOUS
  <2>2. DecodersAimed("validitymask") OBVIOUS
  <2>3. DecodersAimed("str_uncompressed") OBVIOUS
  <2>4. DecodersAimed("constant") OBVIOUS
  <2>5. DecodersAimed("equal") OBVIOUS
  <2>6. DecodersAimed("ffor") OBVIOUS
  <2>7. DecodersAimed("ffor_slpatch") OBVIOUS
  <2>8. DecodersAimed("delta") OBVIOUS
  <2>9. DecodersAimed("rle") OBVIOUS
  <2>10. DecodersAimed("rle_slpatch") OBVIOUS
  <2>11. DecodersAimed("rle_str") OBVIOUS
  <2>12. DecodersAimed("rle_str_slpatch") OBVIOUS
  <2>13. DecodersAimed("dict_ffor") OBVIOUS
  <2>14. DecodersAimed("dict_ffor_slpatch") OBVIOUS
  <2>15. DecodersAimed("dict_str_ffor") OBVIOUS
  <2>16. DecodersAimed("dict_str_ffor_slpatch") OBVIOUS
  <2>17. DecodersAimed("fsst_dict_ffor") OBVIOUS
  <2>18. DecodersAimed("fsst_dict_ffor_slpatch") OBVIOUS
  <2>19. DecodersAimed("dict") OBVIOUS
  <2>20. DecodersAimed("dict_str") OBVIOUS
  <2>21. DecodersAimed("fsst_dict") OBVIOUS
  <2>22. DecodersAimed("fsst_delta") OBVIOUS
  <2>23. DecodersAimed("fsst_delta_slpatch") OBVIOUS
  <2>24. DecodersAimed("null") OBVIOUS
  <2>25. DecodersAimed("frequency") OBVIOUS
  <2>26. DecodersAimed("frequency_str") OBVIOUS
  <2>27. DecodersAimed("cross_rle") OBVIOUS
  <2>28. DecodersAimed("cross_rle_str") OBVIOUS
  <2>29. DecodersAimed("alp") OBVIOUS
  <2>30. DecodersAimed("galp") OBVIOUS
  <2>31. DecodersAimed("alp_rd") OBVIOUS
  <2> HIDE DEF DecodersAimed, DecChains, Starts, Roles, DecViews, Patching, Alp, AlpRd, Galp
  <2> QED BY ExpressionsAre, <2>1, <2>2, <2>3, <2>4, <2>5, <2>6, <2>7, <2>8, <2>9, <2>10, <2>11, <2>12,
      <2>13, <2>14, <2>15, <2>16, <2>17, <2>18, <2>19, <2>20, <2>21, <2>22, <2>23, <2>24, <2>25,
      <2>26, <2>27, <2>28, <2>29, <2>30, <2>31
<1>11. \A e \in Expressions \ {"fsst"} : TokensFit(e)
  <2> USE DEF TokensFit, DecChains, EncChains, Counts, CountAt, Lefts, LeftAt, FirstOf, Starts, Roles,
      DecViews, NumOperands, OperandsTaken, External, Literal, Fixed, Patching, Alp, AlpRd, Galp
  <2>1. TokensFit("uncompressed") OBVIOUS
  <2>2. TokensFit("validitymask") OBVIOUS
  <2>3. TokensFit("str_uncompressed") OBVIOUS
  <2>4. TokensFit("constant") OBVIOUS
  <2>5. TokensFit("equal") OBVIOUS
  <2>6. TokensFit("ffor") OBVIOUS
  <2>7. TokensFit("ffor_slpatch") OBVIOUS
  <2>8. TokensFit("delta") OBVIOUS
  <2>9. TokensFit("rle") OBVIOUS
  <2>10. TokensFit("rle_slpatch") OBVIOUS
  <2>11. TokensFit("rle_str") OBVIOUS
  <2>12. TokensFit("rle_str_slpatch") OBVIOUS
  <2>13. TokensFit("dict_ffor") OBVIOUS
  <2>14. TokensFit("dict_ffor_slpatch") OBVIOUS
  <2>15. TokensFit("dict_str_ffor") OBVIOUS
  <2>16. TokensFit("dict_str_ffor_slpatch") OBVIOUS
  <2>17. TokensFit("fsst_dict_ffor") OBVIOUS
  <2>18. TokensFit("fsst_dict_ffor_slpatch") OBVIOUS
  <2>19. TokensFit("dict") OBVIOUS
  <2>20. TokensFit("dict_str") OBVIOUS
  <2>21. TokensFit("fsst_dict") OBVIOUS
  <2>22. TokensFit("fsst_delta") OBVIOUS
  <2>23. TokensFit("fsst_delta_slpatch") OBVIOUS
  <2>24. TokensFit("null") OBVIOUS
  <2>25. TokensFit("frequency") OBVIOUS
  <2>26. TokensFit("frequency_str") OBVIOUS
  <2>27. TokensFit("cross_rle") OBVIOUS
  <2>28. TokensFit("cross_rle_str") OBVIOUS
  <2>29. TokensFit("alp") OBVIOUS
  <2>30. TokensFit("galp") OBVIOUS
  <2>31. TokensFit("alp_rd") OBVIOUS
  <2> HIDE DEF TokensFit, DecChains, EncChains, Counts, CountAt, Lefts, LeftAt, FirstOf, Starts, Roles,
      DecViews, NumOperands, OperandsTaken, External, Literal, Fixed, Patching, Alp, AlpRd, Galp
  <2> QED BY ExpressionsAre, <2>1, <2>2, <2>3, <2>4, <2>5, <2>6, <2>7, <2>8, <2>9, <2>10, <2>11, <2>12,
      <2>13, <2>14, <2>15, <2>16, <2>17, <2>18, <2>19, <2>20, <2>21, <2>22, <2>23, <2>24, <2>25,
      <2>26, <2>27, <2>28, <2>29, <2>30, <2>31
<1>12. \A e \in Expressions \ {"fsst"} : LastShaped(e)
  <2> USE DEF LastShaped, DecChains, Patchable, PackedOf, RleExprs, FsstDeltas, OwnDicts, Dictionaries,
      External
  <2>1. LastShaped("uncompressed") OBVIOUS
  <2>2. LastShaped("validitymask") OBVIOUS
  <2>3. LastShaped("str_uncompressed") OBVIOUS
  <2>4. LastShaped("constant") OBVIOUS
  <2>5. LastShaped("equal") OBVIOUS
  <2>6. LastShaped("ffor") OBVIOUS
  <2>7. LastShaped("ffor_slpatch") OBVIOUS
  <2>8. LastShaped("delta") OBVIOUS
  <2>9. LastShaped("rle") OBVIOUS
  <2>10. LastShaped("rle_slpatch") OBVIOUS
  <2>11. LastShaped("rle_str") OBVIOUS
  <2>12. LastShaped("rle_str_slpatch") OBVIOUS
  <2>13. LastShaped("dict_ffor") OBVIOUS
  <2>14. LastShaped("dict_ffor_slpatch") OBVIOUS
  <2>15. LastShaped("dict_str_ffor") OBVIOUS
  <2>16. LastShaped("dict_str_ffor_slpatch") OBVIOUS
  <2>17. LastShaped("fsst_dict_ffor") OBVIOUS
  <2>18. LastShaped("fsst_dict_ffor_slpatch") OBVIOUS
  <2>19. LastShaped("dict") OBVIOUS
  <2>20. LastShaped("dict_str") OBVIOUS
  <2>21. LastShaped("fsst_dict") OBVIOUS
  <2>22. LastShaped("fsst_delta") OBVIOUS
  <2>23. LastShaped("fsst_delta_slpatch") OBVIOUS
  <2>24. LastShaped("null") OBVIOUS
  <2>25. LastShaped("frequency") OBVIOUS
  <2>26. LastShaped("frequency_str") OBVIOUS
  <2>27. LastShaped("cross_rle") OBVIOUS
  <2>28. LastShaped("cross_rle_str") OBVIOUS
  <2>29. LastShaped("alp") OBVIOUS
  <2>30. LastShaped("galp") OBVIOUS
  <2>31. LastShaped("alp_rd") OBVIOUS
  <2> HIDE DEF LastShaped, DecChains, Patchable, PackedOf, RleExprs, FsstDeltas, OwnDicts, Dictionaries,
      External
  <2> QED BY ExpressionsAre, <2>1, <2>2, <2>3, <2>4, <2>5, <2>6, <2>7, <2>8, <2>9, <2>10, <2>11, <2>12,
      <2>13, <2>14, <2>15, <2>16, <2>17, <2>18, <2>19, <2>20, <2>21, <2>22, <2>23, <2>24, <2>25,
      <2>26, <2>27, <2>28, <2>29, <2>30, <2>31
<1> QED BY <1>1, <1>2, <1>3, <1>4, <1>5, <1>6, <1>7, <1>8, <1>9, <1>10, <1>11, <1>12 DEF Row

-----------------------------------------------------------------------------
(* The invariant *)

\* In the following s is a schema, c one of its columns.
ExprAt(s, c) == s[c].expr

\* The operand tokens of a choice when n of them have been put down.
Before(ch) == IF ch.of = 0 THEN 0 ELSE 1

TokensOf(ch, n) ==
  [j \in 1 .. Before(ch) + n |-> IF j <= Before(ch) THEN ch.of - 1 ELSE j - 1 - Before(ch)]

\* The operator at k of expression e when n operators have been built.
EncOp(e, k, n) ==
  [op               |-> EncChains[e][k],
   temporary        |-> IF EncChains[e][k] = "fsst" /\ k < n THEN {"fsst_offsets"} ELSE {},
   data_parallelize |-> EncChains[e][k] = "alp" /\ k < n,
   reads            |-> ReadsOf(e, EncChains[e][k]),
   gives            |-> GivesOf(e, EncChains[e][k])]

\* The position operators[cur_operator++] is at.
CursorRight(e, n, cur) ==
  /\ cur \in 0 .. 2
  /\ n = 0 => cur = 0
  /\ n # 0 => /\ EncChains[e][n] \in {"scan", "rle_map", "rle_map_str", "fsst", "alp"} => cur = 0
              /\ EncChains[e][n] = "transpose" => cur = 1

\* One entry of the i-th segment of a column, and the entries of a flushed one.
EntryOf(s, c, i, v) ==
  [role |-> Roles[ExprAt(s, c)][i], col |-> c, vec |-> v,
   by   |-> ReadsAt(ExprAt(s, c), Roles[ExprAt(s, c)][i])]

SegmentOf(s, c, i) ==
  IF Roles[ExprAt(s, c)][i] \in BlockBased THEN <<EntryOf(s, c, i, 0)>>
  ELSE [v \in 1 .. NumVectors |-> EntryOf(s, c, i, v)]

FileOf(s, c) == [i \in 1 .. Len(Roles[ExprAt(s, c)]) |-> SegmentOf(s, c, i)]

\* The segments of column c after n vectors.
SegsRight(s, c, n, sg) ==
  IF n = 0 THEN sg = <<>>
  ELSE /\ sg = [i \in 1 .. Len(Roles[ExprAt(s, c)]) |-> sg[i]]
       /\ \A i \in 1 .. Len(Roles[ExprAt(s, c)]) : Roles[ExprAt(s, c)][i] \notin BlockBased =>
            sg[i] = [v \in 1 .. n |-> EntryOf(s, c, i, v)]

\* The column that is being encoded.
EncoderRight(s, c, en, st, n, sg) ==
  LET e == ExprAt(s, c)
  IN  /\ Len(en) \in 0 .. Len(EncChains[e])
      /\ en = [k \in 1 .. Len(en) |-> EncOp(e, k, Len(en))]
      /\ CursorRight(e, Len(en), st.cur_operator)
      /\ st = [cur_operator |-> st.cur_operator,
               cur_operand  |-> IF e \in Literal THEN 0 ELSE CountAt(e, Len(en))]
      /\ n \in 0 .. NumVectors
      /\ n # 0 => Len(en) = Len(EncChains[e])
      /\ SegsRight(s, c, n, sg)

\* The operands of column c, when k operators of column cl have been built.
TokenCount(s, ph, cl, k, c) ==
  CASE ph # "encode" \/ c < cl -> CountAt(ExprAt(s, c), Len(EncChains[ExprAt(s, c)]))
    [] ph = "encode" /\ c = cl -> CountAt(ExprAt(s, c), k)
    [] OTHER -> 0

TokensRight(s, ph, cl, k, tk) ==
  /\ tk = [c \in 1 .. Len(s) |-> tk[c]]
  /\ \A c \in 1 .. Len(s) : tk[c] = TokensOf(s[c], TokenCount(s, ph, cl, k, c))

FileRight(s, ph, cl, fl) ==
  /\ fl = [c \in 1 .. Len(s) |-> fl[c]]
  /\ \A c \in 1 .. Len(s) : ph # "encode" \/ c < cl => fl[c] = FileOf(s, c)

\* The decoding operators of a column itself.
OwnLen(e) ==
  CASE e = "equal" -> 0 [] e \in External -> 1 [] OTHER -> Len(DecChains[e])

OwnAt(e, m) ==
  CASE e = "equal" -> 0 [] e \in External /\ m # 0 -> m - 1 [] OTHER -> m

PlaceOf(e, j) == IF e \in External THEN 2 ELSE j

OwnOp(e, j) == DecChains[e][PlaceOf(e, j)]

\* The column whose index column c looks up.
RootsOf(s) ==
  LET root[c \in 1 .. Len(s)] == IF s[c].expr \in External THEN root[s[c].of] ELSE c
  IN  root

\* What is in the expression of a column at k.
RefOf(s, c, k) ==
  CASE ExprAt(s, c) = "equal" -> <<s[c].of, OwnLen(ExprAt(s, s[c].of))>>
    [] ExprAt(s, c) \in External -> IF k = 1 THEN <<s[c].of, 0>> ELSE <<c, k - 1>>
    [] OTHER -> <<c, k>>

\* The buffer an operator reads.
FromOf(s, c, j) ==
  LET op == OwnOp(ExprAt(s, c), j)
  IN  CASE op \in {"slpatch", "rsum"} -> <<c, 1>>
        [] op \in {"transpose", "rle_map", "rle_map_str", "fsst"} -> <<c, j - 1>>
        [] op \in BehindFirst -> <<RootsOf(s)[c], 1>>
        [] OTHER -> <<0, 0>>

DecoderRight(s, c, j, o) ==
  LET e == ExprAt(s, c)
  IN  /\ o.op = OwnOp(e, j) /\ o.views = DecViews(OwnOp(e, j)) /\ o.from = FromOf(s, c, j)
      /\ \A i \in 1 .. Len(DecViews(OwnOp(e, j))) : o.indexes[i] = Starts[e][PlaceOf(e, j)] + i - 1

DecodersRight(s, c, m, d) ==
  /\ Len(d) = OwnAt(ExprAt(s, c), m)
  /\ d = [j \in 1 .. Len(d) |-> d[j]]
  /\ \A j \in 1 .. Len(d) : DecoderRight(s, c, j, d[j])

\* The operators that run when a chunk is fetched.
ActiveAt(s, c) ==
  IF ExprAt(s, c) = "equal"
    THEN LET e == ExprAt(s, s[c].of) IN IF OwnLen(e) <= ActiveOf(e) THEN 1 ELSE 0
    ELSE ActiveOf(ExprAt(s, c))

\* The expression of column c, complete or not.
ExpressionRight(s, c, complete, os, d, a) ==
  /\ Len(os) \in 0 .. Len(DecChains[ExprAt(s, c)])
  /\ complete => Len(os) = Len(DecChains[ExprAt(s, c)])
  /\ os = [k \in 1 .. Len(os) |-> RefOf(s, c, k)]
  /\ DecodersRight(s, c, Len(os), d)
  /\ a = IF complete THEN ActiveAt(s, c) ELSE 0

ExpressionsRight(s, ph, cl, os, d, a) ==
  /\ os = [c \in 1 .. Len(s) |-> os[c]]
  /\ d = [c \in 1 .. Len(s) |-> d[c]]
  /\ a = [c \in 1 .. Len(s) |-> a[c]]
  /\ \A c \in 1 .. Len(s) :
       /\ ExpressionRight(s, c, ph = "read" \/ (ph = "decode" /\ c < cl), os[c], d[c], a[c])
       /\ ph = "encode" \/ (ph = "decode" /\ c > cl) => os[c] = <<>>

\* The cursors while a chain of decoding operators is built.
DecoderState(s, c, m) ==
  [cur_operator |-> 0, cur_operand |-> IF m = 0 THEN 0 ELSE LeftAt(ExprAt(s, c), m)]

\* What the buffers hold when vector v of the first n columns has been fetched.
Holders == ActiveOps \ {"slpatch"}

HeldBy(e, op) ==
  CASE op = "unffor" -> PackedOf(e) [] op = "rsum" -> TransposedOf(e) [] OTHER -> <<>>

Held(s, c, j, v) ==
  [col |-> c, vec |-> v, by |-> HeldBy(ExprAt(s, c), OwnOp(ExprAt(s, c), j))]

Fetched(s, b, n, v) ==
  \A c \in 1 .. n : \A j \in 1 .. OwnLen(ExprAt(s, c)) :
    OwnOp(ExprAt(s, c), j) \in Holders => b[c][j] = Held(s, c, j, v)

Terms(s) == [col : 0 .. Len(s), vec : 0 .. NumVectors, by : Seq(Forms)]

\* Buffers for the operators d.
BuffersOf(s, d) ==
  {b \in [1 .. Len(s) -> Seq(Terms(s))] : \A c \in 1 .. Len(s) : Len(b[c]) = Len(d[c])}

\* What has been materialized of a column.
OriginalOf(s, c) == IF ExprAt(s, c) = "equal" THEN s[c].of ELSE c

OutRight(s, nv, o) ==
  /\ o = [c \in 1 .. Len(s) |-> o[c]]
  /\ \A c \in 1 .. Len(s) :
       /\ Len(o[c]) \in 0 .. NumVectors /\ (nv # 0 => Len(o[c]) = nv - 1)
       /\ o[c] = [v \in 1 .. Len(o[c]) |-> [col |-> OriginalOf(s, c), vec |-> v, by |-> <<>>]]

\* The inductive invariant: while column col is encoded, and while its decoding
\* operators are built, chains, tokens and cursors are as the tables say; what is
\* finished, the tokens, the flushed segments and the expressions, stays so; and the
\* buffers hold the last chunk.
IInv ==
  /\ schema \in Schemas
  /\ phase \in {"encode", "decode", "read"} /\ col \in 1 .. Len(schema)
  /\ IF phase = "encode" THEN EncoderRight(schema, col, enc, state, vec_idx, segs)
     ELSE enc = <<>> /\ segs = <<>> /\ vec_idx = 0
  /\ phase = "decode" => state = DecoderState(schema, col, Len(ops[col]))
  /\ phase = "read" => state = Fresh
  /\ TokensRight(schema, phase, col, Len(enc), tokens)
  /\ FileRight(schema, phase, col, file)
  /\ ExpressionsRight(schema, phase, col, ops, dec, n_active)
  /\ bufs \in BuffersOf(schema, dec)
  /\ chunk \in 0 .. NumVectors /\ next_vec \in 0 .. NumVectors
  /\ phase # "read" => chunk = 0 /\ next_vec = 0
  /\ chunk # 0 => Fetched(schema, bufs, Len(schema), chunk)
  /\ OutRight(schema, next_vec, out)

-----------------------------------------------------------------------------
(* Schemas and contents *)

\* What a schema of the wizard is like, at one of its columns.
LEMMA SchemaFacts ==
  ASSUME NEW s \in Schemas, NEW c \in 1 .. Len(s)
  PROVE  /\ s \in Seq(Choice) /\ Len(s) \in Nat \ {0} /\ DOMAIN s = 1 .. Len(s)
         /\ s[c] \in Choice /\ s[c].expr \in Expressions \ {"fsst"} /\ HasEncoder(s[c])
         /\ HasDecoder(s[c]) /\ s[c].of \in 0 .. c - 1
         /\ s[c].of # 0 <=> s[c].expr \in External \cup {"equal"}
         /\ s[c].expr = "equal" => s[s[c].of].expr # "equal"
         /\ s[c].expr \in External =>
              s[s[c].of].expr \in Dictionaries /\ s[s[c].of].index = s[c].index
<1>1. /\ s \in Seq(Choice) /\ s # <<>>
      /\ \A d \in DOMAIN s :
           /\ HasDecoder(s[d]) /\ s[d].expr # "fsst"
           /\ s[d].of < d
           /\ s[d].of # 0 <=> s[d].expr \in External \cup {"equal"}
           /\ s[d].expr = "equal" => s[s[d].of].expr # "equal"
           /\ s[d].expr \in External =>
                s[s[d].of].expr \in Dictionaries /\ s[s[d].of].index = s[d].index
  BY SchemasAssumption, Zenon
<1>2. Len(s) \in Nat \ {0} /\ DOMAIN s = 1 .. Len(s) /\ s[c] \in Choice
  BY <1>1
<1>3. s[c].expr \in Expressions /\ s[c].of \in Nat
  BY <1>2 DEF Choice
<1>4. HasEncoder(s[c])
  BY <1>1, <1>2 DEF HasDecoder
<1>5. s[c].of \in 0 .. c - 1
  BY <1>1, <1>2, <1>3
<1> QED BY <1>1, <1>2, <1>3, <1>4, <1>5

\* The rows of an expression.
LEMMA RowOf ==
  ASSUME NEW e \in Expressions \ {"fsst"}
  PROVE  /\ EncodersShaped(e) /\ EncodersCounted(e) /\ SegmentsCounted(e) /\ OwnCounted(e)
         /\ SegmentsLaid(e) /\ DecodersShaped(e) /\ DecodersCounted(e) /\ StartsAre(e)
         /\ DecodersAimed(e) /\ DecodersFit(e) /\ TokensFit(e) /\ LastShaped(e)
BY Rows DEF Row

\* A sequence that is another one with x behind it.
LEMMA AppendIs ==
  ASSUME NEW s, Sequential(s), NEW x, NEW t, Sequential(t), Len(t) = Len(s) + 1,
         \A k \in 1 .. Len(s) : t[k] = s[k], t[Len(s) + 1] = x
  PROVE  Append(s, x) = t
<1> DEFINE u == Append(s, x)
<1>1. /\ Sequential(u) /\ Len(u) = Len(s) + 1 /\ \A k \in 1 .. Len(s) : u[k] = s[k]
      /\ u[Len(s) + 1] = x
  BY OneLonger
<1> HIDE DEF u
<1>2. Len(s) \in Nat
  BY DEF Sequential
<1>3. \A k \in 1 .. Len(t) : u[k] = t[k]
  BY <1>1, <1>2
<1>4. u = [k \in 1 .. Len(t) |-> u[k]] /\ t = [k \in 1 .. Len(t) |-> t[k]]
  BY <1>1 DEF Sequential
<1>5. u = t
  BY <1>3, <1>4
<1> QED BY <1>5 DEF u

\* One, two and three transformations.
LEMMA OneMoreOf ==
  ASSUME NEW x, NEW y, NEW z
  PROVE  /\ Append(<<>>, x) = <<x>> /\ Append(<<x>>, y) = <<x, y>>
         /\ Append(<<x, y>>, z) = <<x, y, z>>
<1>1. Append(<<>>, x) = <<x>>
  <2>1. /\ Sequential(<<>>) /\ Sequential(<<x>>) /\ Len(<<x>>) = Len(<<>>) + 1
        /\ \A k \in 1 .. Len(<<>>) : <<x>>[k] = <<>>[k]
        /\ <<x>>[Len(<<>>) + 1] = x
    BY DEF Sequential
  <2> QED BY <2>1, AppendIs
<1>2. Append(<<x>>, y) = <<x, y>>
  <2>1. Sequential(<<x>>) /\ Sequential(<<x, y>>) /\ Len(<<x, y>>) = Len(<<x>>) + 1
    BY DEF Sequential
  <2>2. /\ \A k \in 1 .. Len(<<x>>) : <<x, y>>[k] = <<x>>[k]
        /\ <<x, y>>[Len(<<x>>) + 1] = y
    OBVIOUS
  <2> QED BY <2>1, <2>2, AppendIs
<1>3. Append(<<x, y>>, z) = <<x, y, z>>
  <2>1. Sequential(<<x, y>>) /\ Sequential(<<x, y, z>>) /\ Len(<<x, y, z>>) = Len(<<x, y>>) + 1
    BY DEF Sequential
  <2>2. /\ \A k \in 1 .. Len(<<x, y>>) : <<x, y, z>>[k] = <<x, y>>[k]
        /\ <<x, y, z>>[Len(<<x, y>>) + 1] = z
    OBVIOUS
  <2> QED BY <2>1, <2>2, AppendIs
<1> QED BY <1>1, <1>2, <1>3

\* The contents on the way through a chain.
LEMMA ContentsAre ==
  ASSUME NEW e
  PROVE  /\ e \in RleExprs \cup FsstDeltas \cup {"delta"} =>
              Append(BaseOf(e), "transpose") = TransposedOf(e)
         /\ e \in RleExprs \cup FsstDeltas \cup {"delta"} =>
              Append(TransposedOf(e), "delta") = PackedOf(e)
         /\ e \in Patchable => HoleyOf(e) = Append(PackedOf(e), "holes")
         /\ e \notin Patchable => HoleyOf(e) = PackedOf(e)
         /\ BaseOf(e) \in Seq(Forms) /\ TransposedOf(e) \in Seq(Forms)
         /\ PackedOf(e) \in Seq(Forms) /\ HoleyOf(e) \in Seq(Forms)
<1>1. /\ e = "delta" => e \notin RleExprs /\ e \notin FsstDeltas /\ e \notin OwnDicts
      /\ e \in RleExprs => e # "delta" /\ e \notin FsstDeltas /\ e \notin OwnDicts
      /\ e \in FsstDeltas => e # "delta" /\ e \notin RleExprs /\ e \notin OwnDicts
  BY DEF RleExprs, FsstDeltas, OwnDicts, Dictionaries, External
<1>2. ASSUME e \in RleExprs \cup FsstDeltas \cup {"delta"}
      PROVE  /\ Append(BaseOf(e), "transpose") = TransposedOf(e)
             /\ Append(TransposedOf(e), "delta") = PackedOf(e)
  <2>1. CASE e = "delta"
    <3>1. BaseOf(e) = <<>>
      BY <1>1, <2>1 DEF BaseOf
    <3>2. TransposedOf(e) = <<"transpose">>
      BY <1>1, <2>1 DEF TransposedOf
    <3>3. PackedOf(e) = <<"transpose", "delta">>
      BY <1>1, <2>1 DEF PackedOf
    <3> QED BY <3>1, <3>2, <3>3, OneMoreOf
  <2>2. CASE e \in RleExprs
    <3>1. BaseOf(e) = <<"runs">>
      BY <1>1, <2>2 DEF BaseOf
    <3>2. TransposedOf(e) = <<"runs", "transpose">>
      BY <1>1, <2>2 DEF TransposedOf
    <3>3. PackedOf(e) = <<"runs", "transpose", "delta">>
      BY <1>1, <2>2 DEF PackedOf
    <3> QED BY <3>1, <3>2, <3>3, OneMoreOf
  <2>3. CASE e \in FsstDeltas
    <3>1. BaseOf(e) = <<"offsets">>
      BY <1>1, <2>3 DEF BaseOf
    <3>2. TransposedOf(e) = <<"offsets", "transpose">>
      BY <1>1, <2>3 DEF TransposedOf
    <3>3. PackedOf(e) = <<"offsets", "transpose", "delta">>
      BY <1>1, <2>3 DEF PackedOf
    <3> QED BY <3>1, <3>2, <3>3, OneMoreOf
  <2> QED BY <1>2, <2>1, <2>2, <2>3
<1>5. BaseOf(e) \in Seq(Forms) /\ TransposedOf(e) \in Seq(Forms) /\ PackedOf(e) \in Seq(Forms)
  <2>1. /\ BaseOf(e) \in {<<>>, <<"runs">>, <<"offsets">>}
        /\ TransposedOf(e) \in {<<>>, <<"transpose">>, <<"runs", "transpose">>, <<"offsets", "transpose">>}
        /\ PackedOf(e) \in {<<>>, <<"index">>, <<"transpose", "delta">>,
                            <<"runs", "transpose", "delta">>, <<"offsets", "transpose", "delta">>}
    BY Zenon DEF BaseOf, TransposedOf, PackedOf
  <2>2. ASSUME NEW A PROVE <<>> \in Seq(A) /\ \A x \in A : <<x>> \in Seq(A)
    OBVIOUS
  <2>3. ASSUME NEW A PROVE \A x, y \in A : <<x, y>> \in Seq(A)
    OBVIOUS
  <2>4. ASSUME NEW A PROVE \A x, y, z \in A : <<x, y, z>> \in Seq(A)
    OBVIOUS
  <2>5. /\ "runs" \in Forms /\ "offsets" \in Forms /\ "index" \in Forms /\ "transpose" \in Forms
        /\ "delta" \in Forms
    BY DEF Forms
  <2>6. /\ <<>> \in Seq(Forms) /\ <<"runs">> \in Seq(Forms) /\ <<"offsets">> \in Seq(Forms)
        /\ <<"index">> \in Seq(Forms) /\ <<"transpose">> \in Seq(Forms)
    BY <2>2, <2>5, Zenon
  <2>7. /\ <<"runs", "transpose">> \in Seq(Forms) /\ <<"offsets", "transpose">> \in Seq(Forms)
        /\ <<"transpose", "delta">> \in Seq(Forms)
    BY <2>3, <2>5, Zenon
  <2>8. /\ <<"runs", "transpose", "delta">> \in Seq(Forms)
        /\ <<"offsets", "transpose", "delta">> \in Seq(Forms)
    BY <2>4, <2>5, Zenon
  <2> QED BY <2>1, <2>6, <2>7, <2>8, Zenon
<1>6. HoleyOf(e) \in Seq(Forms)
  <2>1. PackedOf(e) \in Seq(Forms)
    BY <1>5
  <2>2. Append(PackedOf(e), "holes") \in Seq(Forms)
    <3>1. "holes" \in Forms
      BY DEF Forms
    <3> QED BY <2>1, <3>1
  <2> QED BY <2>1, <2>2 DEF HoleyOf
<1>7. /\ e \in Patchable => HoleyOf(e) = Append(PackedOf(e), "holes")
      /\ e \notin Patchable => HoleyOf(e) = PackedOf(e)
  BY DEF HoleyOf
<1> QED BY <1>2, <1>5, <1>6, <1>7, Zenon

-----------------------------------------------------------------------------
(* Operators and their segments *)

\* Keeping all that is there leaves a sequence as it is.
LEMMA KeptAll ==
  ASSUME NEW A, NEW s \in Seq(A), NEW T, \A n \in 1 .. Len(s) : s[n] \in T
  PROVE  Kept(s, T) = s
<1>1. PICK k \in [0 .. Len(s) -> Seq(A \cap T)] : KeptBy(s, T, k)
  BY KeptSteps
<1>2. Kept(s, T) = k[Len(s)] /\ k[0] = <<>> /\ \A n \in 1 .. Len(s) : k[n] = Append(k[n - 1], s[n])
  BY <1>1 DEF KeptBy
<1>3. Len(s) \in Nat /\ s = [n \in 1 .. Len(s) |-> s[n]] /\ \A n \in 1 .. Len(s) : s[n] \in A
  OBVIOUS
<1> DEFINE First(n, t) == Sequential(t) /\ Len(t) = n /\ \A i \in 1 .. n : t[i] = s[i]
           S == {n \in Nat : n <= Len(s) => First(n, k[n])}
<1>4. 0 \in S
  BY <1>2 DEF Sequential
<1>5. ASSUME NEW n \in Nat, n \in S PROVE n + 1 \in S
  <2> SUFFICES ASSUME n + 1 <= Len(s) PROVE First(n + 1, k[n + 1])
    OBVIOUS
  <2>1. n + 1 \in 1 .. Len(s) /\ (n + 1) - 1 = n /\ n <= Len(s)
    BY <1>3
  <2>2. First(n, k[n])
    BY <1>5, <2>1
  <2>3. k[n + 1] = Append(k[n], s[n + 1])
    <3>1. k[n + 1] = Append(k[(n + 1) - 1], s[n + 1])
      BY <1>2, <2>1
    <3> QED BY <2>1, <3>1
  <2>4. PICK t : t = k[n]
    OBVIOUS
  <2>5. PICK x : x = s[n + 1]
    OBVIOUS
  <2>6. /\ Sequential(Append(t, x)) /\ Len(Append(t, x)) = Len(t) + 1
        /\ \A i \in 1 .. Len(t) : Append(t, x)[i] = t[i]
        /\ Append(t, x)[Len(t) + 1] = x
    BY <2>2, <2>4, OneLonger
  <2>7. Len(t) = n /\ \A i \in 1 .. n : t[i] = s[i]
    BY <2>2, <2>4
  <2>8. \A i \in 1 .. n + 1 : i \in 1 .. n \/ i = n + 1
    OBVIOUS
  <2>9. k[n + 1] = Append(t, x)
    BY <2>3, <2>4, <2>5
  <2> QED BY <2>5, <2>6, <2>7, <2>8, <2>9
<1>6. Nat \subseteq S
  <2> HIDE DEF S
  <2> QED BY <1>4, <1>5, Successors
<1>7. Sequential(k[Len(s)]) /\ Len(k[Len(s)]) = Len(s) /\ \A i \in 1 .. Len(s) : k[Len(s)][i] = s[i]
  BY <1>3, <1>6
<1>8. k[Len(s)] = [n \in 1 .. Len(s) |-> k[Len(s)][n]]
  BY <1>7 DEF Sequential
<1>9. k[Len(s)] = s
  BY <1>3, <1>7, <1>8
<1> QED BY <1>2, <1>9

\* The operand tokens of an operator that has just been built.
OwnOf(op, o) == IF op \in Tokenless THEN 0 ELSE Len(SegmentsOf(o))

LEMMA OwnTokensAre ==
  ASSUME NEW op \in DOMAIN OwnTokens, NEW o, o.op = op, o.data_parallelize = FALSE
  PROVE  OwnOf(op, o) = OwnTokens[op]
BY SMTT(60) DEF OwnOf, OwnTokens, Tokenless, SegmentsOf, Patching

\* What an operator reads is what its segments are found by.
ReadsAgree(e, op) ==
  \A j \in 1 .. Len(KeptOf(e, op)) : ReadsAt(e, KeptOf(e, op)[j]) = ReadsOf(e, op)

LEMMA ReadsRight ==
  ASSUME NEW e, NEW op \in DOMAIN OwnTokens,
         op \in {"frequency", "frequency_str"} => e \notin Patchable,
         op = "slpatch" => e \in Patchable
  PROVE  ReadsAgree(e, op)
<1> DEFINE Plain(x) == \A j \in 1 .. Len(KeptOf(e, x)) :
             KeptOf(e, x)[j] \notin {"bitpacked", "bitwidth", "base", "bases", "exceptions",
                                     "exception_positions", "n_exceptions"}
           Empty(x) == Len(KeptOf(e, x)) = 0 \/ ReadsOf(e, x) = <<>>
<1>1. ReadsAgree(e, "ffor")
  BY DEF ReadsAgree, ReadsAt, ReadsOf, KeptOf
<1>2. e \in Patchable => ReadsAgree(e, "slpatch")
  BY DEF ReadsAgree, ReadsAt, ReadsOf, KeptOf, Patching
<1>3. ReadsAgree(e, "rsum")
  BY DEF ReadsAgree, ReadsAt, ReadsOf, KeptOf
<1>4. e \notin Patchable => ReadsAgree(e, "frequency") /\ ReadsAgree(e, "frequency_str")
  BY DEF ReadsAgree, ReadsAt, ReadsOf, KeptOf
<1>5. ASSUME op \notin {"ffor", "slpatch", "rsum", "frequency", "frequency_str"}
      PROVE  ReadsAgree(e, op)
  <2>1. Plain("uncompressed") /\ Empty("uncompressed") BY DEF KeptOf, ReadsOf, Patching, Alp, Galp, AlpRd
  <2>2. Plain("validitymask") /\ Empty("validitymask") BY DEF KeptOf, ReadsOf, Patching, Alp, Galp, AlpRd
  <2>3. Plain("str_uncompressed") /\ Empty("str_uncompressed") BY DEF KeptOf, ReadsOf, Patching, Alp, Galp, AlpRd
  <2>4. Plain("scan") /\ Empty("scan") BY DEF KeptOf, ReadsOf, Patching, Alp, Galp, AlpRd
  <2>5. Plain("analyze") /\ Empty("analyze") BY DEF KeptOf, ReadsOf, Patching, Alp, Galp, AlpRd
  <2>6. Plain("analyze_patch") /\ Empty("analyze_patch") BY DEF KeptOf, ReadsOf, Patching, Alp, Galp, AlpRd
  <2>7. Plain("transpose") /\ Empty("transpose") BY DEF KeptOf, ReadsOf, Patching, Alp, Galp, AlpRd
  <2>8. Plain("rle_map") /\ Empty("rle_map") BY DEF KeptOf, ReadsOf, Patching, Alp, Galp, AlpRd
  <2>9. Plain("rle_map_str") /\ Empty("rle_map_str") BY DEF KeptOf, ReadsOf, Patching, Alp, Galp, AlpRd
  <2>10. Plain("dict") /\ Empty("dict") BY DEF KeptOf, ReadsOf, Patching, Alp, Galp, AlpRd
  <2>11. Plain("dict_map") /\ Empty("dict_map") BY DEF KeptOf, ReadsOf, Patching, Alp, Galp, AlpRd
  <2>12. Plain("dict_str") /\ Empty("dict_str") BY DEF KeptOf, ReadsOf, Patching, Alp, Galp, AlpRd
  <2>13. Plain("fsst_dict") /\ Empty("fsst_dict") BY DEF KeptOf, ReadsOf, Patching, Alp, Galp, AlpRd
  <2>14. Plain("fsst") /\ Empty("fsst") BY DEF KeptOf, ReadsOf, Patching, Alp, Galp, AlpRd
  <2>15. Plain("null") /\ Empty("null") BY DEF KeptOf, ReadsOf, Patching, Alp, Galp, AlpRd
  <2>16. Plain("cross_rle") /\ Empty("cross_rle") BY DEF KeptOf, ReadsOf, Patching, Alp, Galp, AlpRd
  <2>17. Plain("cross_rle_str") /\ Empty("cross_rle_str") BY DEF KeptOf, ReadsOf, Patching, Alp, Galp, AlpRd
  <2>18. Plain("alp") /\ Empty("alp") BY DEF KeptOf, ReadsOf, Patching, Alp, Galp, AlpRd
  <2>19. Plain("data_parallel_patch") /\ Empty("data_parallel_patch") BY DEF KeptOf, ReadsOf, Patching, Alp, Galp, AlpRd
  <2>20. Plain("alp_rd") /\ Empty("alp_rd") BY DEF KeptOf, ReadsOf, Patching, Alp, Galp, AlpRd
  <2>21. Plain(op) /\ Empty(op)
    <3> HIDE DEF Plain, Empty
    <3> QED BY <1>5,
          <2>1, <2>2, <2>3, <2>4, <2>5, <2>6, <2>7, <2>8, <2>9, <2>10, <2>11, <2>12, <2>13, <2>14,
          <2>15, <2>16, <2>17, <2>18, <2>19, <2>20
          DEF OwnTokens
  <2>22. PICK kept : kept = KeptOf(e, op)
    OBVIOUS
  <2> QED BY <2>21, <2>22 DEF ReadsAgree, ReadsAt
<1> HIDE DEF Plain, Empty
<1> QED BY <1>1, <1>2, <1>3, <1>4, <1>5

\* The names of segments are sequences.
LEMMA KeptSequential ==
  ASSUME NEW e, NEW op \in DOMAIN OwnTokens
  PROVE  Sequential(KeptOf(e, op))
<1> DEFINE P(x) == Sequential(KeptOf(e, x))
<1> USE DEF KeptOf, Sequential, Alp, Galp, AlpRd, Patching
<1>1. P("uncompressed") OBVIOUS
<1>2. P("validitymask") OBVIOUS
<1>3. P("str_uncompressed") OBVIOUS
<1>4. P("scan") OBVIOUS
<1>5. P("analyze") OBVIOUS
<1>6. P("analyze_patch") OBVIOUS
<1>7. P("ffor") OBVIOUS
<1>8. P("slpatch") OBVIOUS
<1>9. P("transpose") OBVIOUS
<1>10. P("rsum") OBVIOUS
<1>11. P("rle_map") OBVIOUS
<1>12. P("rle_map_str") OBVIOUS
<1>13. P("dict") OBVIOUS
<1>14. P("dict_map") OBVIOUS
<1>15. P("dict_str") OBVIOUS
<1>16. P("fsst_dict") OBVIOUS
<1>17. P("fsst") OBVIOUS
<1>18. P("null") OBVIOUS
<1>19. P("frequency") OBVIOUS
<1>20. P("frequency_str") OBVIOUS
<1>21. P("cross_rle") OBVIOUS
<1>22. P("cross_rle_str") OBVIOUS
<1>23. P("alp")
  <2> HIDE DEF Alp, Galp, Sequential
  <2>1. Sequential(Alp) /\ Sequential(Galp)
    BY DEF Sequential, Alp, Galp
  <2> QED BY <2>1
<1>24. P("data_parallel_patch") OBVIOUS
<1>25. P("alp_rd") OBVIOUS
<1> HIDE DEF KeptOf, Sequential, Alp, Galp, AlpRd, Patching
<1> QED
  <2> HIDE DEF P
  <2>1. P(op)
    BY <1>1, <1>2, <1>3, <1>4, <1>5, <1>6, <1>7, <1>8, <1>9, <1>10, <1>11, <1>12, <1>13,
       <1>14, <1>15, <1>16, <1>17, <1>18, <1>19, <1>20, <1>21, <1>22, <1>23, <1>24, <1>25
       DEF OwnTokens
  <2> QED BY <2>1 DEF P

\* What the persistent segments of an operator in a complete chain are.
LEMMA KeptIs ==
  ASSUME NEW e \in Expressions \ {"fsst"}, NEW k \in 1 .. Len(EncChains[e]),
         NEW o, o = EncOp(e, k, Len(EncChains[e]))
  PROVE  Kept(SegmentsOf(o), ToSet(SegmentsOf(o)) \ o.temporary) = KeptOf(e, EncChains[e][k])
<1> DEFINE op == EncChains[e][k]
           N  == Len(EncChains[e])
<1>1. /\ o.op = op /\ o.temporary = IF op = "fsst" /\ k < N THEN {"fsst_offsets"} ELSE {}
      /\ o.data_parallelize <=> op = "alp" /\ k < N
  BY DEF EncOp
<1>2. N \in Nat /\ op \in DOMAIN OwnTokens /\ (op = "alp" => (k < N <=> e = "galp"))
      /\ (op = "fsst" => k < N)
  <2>1. EncodersShaped(e) /\ EncodersCounted(e)
    BY RowOf
  <2>2. N \in Nat /\ op \in DOMAIN OwnTokens
    BY <2>1 DEF EncodersCounted
  <2>3. k = 1 <=> op \notin FollowsCursor \cup FollowsBack \cup {"dict_map"}
    BY <2>1 DEF EncodersShaped
  <2>4. op = "alp" => k = 1
    BY <2>3 DEF FollowsCursor, FollowsBack
  <2>5. /\ op = "fsst" => k < N
        /\ op = "alp" /\ k < N <=> e = "galp" /\ k = 1
    BY <2>1 DEF EncodersShaped
  <2> QED BY <2>2, <2>4, <2>5
<1> HIDE DEF op, N
<1>4. CASE op = "fsst"
  <2> DEFINE T == ToSet(SegmentsOf(o)) \ o.temporary
             s == <<"fsst_header", "fsst_bytes", "fsst_offsets">>
             A == {"fsst_header", "fsst_bytes", "fsst_offsets"}
  <2>1. SegmentsOf(o) = s
    BY <1>1, <1>4 DEF SegmentsOf
  <2>2. T = {"fsst_header", "fsst_bytes"}
    <3>1. ToSet(s) = A
      BY DEF ToSet
    <3>2. o.temporary = {"fsst_offsets"}
      BY <1>1, <1>2, <1>4
    <3> QED BY <2>1, <3>1, <3>2
  <2>3. s \in Seq(A) /\ Len(s) = 3
    OBVIOUS
  <2>4. PICK g \in [0 .. 3 -> Seq(A \cap T)] : KeptBy(s, T, g)
    BY <2>3, KeptSteps
  <2> HIDE DEF T
  <2>5. /\ Kept(s, T) = g[3] /\ g[0] = <<>>
        /\ g[1] = Append(g[0], "fsst_header") /\ g[2] = Append(g[1], "fsst_bytes") /\ g[3] = g[2]
    <3>1. s[1] \in T /\ s[2] \in T /\ s[3] \notin T
      BY <2>2
    <3>2. /\ s[1] = "fsst_header" /\ s[2] = "fsst_bytes"
          /\ 1 \in 1 .. Len(s) /\ 2 \in 1 .. Len(s) /\ 3 \in 1 .. Len(s) /\ Len(s) = 3
      OBVIOUS
    <3>3. /\ Kept(s, T) = g[Len(s)] /\ g[0] = <<>>
          /\ \A n \in 1 .. Len(s) : g[n] = IF s[n] \in T THEN Append(g[n - 1], s[n]) ELSE g[n - 1]
      BY <2>4 DEF KeptBy
    <3> HIDE DEF s
    <3>4. /\ g[1] = Append(g[1 - 1], s[1]) /\ g[2] = Append(g[2 - 1], s[2]) /\ g[3] = g[3 - 1]
      BY <3>1, <3>2, <3>3, Zenon
    <3>5. 1 - 1 = 0 /\ 2 - 1 = 1 /\ 3 - 1 = 2
      OBVIOUS
    <3> QED BY <3>2, <3>3, <3>4, <3>5, Zenon
  <2>6. g[3] = <<"fsst_header", "fsst_bytes">>
    BY <2>5, OneMoreOf
  <2>7. KeptOf(e, op) = <<"fsst_header", "fsst_bytes">>
    BY <1>4 DEF KeptOf
  <2> QED BY <2>1, <2>5, <2>6, <2>7 DEF op, T
<1>5. CASE op # "fsst"
  <2>1. o.temporary = {}
    BY <1>1, <1>5
  <2>2. SegmentsOf(o) = KeptOf(e, op)
    <3>1. ASSUME op # "alp" PROVE SegmentsOf(o) = KeptOf(e, op)
      BY <1>1, <1>2, <1>5, <3>1, SMTT(60) DEF SegmentsOf, KeptOf, OwnTokens
    <3>2. ASSUME op = "alp" PROVE SegmentsOf(o) = KeptOf(e, op)
      BY <1>1, <1>2, <3>2 DEF SegmentsOf, KeptOf
    <3> QED BY <3>1, <3>2
  <2>3. PICK s : s = KeptOf(e, op)
    OBVIOUS
  <2>4. Sequential(s)
    BY <1>2, <2>3, KeptSequential
  <2>5. s \in Seq(ToSet(s)) /\ \A n \in 1 .. Len(s) : s[n] \in ToSet(s) \ {}
    <3>1. Len(s) \in Nat /\ s = [n \in 1 .. Len(s) |-> s[n]]
      BY <2>4 DEF Sequential
    <3>2. \A n \in 1 .. Len(s) : s[n] \in ToSet(s)
      BY <3>1 DEF ToSet
    <3>3. s \in [1 .. Len(s) -> ToSet(s)]
      BY <3>1, <3>2
    <3> QED BY <3>1, <3>2, <3>3, FunctionsAreSequences
  <2> QED BY <2>1, <2>2, <2>3, <2>5, KeptAll DEF op
<1> QED BY <1>4, <1>5

\* One operand token more, or several.
LEMMA TokensLonger ==
  ASSUME NEW ch \in Choice, NEW m \in Nat, NEW n \in Nat
  PROVE  TokensOf(ch, m) \o [k \in 1 .. n |-> m + k - 1] = TokensOf(ch, m + n)
<1> DEFINE x == TokensOf(ch, m)
           y == [k \in 1 .. n |-> m + k - 1]
           t == TokensOf(ch, m + n)
           b == Before(ch)
           A == Int
<1>1. b \in Nat /\ ch.of \in Nat
  BY DEF Before, Choice
<1> HIDE DEF b
<1>2. x = [j \in 1 .. b + m |-> IF j <= b THEN ch.of - 1 ELSE j - 1 - b]
  BY DEF TokensOf, b
<1>3. t = [j \in 1 .. b + (m + n) |-> IF j <= b THEN ch.of - 1 ELSE j - 1 - b]
  BY DEF TokensOf, b
<1> HIDE DEF x, t
<1>4. x \in Seq(Int) /\ Len(x) = b + m
  <2>1. x \in [1 .. b + m -> Int] /\ b + m \in Nat
    BY <1>1, <1>2
  <2> QED BY <2>1, FunctionsAreSequences
<1>5. t \in Seq(Int) /\ Len(t) = b + (m + n)
  <2>1. t \in [1 .. b + (m + n) -> Int] /\ b + (m + n) \in Nat
    BY <1>1, <1>3
  <2> QED BY <2>1, FunctionsAreSequences
<1>6. y \in Seq(Int) /\ Len(y) = n /\ \A k \in 1 .. n : y[k] = m + k - 1
  <2>1. y \in [1 .. n -> Int] /\ n \in Nat
    OBVIOUS
  <2> QED BY <2>1, FunctionsAreSequences
<1> HIDE DEF y
<1>7. /\ x \o y \in Seq(Int) /\ Len(x \o y) = Len(x) + Len(y)
      /\ \A i \in 1 .. Len(x) : (x \o y)[i] = x[i]
      /\ \A k \in 1 .. Len(y) : (x \o y)[Len(x) + k] = y[k]
  <2>1. x \in Seq(Int) /\ y \in Seq(Int)
    BY <1>4, <1>6
  <2> QED BY <2>1, Concatenation
<1>8. PICK z : z = x \o y
  OBVIOUS
<1>9. ASSUME NEW j \in 1 .. b + (m + n) PROVE z[j] = t[j]
  <2>1. CASE j <= b + m
    BY <1>1, <1>2, <1>3, <1>4, <1>7, <1>8, <2>1
  <2>2. CASE j > b + m
    <3>1. j - (b + m) \in 1 .. n /\ (b + m) + (j - (b + m)) = j /\ j > b
      BY <1>1, <2>2
    <3>2. z[(b + m) + (j - (b + m))] = y[j - (b + m)]
      BY <1>4, <1>6, <1>7, <1>8, <3>1
    <3>3. y[j - (b + m)] = m + (j - (b + m)) - 1 /\ t[j] = j - 1 - b
      BY <1>1, <1>3, <1>6, <3>1
    <3> QED BY <1>1, <3>1, <3>2, <3>3
  <2> QED BY <1>1, <2>1, <2>2
<1>10. z = t
  <2>1. z \in Seq(Int) /\ Len(z) = b + (m + n)
    BY <1>1, <1>4, <1>6, <1>7, <1>8
  <2> QED BY <1>5, <1>9, <2>1
<1> QED BY <1>8, <1>10 DEF x, y, t

\* And one less.
LEMMA TokensShorter ==
  ASSUME NEW ch \in Choice, NEW m \in Nat \ {0}
  PROVE  Front(TokensOf(ch, m)) = TokensOf(ch, m - 1)
<1> DEFINE x == TokensOf(ch, m)
           t == TokensOf(ch, m - 1)
           b == Before(ch)
<1>1. b \in Nat /\ ch.of \in Nat
  BY DEF Before, Choice
<1> HIDE DEF b
<1>2. x = [j \in 1 .. b + m |-> IF j <= b THEN ch.of - 1 ELSE j - 1 - b]
  BY DEF TokensOf, b
<1>3. t = [j \in 1 .. b + (m - 1) |-> IF j <= b THEN ch.of - 1 ELSE j - 1 - b]
  BY DEF TokensOf, b
<1> HIDE DEF x, t
<1>4. x \in Seq(Int) /\ Len(x) = b + m
  <2>1. x \in [1 .. b + m -> Int] /\ b + m \in Nat
    BY <1>1, <1>2
  <2> QED BY <2>1, FunctionsAreSequences
<1>5. t \in Seq(Int) /\ Len(t) = b + (m - 1)
  <2>1. t \in [1 .. b + (m - 1) -> Int] /\ b + (m - 1) \in Nat
    BY <1>1, <1>3
  <2> QED BY <2>1, FunctionsAreSequences
<1>6. /\ Len(x) >= 1 /\ Front(x) \in Seq(Int) /\ Len(Front(x)) = Len(x) - 1
      /\ \A i \in 1 .. Len(x) - 1 : Front(x)[i] = x[i]
  BY <1>1, <1>4 DEF Front
<1>7. PICK z : z = Front(x)
  OBVIOUS
<1>8. z = t
  <2>1. z \in Seq(Int) /\ Len(z) = b + (m - 1)
    BY <1>1, <1>4, <1>6, <1>7
  <2>2. \A j \in 1 .. b + (m - 1) : z[j] = t[j]
    <3>1. ASSUME NEW j \in 1 .. b + (m - 1) PROVE z[j] = t[j]
      <4>1. j \in 1 .. Len(x) - 1 /\ j \in 1 .. b + m
        BY <1>1, <1>4
      <4>2. z[j] = x[j]
        BY <1>6, <1>7, <4>1
      <4>3. x[j] = IF j <= b THEN ch.of - 1 ELSE j - 1 - b
        BY <1>2, <4>1
      <4> QED BY <1>3, <4>2, <4>3
    <3> QED BY <3>1
  <2> QED BY <1>5, <2>1, <2>2
<1> QED BY <1>7, <1>8 DEF x, t

-----------------------------------------------------------------------------
(* Building the encoding operators *)

\* The operator in front that the one behind n operators reads.
SourceAt(e, n) ==
  IF n = 0 \/ EncChains[e][n + 1] = "dict_map" THEN 0
  ELSE IF EncChains[e][n + 1] = "ffor" /\ e \in Patchable THEN n - 1 ELSE n

\* The column that is being encoded has operators left to build.
Building(n, e) ==
  /\ schema \in Schemas /\ col \in 1 .. Len(schema)
  /\ EncoderRight(schema, col, enc, state, vec_idx, segs)
  /\ n = Len(enc) /\ e = schema[col].expr /\ n < Len(EncChains[e])

\* What has been built, and how the next operator stands to it.
LEMMA BuildingFacts ==
  ASSUME NEW n, NEW e, Building(n, e)
  PROVE  /\ e \in Expressions \ {"fsst"} /\ n \in Nat /\ n + 1 \in 1 .. Len(EncChains[e])
         /\ EncoderRight(schema, col, enc, state, vec_idx, segs)
         /\ enc = [k \in 1 .. n |-> EncOp(e, k, n)] /\ Len(enc) = n
         /\ CursorRight(e, n, state.cur_operator)
         /\ state.cur_operand = IF e \in Literal THEN 0 ELSE CountAt(e, n)
         /\ schema[col] \in Choice /\ HasEncoder(schema[col])
<1>1. e \in Expressions \ {"fsst"} /\ HasEncoder(schema[col]) /\ schema[col] \in Choice
  BY SchemaFacts DEF Building
<1>2. Len(EncChains[e]) \in Nat
  BY <1>1, RowOf DEF EncodersCounted
<1>3. EncoderRight(schema, col, enc, state, vec_idx, segs) /\ n = Len(enc) /\ n < Len(EncChains[e])
  BY DEF Building
<1>4. /\ Len(enc) \in 0 .. Len(EncChains[e])
      /\ enc = [k \in 1 .. n |-> EncOp(e, k, n)] /\ CursorRight(e, n, state.cur_operator)
      /\ state.cur_operand = IF e \in Literal THEN 0 ELSE CountAt(e, n)
  BY DEF Building, EncoderRight, ExprAt
<1> QED BY <1>1, <1>2, <1>3, <1>4

\* Every operator finds its input where it looks for it, and accepts it.
LEMMA SourceRight ==
  ASSUME NEW n, NEW e, Building(n, e), NEW op, op = EncChains[e][n + 1]
  PROVE  /\ SourceOf(op) = SourceAt(e, n) /\ SourceAt(e, n) \in 0 .. n
         /\ SourceAt(e, n) # 0 => enc[SourceAt(e, n)].op \in EncAccepts[op]
         /\ Reads(op, SourceAt(e, n)) = ReadsOf(e, op)
         /\ Gives(op, ReadsOf(e, op)) = GivesOf(e, op)
<1>1. /\ e \in Expressions \ {"fsst"} /\ n \in Nat /\ n + 1 \in 1 .. Len(EncChains[e])
      /\ enc = [k \in 1 .. n |-> EncOp(e, k, n)] /\ Len(enc) = n
      /\ CursorRight(e, n, state.cur_operator)
  BY BuildingFacts
<1>2. \A k \in 1 .. n : enc[k].op = EncChains[e][k] /\ enc[k].gives = GivesOf(e, EncChains[e][k])
  BY <1>1 DEF EncOp
<1> DEFINE prev == EncChains[e][n]
           base == op \notin FollowsCursor \cup FollowsBack \cup {"dict_map"}
<1>3. /\ n = 0 <=> base
      /\ op \in DOMAIN OwnTokens
      /\ op \in {"transpose", "data_parallel_patch", "dict_map"} => n = 1
      /\ op = "transpose" => e \in RleExprs \cup FsstDeltas \cup {"delta"}
      /\ op = "transpose" => prev \in {"scan", "rle_map", "rle_map_str", "fsst"}
      /\ op = "transpose" => GivesOf(e, prev) = BaseOf(e)
      /\ op = "rsum" => n = 2 /\ prev = "transpose" /\ e \in RleExprs \cup FsstDeltas \cup {"delta"}
      /\ op = "data_parallel_patch" => prev = "alp"
      /\ op = "dict_map" => prev \in {"dict", "dict_str", "fsst_dict"}
      /\ op \in {"analyze", "analyze_patch"} => prev \in {"scan", "rsum", "dict_map"}
      /\ op \in {"analyze", "analyze_patch"} => GivesOf(e, prev) = PackedOf(e)
      /\ op = "slpatch" => prev = "analyze_patch"
      /\ op = "ffor" => IF e \in Patchable
                        THEN n > 1 /\ prev = "slpatch" /\ EncChains[e][n - 1] = "analyze_patch"
                        ELSE prev = "analyze"
  <2>1. EncodersShaped(e) /\ EncodersCounted(e)
    BY <1>1, RowOf
  <2>2. (n + 1) - 1 = n /\ (n + 1) - 2 = n - 1 /\ (n = 0 <=> n + 1 = 1)
    BY <1>1
  <2>3. op \in DOMAIN OwnTokens
    BY <1>1, <2>1 DEF EncodersCounted
  <2> QED BY <1>1, <2>1, <2>2, <2>3 DEF EncodersShaped
<1> HIDE DEF prev, base
<1>4. n # 0 => prev = EncChains[e][n] /\ n \in 1 .. n
  BY <1>1 DEF prev
<1> USE DEF FollowsCursor, FollowsBack
<1>5. CASE n = 0
  <2>1. op \notin FollowsCursor \cup FollowsBack \cup {"dict_map"}
    BY <1>3, <1>5 DEF base
  <2>2. SourceOf(op) = 0 /\ SourceAt(e, n) = 0
    BY <2>1, <1>5 DEF SourceOf, SourceAt
  <2>3. Reads(op, 0) = <<>> /\ ReadsOf(e, op) = <<>>
    BY <2>1 DEF Reads, ReadsOf
  <2>4. Gives(op, <<>>) = GivesOf(e, op)
    BY <2>1 DEF Gives, GivesOf
  <2> QED BY <1>1, <2>2, <2>3, <2>4
<1>6. CASE op = "dict_map"
  <2>1. SourceOf(op) = 0 /\ SourceAt(e, n) = 0
    BY <1>3, <1>6 DEF SourceOf, SourceAt
  <2>2. Reads(op, 0) = <<>> /\ ReadsOf(e, op) = <<>>
    BY <1>6 DEF Reads, ReadsOf
  <2>3. Gives(op, <<>>) = GivesOf(e, op)
    BY <1>6 DEF Gives, GivesOf
  <2> QED BY <1>1, <2>1, <2>2, <2>3
<1>7. CASE op = "transpose"
  <2>1. n = 1 /\ enc[1].op = prev /\ enc[1].gives = BaseOf(e)
    BY <1>2, <1>3, <1>4, <1>7
  <2>2. state.cur_operator = 0
    BY <1>1, <1>3, <1>4, <1>7, <2>1 DEF CursorRight
  <2>3. SourceOf(op) = 1 /\ SourceAt(e, n) = 1
    BY <1>1, <1>7, <2>1, <2>2 DEF SourceOf, SourceAt
  <2>4. Reads(op, 1) = BaseOf(e) /\ ReadsOf(e, op) = BaseOf(e)
    BY <1>7, <2>1 DEF Reads, ReadsOf
  <2>5. Gives(op, BaseOf(e)) = TransposedOf(e) /\ GivesOf(e, op) = TransposedOf(e)
    <3>1. Append(BaseOf(e), "transpose") = TransposedOf(e)
      BY <1>3, <1>7, ContentsAre
    <3> QED BY <1>7, <3>1 DEF Gives, GivesOf
  <2>6. enc[1].op \in EncAccepts[op]
    BY <1>3, <1>7, <2>1 DEF EncAccepts
  <2> QED BY <1>1, <2>1, <2>3, <2>4, <2>5, <2>6
<1>8. CASE op = "rsum"
  <2>1. n = 2 /\ enc[2].op = "transpose" /\ enc[2].gives = GivesOf(e, "transpose")
    BY <1>2, <1>3, <1>4, <1>8
  <2>2. state.cur_operator = 1
    BY <1>1, <1>3, <1>4, <1>8, <2>1 DEF CursorRight
  <2>3. SourceOf(op) = 2 /\ SourceAt(e, n) = 2
    BY <1>1, <1>8, <2>1, <2>2 DEF SourceOf, SourceAt
  <2>4. Reads(op, 2) = TransposedOf(e) /\ ReadsOf(e, op) = TransposedOf(e)
    BY <1>8, <2>1 DEF Reads, ReadsOf, GivesOf
  <2>5. Gives(op, TransposedOf(e)) = PackedOf(e) /\ GivesOf(e, op) = PackedOf(e)
    <3>1. Append(TransposedOf(e), "delta") = PackedOf(e)
      BY <1>3, <1>8, ContentsAre
    <3> QED BY <1>8, <3>1 DEF Gives, GivesOf
  <2>6. enc[2].op \in EncAccepts[op]
    BY <1>8, <2>1 DEF EncAccepts
  <2> QED BY <1>1, <2>1, <2>3, <2>4, <2>5, <2>6
<1>9. CASE op = "data_parallel_patch"
  <2>1. n = 1 /\ enc[1].op = "alp" /\ enc[1].gives = GivesOf(e, "alp")
    BY <1>2, <1>3, <1>4, <1>9
  <2>2. state.cur_operator = 0
    BY <1>1, <1>3, <1>4, <1>9, <2>1 DEF CursorRight
  <2>3. SourceOf(op) = 1 /\ SourceAt(e, n) = 1
    BY <1>1, <1>9, <2>1, <2>2 DEF SourceOf, SourceAt
  <2>4. Reads(op, 1) = <<>> /\ ReadsOf(e, op) = <<>>
    BY <1>9, <2>1 DEF Reads, ReadsOf, GivesOf
  <2>5. Gives(op, <<>>) = GivesOf(e, op)
    BY <1>9 DEF Gives, GivesOf
  <2>6. enc[1].op \in EncAccepts[op]
    BY <1>9, <2>1 DEF EncAccepts
  <2> QED BY <1>1, <2>1, <2>3, <2>4, <2>5, <2>6
<1>10. CASE op \in {"analyze", "analyze_patch", "slpatch"}
  <2>1. n # 0
    BY <1>3, <1>10 DEF base
  <2>2. /\ enc[n].op = prev /\ enc[n].gives = PackedOf(e)
        /\ prev \in EncAccepts[op]
    <3>1. enc[n].op = prev /\ enc[n].gives = GivesOf(e, prev)
      BY <1>2, <1>4, <2>1
    <3>2. op = "slpatch" => GivesOf(e, prev) = PackedOf(e)
      BY <1>3 DEF GivesOf
    <3>3. prev \in EncAccepts[op]
      BY <1>3, <1>10 DEF EncAccepts
    <3> QED BY <1>3, <1>10, <3>1, <3>2, <3>3
  <2>3. SourceOf(op) = n /\ SourceAt(e, n) = n
    BY <1>1, <1>10, <2>1 DEF SourceOf, SourceAt
  <2>4. Reads(op, n) = PackedOf(e) /\ ReadsOf(e, op) = PackedOf(e)
    BY <1>10, <2>1, <2>2 DEF Reads, ReadsOf
  <2>5. Gives(op, PackedOf(e)) = PackedOf(e) /\ GivesOf(e, op) = PackedOf(e)
    BY <1>10 DEF Gives, GivesOf
  <2> QED BY <1>1, <2>2, <2>3, <2>4, <2>5
<1>11. CASE op = "ffor"
  <2>1. n # 0 /\ enc[n].op = prev /\ Last(enc) = enc[n]
    <3>1. n # 0
      BY <1>3, <1>11 DEF base
    <3>2. enc[n].op = prev
      BY <1>2, <1>4, <3>1
    <3> QED BY <1>1, <3>1, <3>2 DEF Last
  <2>2. PICK s : s = SourceAt(e, n)
    OBVIOUS
  <2>3. /\ s \in 1 .. n /\ SourceOf(op) = s
        /\ enc[s].op = IF e \in Patchable THEN "analyze_patch" ELSE "analyze"
    <3>1. CASE e \in Patchable
      <4>1. s = n - 1 /\ n - 1 \in 1 .. n
        <5>1. n \in Nat /\ n > 1
          BY <1>1, <1>3, <1>11, <3>1
        <5>2. s = n - 1
          <6>1. EncChains[e][n + 1] = "ffor" /\ n # 0 /\ "ffor" # "dict_map"
            BY <1>11, <5>1
          <6> QED BY <2>2, <3>1, <6>1, Zenon DEF SourceAt
        <5> QED BY <5>1, <5>2
      <4>2. SourceOf(op) = n - 1
        BY <1>1, <1>3, <1>11, <2>1, <3>1 DEF SourceOf, FforSource
      <4> QED BY <1>2, <1>3, <1>11, <3>1, <4>1, <4>2
    <3>2. CASE e \notin Patchable
      <4>1. s = n
        BY <1>11, <2>1, <2>2, <3>2 DEF SourceAt
      <4>2. SourceOf(op) = n
        BY <1>1, <1>3, <1>11, <2>1, <3>2 DEF SourceOf, FforSource
      <4> QED BY <1>3, <1>4, <1>11, <2>1, <3>2, <4>1, <4>2
    <3> QED BY <3>1, <3>2
  <2>4. enc[s].gives = PackedOf(e)
    BY <1>2, <2>3 DEF GivesOf
  <2>5. Reads(op, s) = HoleyOf(e) /\ ReadsOf(e, op) = HoleyOf(e)
    BY <1>11, <2>3, <2>4 DEF Reads, ReadsOf, HoleyOf
  <2>6. Gives(op, HoleyOf(e)) = HoleyOf(e) /\ GivesOf(e, op) = HoleyOf(e)
    BY <1>11 DEF Gives, GivesOf
  <2>7. enc[s].op \in EncAccepts[op]
    BY <1>11, <2>3 DEF EncAccepts
  <2> QED BY <1>1, <2>2, <2>3, <2>5, <2>6, <2>7
<1> QED BY <1>3, <1>5, <1>6, <1>7, <1>8, <1>9, <1>10, <1>11 DEF base

\* Behind the constructor of op, over the operator at s, enc is that of n + 1 operators.
BuiltAs(n, e, op, s) ==
  Append(IF s = 0 THEN enc ELSE [enc EXCEPT ![s] = SourceAfter(op, @)], Operator(op, s))
    = [k \in 1 .. n + 1 |-> EncOp(e, k, n + 1)]

\* What has been built stands as it does in the chain.
LEMMA BuiltRight ==
  ASSUME NEW n, NEW e, Building(n, e), NEW op, op = EncChains[e][n + 1],
         NEW s, s = SourceAt(e, n)
  PROVE  BuiltAs(n, e, op, s)
<1> DEFINE chain == EncChains[e]
           base  == IF s = 0 THEN enc ELSE [enc EXCEPT ![s] = SourceAfter(op, @)]
           next  == [k \in 1 .. n + 1 |-> EncOp(e, k, n + 1)]
<1>1. /\ e \in Expressions \ {"fsst"} /\ n \in Nat /\ n + 1 \in 1 .. Len(chain)
      /\ enc = [k \in 1 .. n |-> EncOp(e, k, n)] /\ Len(enc) = n
  BY BuildingFacts
<1>2. /\ s \in 0 .. n
      /\ Reads(op, s) = ReadsOf(e, op) /\ Gives(op, ReadsOf(e, op)) = GivesOf(e, op)
  BY SourceRight
<1>3. Operator(op, s) = EncOp(e, n + 1, n + 1)
  <2>1. ~ (n + 1 < n + 1)
    BY <1>1
  <2>2. (op = "fsst" /\ n + 1 < n + 1) = FALSE /\ (op = "alp" /\ n + 1 < n + 1) = FALSE
    BY <2>1
  <2> QED BY <1>2, <2>2 DEF Operator, EncOp
<1>4. \A k \in 1 .. n : EncOp(e, k, n).op = chain[k] /\ enc[k] = EncOp(e, k, n)
  BY <1>1 DEF EncOp
<1>5. ASSUME NEW k \in 1 .. n, k < n \/ chain[k] \notin {"fsst", "alp"}
      PROVE  EncOp(e, k, n + 1) = EncOp(e, k, n)
  <2>1. /\ (chain[k] = "fsst" /\ k < n + 1) = (chain[k] = "fsst" /\ k < n)
        /\ (chain[k] = "alp" /\ k < n + 1) = (chain[k] = "alp" /\ k < n)
    BY <1>1, <1>5
  <2> QED BY <2>1 DEF EncOp
<1>6. ASSUME n # 0
      PROVE  /\ chain[n] = "fsst" => n = 1 /\ op = "transpose" /\ s = 1
             /\ chain[n] = "alp" => n = 1 /\ op = "data_parallel_patch" /\ s = 1
             /\ op = "transpose" => s = n /\ chain[n] # "alp"
             /\ op = "data_parallel_patch" => s = n /\ chain[n] = "alp"
  <2>1. EncodersShaped(e)
    BY <1>1, RowOf
  <2>2. n \in 1 .. Len(chain) /\ n < Len(chain) /\ (n + 1) - 1 = n /\ (n + 1 = 2 <=> n = 1)
    BY <1>1, <1>6
  <2>3. /\ chain[n] = "fsst" => n = 1 /\ chain[2] = "transpose"
        /\ chain[n] = "alp" => e = "galp" /\ n = 1
    BY <2>1, <2>2 DEF EncodersShaped
  <2>4. /\ op = "transpose" => n = 1 /\ chain[n] \in {"scan", "rle_map", "rle_map_str", "fsst"}
        /\ op = "data_parallel_patch" => n = 1 /\ chain[n] = "alp"
    BY <1>1, <2>1, <2>2 DEF EncodersShaped
  <2>5. e = "galp" => chain[2] = "data_parallel_patch"
    BY DEF EncChains
  <2>6. op \in {"transpose", "data_parallel_patch"} => s = n
    BY <1>6, Zenon DEF SourceAt
  <2> QED BY <1>1, <2>3, <2>4, <2>5, <2>6
<1>7. base = [k \in 1 .. n |-> EncOp(e, k, n + 1)]
  <2>1. ASSUME s = 0, NEW k \in 1 .. n PROVE EncOp(e, k, n + 1) = enc[k]
    <3>1. k < n \/ (k = n /\ n # 0)
      BY <1>1
    <3>2. k < n \/ chain[k] \notin {"fsst", "alp"}
      BY <1>6, <2>1, <3>1
    <3> QED BY <1>4, <1>5, <3>2
  <2>2. ASSUME s # 0, NEW k \in 1 .. n, k # s PROVE EncOp(e, k, n + 1) = enc[k]
    <3>1. k < n \/ (k = n /\ n # 0)
      BY <1>1
    <3>2. k < n \/ chain[k] \notin {"fsst", "alp"}
      BY <1>6, <2>2, <3>1
    <3> QED BY <1>4, <1>5, <3>2
  <2>3. ASSUME s # 0 PROVE EncOp(e, s, n + 1) = SourceAfter(op, enc[s])
    <3>1. s \in 1 .. n /\ n # 0 /\ enc[s] = EncOp(e, s, n) /\ enc[s].op = chain[s]
      BY <1>1, <1>2, <1>4, <2>3
    <3>2. CASE op = "transpose" /\ chain[s] = "fsst"
      <4>1. n = 1 /\ s = 1
        BY <1>6, <3>1, <3>2
      <4>2. PICK r, g : r = ReadsOf(e, "fsst") /\ g = GivesOf(e, "fsst")
        OBVIOUS
      <4>3. enc[s] = [op |-> "fsst", temporary |-> {}, data_parallelize |-> FALSE, reads |-> r,
                      gives |-> g]
        <5>1. (chain[1] = "fsst" /\ 1 < 1) = FALSE /\ (chain[1] = "alp" /\ 1 < 1) = FALSE
          OBVIOUS
        <5> QED BY <3>1, <3>2, <4>1, <4>2, <5>1 DEF EncOp
      <4>4. EncOp(e, s, n + 1) = [op |-> "fsst", temporary |-> {"fsst_offsets"},
                                  data_parallelize |-> FALSE, reads |-> r, gives |-> g]
        <5>1. (chain[1] = "fsst" /\ 1 < 1 + 1) = TRUE /\ (chain[1] = "alp" /\ 1 < 1 + 1) = FALSE
          BY <3>2, <4>1
        <5> QED BY <3>2, <4>1, <4>2, <5>1 DEF EncOp
      <4>5. SourceAfter(op, enc[s]) = [enc[s] EXCEPT !.temporary = {"fsst_offsets"}]
        BY <3>1, <3>2 DEF SourceAfter
      <4>6. PICK o : o = enc[s]
        OBVIOUS
      <4>7. PICK y : y = [o EXCEPT !.temporary = {"fsst_offsets"}]
        OBVIOUS
      <4>8. y.op = "fsst" /\ y.temporary = {"fsst_offsets"}
        BY <4>3, <4>6, <4>7
      <4>9. y.data_parallelize = FALSE /\ y.reads = r /\ y.gives = g
        BY <4>3, <4>6, <4>7
      <4>10. y = [op |-> y.op, temporary |-> y.temporary, data_parallelize |-> y.data_parallelize,
                  reads |-> y.reads, gives |-> y.gives]
        BY <4>3, <4>6, <4>7
      <4> QED BY <4>4, <4>5, <4>6, <4>7, <4>8, <4>9, <4>10, Zenon
    <3>3. CASE op = "data_parallel_patch"
      <4>1. n = 1 /\ s = 1 /\ chain[1] = "alp"
        BY <1>6, <3>1, <3>3
      <4>2. PICK r, g : r = ReadsOf(e, "alp") /\ g = GivesOf(e, "alp")
        OBVIOUS
      <4>3. enc[s] = [op |-> "alp", temporary |-> {}, data_parallelize |-> FALSE, reads |-> r,
                      gives |-> g]
        <5>1. (chain[1] = "fsst" /\ 1 < 1) = FALSE /\ (chain[1] = "alp" /\ 1 < 1) = FALSE
          OBVIOUS
        <5> QED BY <3>1, <4>1, <4>2, <5>1 DEF EncOp
      <4>4. EncOp(e, s, n + 1) = [op |-> "alp", temporary |-> {}, data_parallelize |-> TRUE,
                                  reads |-> r, gives |-> g]
        <5>1. (chain[1] = "fsst" /\ 1 < 1 + 1) = FALSE /\ (chain[1] = "alp" /\ 1 < 1 + 1) = TRUE
          BY <4>1
        <5> QED BY <4>1, <4>2, <5>1 DEF EncOp
      <4>5. SourceAfter(op, enc[s]) = [enc[s] EXCEPT !.data_parallelize = TRUE]
        BY <3>3 DEF SourceAfter
      <4>6. PICK o : o = enc[s]
        OBVIOUS
      <4>7. PICK y : y = [o EXCEPT !.data_parallelize = TRUE]
        OBVIOUS
      <4>8. y.op = "alp" /\ y.temporary = {}
        BY <4>3, <4>6, <4>7
      <4>9. y.data_parallelize = TRUE /\ y.reads = r /\ y.gives = g
        BY <4>3, <4>6, <4>7
      <4>10. y = [op |-> y.op, temporary |-> y.temporary, data_parallelize |-> y.data_parallelize,
                  reads |-> y.reads, gives |-> y.gives]
        BY <4>3, <4>6, <4>7
      <4> QED BY <4>4, <4>5, <4>6, <4>7, <4>8, <4>9, <4>10, Zenon
    <3>4. CASE op # "data_parallel_patch" /\ ~ (op = "transpose" /\ chain[s] = "fsst")
      <4>1. SourceAfter(op, enc[s]) = enc[s]
        BY <3>1, <3>4 DEF SourceAfter
      <4>2. s < n \/ chain[s] \notin {"fsst", "alp"}
        BY <1>1, <1>6, <3>1, <3>4
      <4> QED BY <1>4, <1>5, <3>1, <4>1, <4>2
    <3> QED BY <3>2, <3>3, <3>4
  <2>4. DOMAIN enc = 1 .. n /\ enc = [k \in 1 .. n |-> enc[k]]
    BY <1>1
  <2>5. CASE s = 0
    BY <2>1, <2>4, <2>5
  <2>6. CASE s # 0
    <3>1. PICK f : f = [enc EXCEPT ![s] = SourceAfter(op, enc[s])]
      OBVIOUS
    <3>2. f = [k \in 1 .. n |-> IF k = s THEN SourceAfter(op, enc[s]) ELSE enc[k]]
      BY <2>4, <3>1
    <3>3. base = f
      BY <2>6, <3>1
    <3>4. \A k \in 1 .. n : f[k] = EncOp(e, k, n + 1)
      BY <2>2, <2>3, <2>6, <3>2
    <3> HIDE DEF base
    <3> QED BY <3>2, <3>3, <3>4
  <2> QED BY <2>5, <2>6
<1> HIDE DEF base, next
<1>8. Append(base, Operator(op, s)) = next
  <2>1. PICK x : x = Operator(op, s)
    OBVIOUS
  <2>2. PICK b : b = base
    OBVIOUS
  <2>3. Sequential(b) /\ Len(b) = n /\ \A k \in 1 .. n : b[k] = EncOp(e, k, n + 1)
    BY <1>1, <1>7, <2>2 DEF Sequential
  <2>4. Sequential(next) /\ Len(next) = n + 1 /\ \A k \in 1 .. n + 1 : next[k] = EncOp(e, k, n + 1)
    BY <1>1 DEF Sequential, next
  <2>5. /\ Len(next) = Len(b) + 1 /\ next[Len(b) + 1] = x
        /\ \A k \in 1 .. Len(b) : next[k] = b[k]
    BY <1>1, <1>3, <2>1, <2>3, <2>4
  <2>6. Append(b, x) = next
    BY <2>3, <2>4, <2>5, AppendIs
  <2> QED BY <2>1, <2>2, <2>6
<1> QED BY <1>8 DEF base, next, BuiltAs

\* How the next operator leaves the operands and the cursor of the operators.
LEMMA OperandsRight ==
  ASSUME NEW n, NEW e, Building(n, e), NEW op, op = EncChains[e][n + 1],
         NEW s, s = SourceAt(e, n), tokens[col] = TokensOf(schema[col], CountAt(e, n))
  PROVE  /\ OperandsAfter(op, s).tokens = TokensOf(schema[col], CountAt(e, n + 1))
         /\ OperandsAfter(op, s).cur = IF e \in Literal THEN 0 ELSE CountAt(e, n + 1)
         /\ CursorRight(e, n + 1, CursorAfter(op))
<1>1. /\ e \in Expressions \ {"fsst"} /\ n \in Nat /\ n + 1 \in 1 .. Len(EncChains[e])
      /\ enc = [k \in 1 .. n |-> EncOp(e, k, n)] /\ Len(enc) = n
      /\ CursorRight(e, n, state.cur_operator)
      /\ state.cur_operand = IF e \in Literal THEN 0 ELSE CountAt(e, n)
      /\ schema[col] \in Choice
  BY BuildingFacts
<1>2. EncodersShaped(e) /\ EncodersCounted(e) /\ (n + 1) - 1 = n /\ (n + 1 = 2 <=> n = 1)
  BY <1>1, RowOf
<1>3. /\ op \in DOMAIN OwnTokens /\ CountAt(e, n + 1) \in Nat
      /\ CountAt(e, n + 1) = IF n = 1 /\ e \in FsstDeltas THEN CountAt(e, 1) - 1
                             ELSE CountAt(e, n) + OwnTokens[op]
      /\ op \in Literal => Len(EncChains[e]) = 1 /\ e \in Literal
  BY <1>1, <1>2 DEF EncodersCounted
<1>4. CountAt(e, n) \in Nat
  <2>1. CASE n = 0
    BY <2>1 DEF CountAt
  <2>2. CASE n # 0
    <3>1. n \in 1 .. Len(EncChains[e])
      BY <1>1, <2>2
    <3> QED BY <1>2, <3>1 DEF EncodersCounted
  <2> QED BY <2>1, <2>2
<1>5. e \in Literal => n = 0 /\ op \in Literal
  BY <1>1 DEF Literal, EncChains
<1>6. /\ n = 0 <=> op \notin FollowsCursor \cup FollowsBack \cup {"dict_map"}
      /\ op \in {"transpose", "data_parallel_patch", "dict_map"} => n = 1
      /\ op = "transpose" => (EncChains[e][1] = "fsst" <=> e \in FsstDeltas)
      /\ op = "rsum" => n = 2 /\ EncChains[e][2] = "transpose"
      /\ op = "dict_map" => EncChains[e][1] \in {"dict", "dict_str", "fsst_dict"}
      /\ op = "transpose" => EncChains[e][1] \in {"scan", "rle_map", "rle_map_str", "fsst"}
      /\ op = "data_parallel_patch" => EncChains[e][1] = "alp"
      /\ n = 1 /\ e \in FsstDeltas => op = "transpose"
  <2> DEFINE prev == EncChains[e][n]
  <2>1. /\ n = 0 <=> op \notin FollowsCursor \cup FollowsBack \cup {"dict_map"}
        /\ op \in {"transpose", "data_parallel_patch", "dict_map"} => n = 1
        /\ (op = "transpose" /\ prev = "fsst") <=> (n = 1 /\ e \in FsstDeltas)
        /\ op = "rsum" => n = 2 /\ prev = "transpose"
        /\ op = "dict_map" => prev \in {"dict", "dict_str", "fsst_dict"}
        /\ op = "transpose" => prev \in {"scan", "rle_map", "rle_map_str", "fsst"}
        /\ op = "data_parallel_patch" => prev = "alp"
    BY <1>1, <1>2 DEF EncodersShaped
  <2> QED BY <2>1, Zenon
<1> DEFINE own == OwnOf(op, Operator(op, s))
<1>7. own = OwnTokens[op] /\ own \in Nat
  <2>1. Operator(op, s).op = op /\ Operator(op, s).data_parallelize = FALSE
    BY DEF Operator
  <2>2. \A x \in DOMAIN OwnTokens : OwnTokens[x] \in Nat
    BY DEF OwnTokens
  <2> QED BY <1>3, <2>1, <2>2, OwnTokensAre
<1> HIDE DEF own
<1>8. OperandsAfter(op, s) =
        IF op = "transpose" /\ enc[s].op = "fsst"
          THEN [tokens |-> Front(tokens[col]), cur |-> state.cur_operand - 1]
          ELSE [tokens |-> tokens[col] \o Counted(own),
                cur    |-> state.cur_operand + IF op \in Literal THEN 0 ELSE own]
  BY DEF OperandsAfter, own, OwnOf
<1>9. op = "transpose" => s = 1 /\ enc[s].op = EncChains[e][1]
  <2> SUFFICES ASSUME op = "transpose" PROVE s = 1 /\ enc[s].op = EncChains[e][1]
    OBVIOUS
  <2>1. n = 1
    BY <1>6
  <2>2. s = 1
    BY <2>1, Zenon DEF SourceAt
  <2>3. enc[1] = EncOp(e, 1, n)
    BY <1>1, <2>1
  <2> QED BY <2>2, <2>3 DEF EncOp
<1>10. /\ OperandsAfter(op, s).tokens = TokensOf(schema[col], CountAt(e, n + 1))
       /\ OperandsAfter(op, s).cur = IF e \in Literal THEN 0 ELSE CountAt(e, n + 1)
  <2>1. CASE op = "transpose" /\ enc[s].op = "fsst"
    <3>1. n = 1 /\ e \in FsstDeltas /\ CountAt(e, n) \in Nat \ {0}
          /\ CountAt(e, n + 1) = CountAt(e, n) - 1 /\ e \notin Literal
      BY <1>3, <1>4, <1>5, <1>6, <1>9, <2>1
    <3>2. Front(tokens[col]) = TokensOf(schema[col], CountAt(e, n + 1))
      BY <1>1, <3>1, TokensShorter
    <3> QED BY <1>1, <1>8, <2>1, <3>1, <3>2
  <2>2. CASE ~ (op = "transpose" /\ enc[s].op = "fsst")
    <3>1. CountAt(e, n + 1) = CountAt(e, n) + own
      BY <1>3, <1>6, <1>7, <1>9, <2>2
    <3>2. state.cur_operand = CountAt(e, n)
      BY <1>1, <1>5 DEF CountAt
    <3>3. tokens[col] \o Counted(own) = TokensOf(schema[col], CountAt(e, n + 1))
      <4>1. Counted(own) = [k \in 1 .. own |-> CountAt(e, n) + k - 1]
        BY <3>2 DEF Counted
      <4>2. PICK m : m = CountAt(e, n)
        OBVIOUS
      <4>3. TokensOf(schema[col], m) \o [k \in 1 .. own |-> m + k - 1] = TokensOf(schema[col], m + own)
        <5>1. m \in Nat /\ own \in Nat /\ schema[col] \in Choice
          BY <1>1, <1>4, <1>7, <4>2
        <5> QED BY <5>1, TokensLonger, Zenon
      <4>4. Counted(own) = [k \in 1 .. own |-> m + k - 1]
        BY <4>1, <4>2
      <4> QED BY <3>1, <4>2, <4>3, <4>4
    <3>4. state.cur_operand + (IF op \in Literal THEN 0 ELSE own)
            = IF e \in Literal THEN 0 ELSE CountAt(e, n + 1)
      BY <1>1, <1>3, <1>4, <1>5, <1>7, <3>1, <3>2
    <3> QED BY <1>8, <2>2, <3>3, <3>4
  <2> QED BY <2>1, <2>2
<1>11. CursorRight(e, n + 1, CursorAfter(op))
  <2>1. /\ state.cur_operator \in 0 .. 2
        /\ n = 0 => state.cur_operator = 0
        /\ n # 0 => /\ EncChains[e][n] \in {"scan", "rle_map", "rle_map_str", "fsst", "alp"} =>
                         state.cur_operator = 0
                    /\ EncChains[e][n] = "transpose" => state.cur_operator = 1
    BY <1>1 DEF CursorRight
  <2>2. /\ CursorAfter(op) \in 0 .. 2
        /\ n = 0 /\ op \in {"scan", "rle_map", "rle_map_str", "fsst", "alp"} => CursorAfter(op) = 0
        /\ op = "transpose" => CursorAfter(op) = 1
    <3>1. CASE op \in {"dict", "dict_str", "fsst_dict"}
      <4>1. n = 0 /\ state.cur_operator = 0
        BY <1>6, <2>1, <3>1 DEF FollowsCursor, FollowsBack
      <4> QED BY <3>1, <4>1 DEF CursorAfter
    <3>2. CASE op \in {"transpose", "data_parallel_patch"}
      <4>1. n = 1 /\ n # 0 /\ state.cur_operator = 0
        BY <1>6, <2>1, <3>2
      <4> QED BY <3>2, <4>1 DEF CursorAfter, FollowsCursor
    <3>3. CASE op = "rsum"
      <4>1. n = 2 /\ n # 0 /\ state.cur_operator = 1
        BY <1>6, <2>1, <3>3
      <4> QED BY <3>3, <4>1 DEF CursorAfter, FollowsCursor
    <3>4. CASE op \notin {"dict", "dict_str", "fsst_dict", "transpose", "data_parallel_patch", "rsum"}
      BY <2>1, <3>4 DEF CursorAfter, FollowsCursor
    <3> QED BY <3>1, <3>2, <3>3, <3>4
  <2>3. op \in {"scan", "rle_map", "rle_map_str", "fsst", "alp"} => n = 0
    BY <1>6 DEF FollowsCursor, FollowsBack
  <2> QED BY <1>1, <2>2, <2>3 DEF CursorRight
<1> QED BY <1>10, <1>11
\* What is unchanged when an operator is built or a vector is encoded.
LEMMA EncodeStep == IInv /\ ConstructEncoder => IInv'
<1> SUFFICES ASSUME IInv, ConstructEncoder PROVE IInv'
  OBVIOUS
<1> DEFINE n  == Len(enc)
           e  == schema[col].expr
           op == EncChains[e][n + 1]
           s  == SourceAt(e, n)
<1>1. /\ schema \in Schemas /\ phase = "encode" /\ col \in 1 .. Len(schema)
      /\ EncoderRight(schema, col, enc, state, vec_idx, segs) /\ vec_idx = 0
      /\ n < Len(EncChains[e]) /\ TokensRight(schema, phase, col, n, tokens)
  BY Zenon DEF IInv, ConstructEncoder, EncChain
<1>2. Building(n, e)
  BY <1>1 DEF Building
<1>3. /\ e \in Expressions \ {"fsst"} /\ n \in Nat /\ n + 1 \in 1 .. Len(EncChains[e])
      /\ HasEncoder(schema[col]) /\ schema[col] \in Choice
  BY <1>2, BuildingFacts
<1>4. /\ tokens = [c \in 1 .. Len(schema) |-> tokens[c]]
      /\ \A c \in 1 .. Len(schema) : tokens[c] = TokensOf(schema[c], TokenCount(schema, phase, col, n, c))
  BY <1>1 DEF TokensRight
<1>5. tokens[col] = TokensOf(schema[col], CountAt(e, n))
  <2>1. Len(schema) \in Nat /\ ~ (col < col)
    BY <1>1, SchemaFacts
  <2>2. TokenCount(schema, phase, col, n, col) = CountAt(e, n)
    BY <1>1, <2>1 DEF TokenCount, ExprAt
  <2> QED BY <1>1, <1>4, <2>2
<1>6. SourceOf(op) = s /\ (s # 0 => enc[s].op \in EncAccepts[op])
  BY <1>2, SourceRight
<1>7. /\ enc' = Append(IF s = 0 THEN enc ELSE [enc EXCEPT ![s] = SourceAfter(op, @)], Operator(op, s))
      /\ tokens' = [tokens EXCEPT ![col] = OperandsAfter(op, s).tokens]
      /\ state' = [cur_operator |-> CursorAfter(op), cur_operand |-> OperandsAfter(op, s).cur]
      /\ UNCHANGED <<schema, phase, col, segs, vec_idx, file, decVars, readVars>>
  <2>1. op = EncChain[Len(enc) + 1]
    BY DEF EncChain
  <2> HIDE DEF n, e, op, s
  <2> QED BY <1>3, <1>6, <2>1, Zenon DEF ConstructEncoder
<1>8. enc' = [k \in 1 .. n + 1 |-> EncOp(e, k, n + 1)]
  <2>1. op = EncChains[e][n + 1] /\ s = SourceAt(e, n)
    OBVIOUS
  <2>2. PICK f : f = enc'
    OBVIOUS
  <2> HIDE DEF n, e, op, s
  <2>3. BuiltAs(n, e, op, s)
    BY <1>2, <2>1, BuiltRight
  <2> QED BY <1>7, <2>2, <2>3, Zenon DEF BuiltAs
<1>9. /\ OperandsAfter(op, s).tokens = TokensOf(schema[col], CountAt(e, n + 1))
      /\ OperandsAfter(op, s).cur = IF e \in Literal THEN 0 ELSE CountAt(e, n + 1)
      /\ CursorRight(e, n + 1, CursorAfter(op))
  <2> HIDE DEF n, e
  <2> QED BY <1>2, <1>5, OperandsRight
<1> HIDE DEF n, e, op, s
<1>10. Len(enc') = n + 1
  <2>1. PICK f : f = enc'
    OBVIOUS
  <2>2. f = [k \in 1 .. n + 1 |-> EncOp(e, k, n + 1)]
    BY <1>8, <2>1
  <2> QED BY <1>3, <2>1, <2>2
<1>11. EncoderRight(schema, col, enc', state', vec_idx, segs)
  <2>1. e = ExprAt(schema, col)
    BY DEF e, ExprAt
  <2>2. Len(enc') \in 0 .. Len(EncChains[e]) /\ enc' = [k \in 1 .. Len(enc') |-> EncOp(e, k, Len(enc'))]
    BY <1>3, <1>8, <1>10
  <2>3. CursorRight(e, Len(enc'), state'.cur_operator)
    BY <1>7, <1>9, <1>10
  <2>4. state' = [cur_operator |-> state'.cur_operator,
                  cur_operand  |-> IF e \in Literal THEN 0 ELSE CountAt(e, Len(enc'))]
    BY <1>7, <1>9, <1>10
  <2>5. /\ vec_idx \in 0 .. NumVectors /\ (vec_idx # 0 => Len(enc') = Len(EncChains[e]))
        /\ SegsRight(schema, col, vec_idx, segs)
    BY <1>1 DEF EncoderRight
  <2> QED BY <2>1, <2>2, <2>3, <2>4, <2>5, Zenon DEF EncoderRight
<1>12. TokensRight(schema, phase, col, Len(enc'), tokens')
  <2>1. \A c \in 1 .. Len(schema) :
          tokens'[c] = IF c = col THEN TokensOf(schema[col], CountAt(e, n + 1)) ELSE tokens[c]
    BY <1>4, <1>7, <1>9
  <2>2. tokens' = [c \in 1 .. Len(schema) |-> tokens'[c]]
    BY <1>4, <1>7
  <2>3. ASSUME NEW c \in 1 .. Len(schema)
        PROVE  tokens'[c] = TokensOf(schema[c], TokenCount(schema, phase, col, n + 1, c))
    <3>1. CASE c = col
      <4>1. ~ (col < col)
        BY <1>1, <3>1, SchemaFacts
      <4>2. TokenCount(schema, phase, col, n + 1, col) = CountAt(e, n + 1)
        BY <1>1, <4>1 DEF TokenCount, ExprAt, e
      <4> QED BY <2>1, <3>1, <4>2
    <3>2. CASE c # col
      <4>1. TokenCount(schema, phase, col, n + 1, c) = TokenCount(schema, phase, col, n, c)
        BY <3>2 DEF TokenCount
      <4> QED BY <1>4, <2>1, <3>2, <4>1
    <3> QED BY <3>1, <3>2
  <2> QED BY <1>10, <2>2, <2>3 DEF TokensRight
<1>13. /\ FileRight(schema, phase, col, file)
       /\ ExpressionsRight(schema, phase, col, ops, dec, n_active)
       /\ bufs \in BuffersOf(schema, dec)
       /\ chunk \in 0 .. NumVectors /\ next_vec \in 0 .. NumVectors
       /\ phase # "read" => chunk = 0 /\ next_vec = 0
       /\ chunk # 0 => Fetched(schema, bufs, Len(schema), chunk)
       /\ OutRight(schema, next_vec, out)
  BY DEF IInv
<1>14. /\ schema' = schema /\ phase' = phase /\ col' = col /\ segs' = segs /\ vec_idx' = vec_idx
       /\ file' = file /\ dec' = dec /\ ops' = ops /\ n_active' = n_active /\ bufs' = bufs
       /\ chunk' = chunk /\ next_vec' = next_vec /\ out' = out
  BY <1>7 DEF decVars, readVars
<1> QED BY <1>1, <1>11, <1>12, <1>13, <1>14, Zenon DEF IInv

-----------------------------------------------------------------------------
(* The segments of a column *)

\* The persistent segments of an operator, each with the operator.
PieceOf(e, k, n) ==
  [i \in 1 .. Len(KeptOf(e, EncChains[e][k])) |->
     [opr |-> EncOp(e, k, n), role |-> KeptOf(e, EncChains[e][k])[i]]]

PiecesOf(e, n) == [k \in 1 .. n |-> PieceOf(e, k, n)]

\* t has a place for each role of the expression, each from one of the operators.
MadeOf(e, n, t) ==
  /\ Sequential(t) /\ Len(t) = Len(Roles[e])
  /\ \A i \in 1 .. Len(Roles[e]) :
       \E k \in 1 .. n : \E j \in 1 .. Len(KeptOf(e, EncChains[e][k])) :
         i = EndOf(e, k - 1) + j /\ t[i] = PieceOf(e, k, n)[j]

LEMMA PiecesJoin ==
  ASSUME NEW e \in Expressions \ {"fsst"}, NEW n, n = Len(EncChains[e])
  PROVE  MadeOf(e, n, Joined(PiecesOf(e, n)))
<1> DEFINE ss == PiecesOf(e, n)
           A  == {ss[k][i] : k \in 1 .. n, i \in Nat}
<1>1. n \in Nat /\ SegmentsCounted(e) /\ EncodersCounted(e)
  BY RowOf DEF EncodersCounted
<1>2. \A k \in 1 .. n : EncChains[e][k] \in DOMAIN OwnTokens
  BY <1>1 DEF EncodersCounted
<1>3. ASSUME NEW k \in 1 .. n
      PROVE  /\ Len(KeptOf(e, EncChains[e][k])) \in Nat /\ ss[k] = PieceOf(e, k, n)
             /\ PieceOf(e, k, n) \in Seq(A)
             /\ Len(PieceOf(e, k, n)) = Len(KeptOf(e, EncChains[e][k]))
  <2>1. Len(KeptOf(e, EncChains[e][k])) \in Nat
    BY <1>2, KeptSequential DEF Sequential
  <2>2. ss[k] = PieceOf(e, k, n)
    BY DEF PiecesOf
  <2> DEFINE m == Len(KeptOf(e, EncChains[e][k]))
             p == PieceOf(e, k, n)
  <2>3. p = [i \in 1 .. m |-> p[i]]
    BY DEF PieceOf
  <2>4. \A i \in 1 .. m : p[i] \in A
    <3> HIDE DEF ss, m, p
    <3>1. \A i \in 1 .. m : i \in Nat
      BY <2>1 DEF m
    <3>2. p = ss[k]
      BY <2>2 DEF p
    <3> QED BY <3>1, <3>2
  <2> HIDE DEF A, m, p
  <2>5. p \in [1 .. m -> A] /\ m \in Nat
    BY <2>1, <2>3, <2>4 DEF m
  <2>6. p \in Seq(A) /\ Len(p) = m
    BY <2>5, FunctionsAreSequences
  <2> QED BY <2>1, <2>2, <2>6 DEF m, p
<1> HIDE DEF A
<1>4. ss \in Seq(Seq(A)) /\ Len(ss) = n
  <2>1. ss \in [1 .. n -> Seq(A)]
    BY <1>3 DEF PiecesOf
  <2> HIDE DEF ss
  <2> QED BY <1>1, <2>1, FunctionsAreSequences
<1> DEFINE lens == LengthsOf(ss)
           ends == Sums(lens)
           t    == Joined(ss)
<1>5. /\ t \in Seq(A) /\ Len(t) = ends[n]
      /\ \A l \in 1 .. n : \A k \in 1 .. Len(ss[l]) : t[ends[l - 1] + k] = ss[l][k]
      /\ \A i \in 1 .. Len(t) : \E l \in 1 .. n : i \in ends[l - 1] + 1 .. ends[l]
  <2> HIDE DEF ss
  <2>1. ss \in Seq(Seq(A)) /\ Len(ss) = n
    BY <1>4
  <2>2. Joined(ss) \in Seq(A) /\ Tiled(ss, Len(ss), Joined(ss))
    BY <2>1, JoinedFacts
  <2>3. Tiled(ss, n, t)
    BY <2>1, <2>2
  <2> QED BY <2>2, <2>3 DEF Tiled
<1>6. lens \in Seq(Int) /\ Len(lens) = n
      /\ \A k \in 1 .. n : lens[k] = Len(KeptOf(e, EncChains[e][k]))
  <2>1. lens = [k \in 1 .. n |-> Len(ss[k])]
    BY <1>4 DEF LengthsOf
  <2>2. \A k \in 1 .. n : Len(ss[k]) = Len(KeptOf(e, EncChains[e][k])) /\ Len(ss[k]) \in Int
    BY <1>3
  <2> HIDE DEF lens, ss
  <2>3. lens \in [1 .. n -> Int]
    BY <2>1, <2>2
  <2> QED BY <1>1, <2>1, <2>2, <2>3, FunctionsAreSequences
<1>7. ends[0] = 0 /\ \A k \in 1 .. n : ends[k] = ends[k - 1] + Len(KeptOf(e, EncChains[e][k]))
  <2> HIDE DEF lens
  <2>1. SumsBy(lens, ends)
    BY <1>6, SumsSteps
  <2> QED BY <1>6, <2>1 DEF SumsBy
<1> HIDE DEF ss, lens, ends, t
<1>8. \A k \in 0 .. n : ends[k] = EndOf(e, k) /\ EndOf(e, k) \in Nat
  <2> DEFINE S == {k \in Nat : k <= n => ends[k] = EndOf(e, k) /\ EndOf(e, k) \in Nat}
  <2>1. 0 \in S
    BY <1>7 DEF EndOf
  <2>2. ASSUME NEW k \in Nat, k \in S PROVE k + 1 \in S
    <3> SUFFICES ASSUME k + 1 <= n PROVE ends[k + 1] = EndOf(e, k + 1) /\ EndOf(e, k + 1) \in Nat
      OBVIOUS
    <3>1. k + 1 \in 1 .. n /\ (k + 1) - 1 = k /\ ends[k] = EndOf(e, k)
      BY <1>1, <2>2
    <3>2. EndOf(e, k + 1) \in Nat
          /\ EndOf(e, k + 1) = EndOf(e, k) + Len(KeptOf(e, EncChains[e][k + 1]))
      BY <1>1, <3>1 DEF SegmentsCounted
    <3>3. ends[k + 1] = ends[k] + Len(KeptOf(e, EncChains[e][k + 1]))
      BY <1>7, <3>1
    <3> QED BY <3>1, <3>2, <3>3
  <2>3. Nat \subseteq S
    <3> HIDE DEF S
    <3> QED BY <2>1, <2>2, Successors
  <2> QED BY <1>1, <2>3
<1>9. Len(t) = Len(Roles[e])
  BY <1>1, <1>5, <1>8 DEF SegmentsCounted
<1>10. ASSUME NEW i \in 1 .. Len(Roles[e])
       PROVE  \E k \in 1 .. n : \E j \in 1 .. Len(KeptOf(e, EncChains[e][k])) :
                i = EndOf(e, k - 1) + j /\ t[i] = PieceOf(e, k, n)[j]
  <2>1. PICK k \in 1 .. n : i \in ends[k - 1] + 1 .. ends[k]
    BY <1>5, <1>9
  <2>2. k - 1 \in 0 .. n /\ k \in 0 .. n
    BY <1>1
  <2>3. /\ ends[k - 1] = EndOf(e, k - 1) /\ ends[k - 1] \in Nat
        /\ ends[k] = ends[k - 1] + Len(KeptOf(e, EncChains[e][k]))
    BY <1>7, <1>8, <2>2
  <2>4. PICK j : j = i - EndOf(e, k - 1)
    OBVIOUS
  <2>5. j \in 1 .. Len(KeptOf(e, EncChains[e][k])) /\ i = EndOf(e, k - 1) + j
    BY <1>3, <2>1, <2>3, <2>4
  <2>6. t[i] = ss[k][j]
    BY <1>3, <1>5, <2>3, <2>5
  <2> QED BY <1>3, <2>5, <2>6
<1>11. Sequential(t)
  BY <1>5 DEF Sequential
<1> QED BY <1>9, <1>10, <1>11 DEF t, ss, MadeOf
\* What the persistent segments of a complete chain are: the roles of the
\* expression in order, each with an operator that has read what its role says.
PersistentRight(e, p) ==
  /\ Sequential(p) /\ Len(p) = Len(Roles[e])
  /\ \A i \in 1 .. Len(Roles[e]) :
       p[i].role = Roles[e][i] /\ p[i].opr.reads = ReadsAt(e, Roles[e][i])

LEMMA PersistentIs ==
  ASSUME NEW e \in Expressions \ {"fsst"}, NEW n, n = Len(EncChains[e]),
         enc = [k \in 1 .. n |-> EncOp(e, k, n)]
  PROVE  PersistentRight(e, Persistent)
<1>1. n \in Nat /\ SegmentsLaid(e) /\ EncodersCounted(e) /\ EncodersShaped(e)
  BY RowOf DEF EncodersCounted
<1> DEFINE kept(k) == Kept(SegmentsOf(enc[k]), ToSet(SegmentsOf(enc[k])) \ enc[k].temporary)
           piece(k) == [i \in DOMAIN kept(k) |-> [opr |-> enc[k], role |-> kept(k)[i]]]
<1>2. ASSUME NEW k \in 1 .. n PROVE piece(k) = PieceOf(e, k, n)
  <2>1. enc[k] = EncOp(e, k, n)
    OBVIOUS
  <2>2. kept(k) = KeptOf(e, EncChains[e][k])
    BY <2>1, KeptIs
  <2>3. EncChains[e][k] \in DOMAIN OwnTokens
    BY <1>1 DEF EncodersCounted
  <2>4. PICK s, o : s = KeptOf(e, EncChains[e][k]) /\ o = EncOp(e, k, n)
    OBVIOUS
  <2>5. DOMAIN s = 1 .. Len(s)
    <3>1. Sequential(s)
      BY <2>3, <2>4, KeptSequential
    <3> QED BY <3>1 DEF Sequential
  <2>6. piece(k) = [i \in 1 .. Len(s) |-> [opr |-> o, role |-> s[i]]]
    BY <2>1, <2>2, <2>4, <2>5
  <2> QED BY <2>4, <2>6 DEF PieceOf
<1>3. Persistent = Joined(PiecesOf(e, n))
  <2>1. DOMAIN enc = 1 .. n
    OBVIOUS
  <2>2. [k \in DOMAIN enc |-> piece(k)] = PiecesOf(e, n)
    <3> HIDE DEF piece
    <3> QED BY <1>2, <2>1 DEF PiecesOf
  <2> QED BY <2>2 DEF Persistent
<1>4. MadeOf(e, n, Persistent)
  BY <1>3, PiecesJoin
<1>5. ASSUME NEW i \in 1 .. Len(Roles[e])
      PROVE  Persistent[i].role = Roles[e][i] /\ Persistent[i].opr.reads = ReadsAt(e, Roles[e][i])
  <2>1. PICK k \in 1 .. n : \E j \in 1 .. Len(KeptOf(e, EncChains[e][k])) :
          i = EndOf(e, k - 1) + j /\ Persistent[i] = PieceOf(e, k, n)[j]
    BY <1>4 DEF MadeOf
  <2>2. PICK j \in 1 .. Len(KeptOf(e, EncChains[e][k])) :
          i = EndOf(e, k - 1) + j /\ Persistent[i] = PieceOf(e, k, n)[j]
    BY <2>1
  <2>3. Roles[e][i] = KeptOf(e, EncChains[e][k])[j]
    BY <1>1, <2>2 DEF SegmentsLaid
  <2>4. Persistent[i] = [opr |-> EncOp(e, k, n), role |-> KeptOf(e, EncChains[e][k])[j]]
    BY <2>2 DEF PieceOf
  <2>5. ReadsAgree(e, EncChains[e][k])
    <3>1. EncChains[e][k] \in DOMAIN OwnTokens
      BY <1>1 DEF EncodersCounted
    <3>2. /\ EncChains[e][k] \in {"frequency", "frequency_str"} => e \notin Patchable
          /\ EncChains[e][k] = "slpatch" => e \in Patchable
      BY <1>1 DEF EncodersShaped
    <3> QED BY <3>1, <3>2, ReadsRight
  <2>6. EncOp(e, k, n).reads = ReadsOf(e, EncChains[e][k])
    BY DEF EncOp
  <2> QED BY <2>2, <2>3, <2>4, <2>5, <2>6 DEF ReadsAgree
<1> QED BY <1>4, <1>5 DEF PersistentRight, MadeOf
\* A vector through a complete chain.
LEMMA ExecuteStep == IInv /\ ExecuteVector => IInv'
<1> SUFFICES ASSUME IInv, ExecuteVector PROVE IInv'
  OBVIOUS
<1> DEFINE e == schema[col].expr
           N == Len(EncChains[e])
           R == Roles[e]
           n == vec_idx
<1>1. /\ schema \in Schemas /\ phase = "encode" /\ col \in 1 .. Len(schema)
      /\ EncoderRight(schema, col, enc, state, n, segs) /\ Len(enc) = N /\ n < NumVectors
      /\ vec_idx' = n + 1
      /\ UNCHANGED <<schema, phase, col, state, enc, file, tokens, decVars, readVars>>
  BY Zenon DEF IInv, ExecuteVector, EncChain, VectorsLeft
<1>2. e \in Expressions \ {"fsst"}
  BY <1>1, SchemaFacts
<1>3. N \in Nat /\ Len(R) \in Nat
  BY <1>2, RowOf DEF EncodersCounted, SegmentsCounted
<1>4. /\ enc = [k \in 1 .. N |-> EncOp(e, k, N)]
      /\ n \in 0 .. NumVectors /\ SegsRight(schema, col, n, segs)
      /\ CursorRight(e, Len(enc), state.cur_operator)
      /\ state = [cur_operator |-> state.cur_operator,
                  cur_operand  |-> IF e \in Literal THEN 0 ELSE CountAt(e, Len(enc))]
  BY <1>1, Zenon DEF EncoderRight, ExprAt
<1> HIDE DEF e, N, R, n
<1>5. PersistentRight(e, Persistent)
  BY <1>2, <1>4, PersistentIs DEF N
<1> DEFINE p == Persistent
           Longer(i) == LET so_far == IF i \in DOMAIN segs THEN segs[i] ELSE <<>>
                        IN  IF p[i].role \in BlockBased THEN so_far
                            ELSE Append(so_far, Entry(p[i].opr, p[i].role, n + 1))
<1>6. segs' = [i \in DOMAIN p |-> Longer(i)]
  BY Zenon DEF ExecuteVector, n
<1> HIDE DEF p
<1>7. DOMAIN p = 1 .. Len(R) /\ \A i \in 1 .. Len(R) : p[i].role = R[i] /\ p[i].opr.reads = ReadsAt(e, R[i])
  BY <1>5 DEF PersistentRight, Sequential, p, R
<1>8. segs' = [i \in 1 .. Len(R) |-> segs'[i]]
  BY <1>6, <1>7
<1>9. ASSUME NEW i \in 1 .. Len(R), R[i] \notin BlockBased
      PROVE  segs'[i] = [v \in 1 .. n + 1 |-> EntryOf(schema, col, i, v)]
  <2>1. Entry(p[i].opr, p[i].role, n + 1) = EntryOf(schema, col, i, n + 1)
    BY <1>7 DEF Entry, EntryOf, ExprAt, e, R
  <2> DEFINE so_far == IF i \in DOMAIN segs THEN segs[i] ELSE <<>>
  <2>2. segs'[i] = Append(so_far, EntryOf(schema, col, i, n + 1))
    BY <1>6, <1>7, <1>9, <2>1
  <2>3. so_far = [v \in 1 .. n |-> EntryOf(schema, col, i, v)]
    <3>1. CASE n = 0
      <4>1. segs = <<>>
        BY <1>4, <3>1 DEF SegsRight
      <4>2. so_far = <<>>
        BY <4>1
      <4> HIDE DEF so_far
      <4> QED BY <3>1, <4>2
    <3>2. CASE n # 0
      BY <1>4, <1>9, <3>2 DEF SegsRight, ExprAt, e, R
    <3> QED BY <3>1, <3>2
  <2> HIDE DEF so_far
  <2>4. PICK s, x : s = so_far /\ x = EntryOf(schema, col, i, n + 1)
    OBVIOUS
  <2> DEFINE t == [v \in 1 .. n + 1 |-> EntryOf(schema, col, i, v)]
  <2>5. n \in Nat
    BY <1>4
  <2>6. Sequential(s) /\ Len(s) = n /\ \A v \in 1 .. n : s[v] = EntryOf(schema, col, i, v)
    BY <2>3, <2>4, <2>5 DEF Sequential
  <2>7. /\ Sequential(t) /\ Len(t) = n + 1 /\ t[n + 1] = x
        /\ \A v \in 1 .. n + 1 : t[v] = EntryOf(schema, col, i, v)
    BY <2>4, <2>5 DEF Sequential
  <2> HIDE DEF t
  <2>8. Append(s, x) = t
    BY <2>5, <2>6, <2>7, AppendIs
  <2> QED BY <2>2, <2>4, <2>8 DEF t
<1>10. SegsRight(schema, col, n + 1, segs')
  <2>1. n + 1 # 0
    BY <1>4
  <2> QED BY <1>8, <1>9, <2>1 DEF SegsRight, ExprAt, e, R
<1>11. EncoderRight(schema, col, enc, state, n + 1, segs')
  <2>1. e = ExprAt(schema, col)
    BY DEF e, ExprAt
  <2>2. Len(enc) \in 0 .. Len(EncChains[e]) /\ Len(enc) = Len(EncChains[e])
        /\ enc = [k \in 1 .. Len(enc) |-> EncOp(e, k, Len(enc))]
    BY <1>1, <1>3, <1>4 DEF N
  <2>3. n + 1 \in 0 .. NumVectors
    BY <1>1, <1>4, NumVectorsAssumption
  <2> QED BY <1>4, <1>10, <2>1, <2>2, <2>3, Zenon DEF EncoderRight
<1>12. /\ TokensRight(schema, phase, col, Len(enc), tokens)
       /\ FileRight(schema, phase, col, file)
       /\ ExpressionsRight(schema, phase, col, ops, dec, n_active)
       /\ bufs \in BuffersOf(schema, dec)
       /\ chunk \in 0 .. NumVectors /\ next_vec \in 0 .. NumVectors
       /\ phase # "read" => chunk = 0 /\ next_vec = 0
       /\ chunk # 0 => Fetched(schema, bufs, Len(schema), chunk)
       /\ OutRight(schema, next_vec, out)
  BY DEF IInv
<1>13. /\ schema' = schema /\ phase' = phase /\ col' = col /\ state' = state /\ enc' = enc
       /\ tokens' = tokens /\ file' = file /\ dec' = dec /\ ops' = ops /\ n_active' = n_active
       /\ bufs' = bufs /\ chunk' = chunk /\ next_vec' = next_vec /\ out' = out
  BY <1>1 DEF decVars, readVars
<1> QED BY <1>1, <1>11, <1>12, <1>13, Zenon DEF IInv

\* The flush of a column, and the next one.
LEMMA FlushStep == IInv /\ FinalizeAndFlush => IInv'
<1> SUFFICES ASSUME IInv, FinalizeAndFlush PROVE IInv'
  OBVIOUS
<1> DEFINE e == schema[col].expr
           N == Len(EncChains[e])
           R == Roles[e]
<1>1. /\ schema \in Schemas /\ phase = "encode" /\ col \in 1 .. Len(schema)
      /\ EncoderRight(schema, col, enc, state, vec_idx, segs) /\ vec_idx = NumVectors
      /\ enc' = <<>> /\ segs' = <<>> /\ vec_idx' = 0 /\ state' = Fresh
      /\ IF col < Len(schema)
           THEN col' = col + 1 /\ phase' = "encode"
           ELSE col' = 1 /\ phase' = "decode"
      /\ UNCHANGED <<schema, tokens, decVars, readVars>>
  BY Zenon DEF IInv, FinalizeAndFlush
<1>2. e \in Expressions \ {"fsst"} /\ Len(schema) \in Nat
  BY <1>1, SchemaFacts
<1>3. N \in Nat /\ Len(R) \in Nat
  BY <1>2, RowOf DEF EncodersCounted, SegmentsCounted
<1>4. NumVectors \in Nat \ {0}
  BY NumVectorsAssumption
<1>5. Len(enc) = N /\ enc = [k \in 1 .. N |-> EncOp(e, k, N)] /\ SegsRight(schema, col, NumVectors, segs)
  BY <1>1, <1>4, Zenon DEF EncoderRight, ExprAt
<1>6. /\ TokensRight(schema, phase, col, N, tokens)
      /\ FileRight(schema, phase, col, file)
      /\ ExpressionsRight(schema, phase, col, ops, dec, n_active)
      /\ bufs \in BuffersOf(schema, dec)
      /\ chunk = 0 /\ next_vec = 0
      /\ OutRight(schema, next_vec, out)
  BY <1>1, <1>5 DEF IInv
<1> HIDE DEF e, N, R
<1>7. PersistentRight(e, Persistent)
  BY <1>2, <1>5, PersistentIs DEF N
<1> DEFINE p == Persistent
           flushed(i) == IF p[i].role \in BlockBased THEN <<Entry(p[i].opr, p[i].role, 0)>> ELSE segs[i]
<1>8. file' = [file EXCEPT ![col] = [i \in DOMAIN p |-> flushed(i)]]
  BY Zenon DEF FinalizeAndFlush
<1> HIDE DEF p
<1>9. DOMAIN p = 1 .. Len(R) /\ \A i \in 1 .. Len(R) : p[i].role = R[i] /\ p[i].opr.reads = ReadsAt(e, R[i])
  BY <1>7 DEF PersistentRight, Sequential, p, R
<1>10. [i \in DOMAIN p |-> flushed(i)] = FileOf(schema, col)
  <2>1. ASSUME NEW i \in 1 .. Len(R) PROVE flushed(i) = SegmentOf(schema, col, i)
    <3>1. R[i] \in BlockBased => Entry(p[i].opr, p[i].role, 0) = EntryOf(schema, col, i, 0)
      BY <1>9 DEF Entry, EntryOf, ExprAt, e, R
    <3>2. R[i] \notin BlockBased => segs[i] = [v \in 1 .. NumVectors |-> EntryOf(schema, col, i, v)]
      BY <1>4, <1>5 DEF SegsRight, ExprAt, e, R
    <3>3. PICK s, x : s = segs[i] /\ x = Entry(p[i].opr, p[i].role, 0)
      OBVIOUS
    <3> QED BY <1>9, <3>1, <3>2, <3>3 DEF SegmentOf, ExprAt, e, R
  <2> HIDE DEF flushed
  <2> QED BY <1>9, <2>1 DEF FileOf, ExprAt, e, R
<1>11. /\ file = [c \in 1 .. Len(schema) |-> file[c]]
       /\ \A c \in 1 .. Len(schema) : c < col => file[c] = FileOf(schema, c)
  BY <1>1, <1>6 DEF FileRight
<1>12. /\ file' = [c \in 1 .. Len(schema) |-> file'[c]]
       /\ \A c \in 1 .. Len(schema) : c <= col => file'[c] = FileOf(schema, c)
  <2>1. file' = [file EXCEPT ![col] = FileOf(schema, col)]
    BY <1>8, <1>10
  <2>2. file' = [c \in 1 .. Len(schema) |-> file'[c]]
    BY <1>11, <2>1
  <2>3. \A c \in 1 .. Len(schema) : file'[c] = IF c = col THEN FileOf(schema, col) ELSE file[c]
    BY <1>11, <2>1
  <2> QED BY <1>1, <1>2, <1>11, <2>2, <2>3
<1>13. FileRight(schema, phase', col', file')
  BY <1>1, <1>2, <1>12 DEF FileRight
<1>14. TokensRight(schema, phase', col', 0, tokens)
  <2>1. ASSUME NEW c \in 1 .. Len(schema)
        PROVE  TokenCount(schema, phase', col', 0, c) = TokenCount(schema, phase, col, N, c)
    <3>1. CASE c < col
      <4>1. phase' # "encode" \/ c < col'
        BY <1>1, <1>2, <3>1
      <4> QED BY <3>1, <4>1 DEF TokenCount
    <3>2. CASE c = col
      <4>1. phase' # "encode" \/ c < col'
        BY <1>1, <1>2, <3>2
      <4>2. ~ (c < col)
        BY <1>1, <3>2
      <4>3. TokenCount(schema, phase, col, N, c) = CountAt(e, N)
        BY <1>1, <3>2, <4>2 DEF TokenCount, ExprAt, e
      <4>4. TokenCount(schema, phase', col', 0, c) = CountAt(e, N)
        BY <3>2, <4>1 DEF TokenCount, ExprAt, e, N
      <4> QED BY <4>3, <4>4
    <3>3. CASE c > col
      <4>1. col < Len(schema) /\ ~ (c < col) /\ c # col
        BY <1>1, <1>2, <3>3
      <4>2. phase' = "encode" /\ ~ (c < col')
        BY <1>1, <1>2, <3>3, <4>1
      <4>3. TokenCount(schema, phase, col, N, c) = 0
        BY <1>1, <4>1 DEF TokenCount
      <4>4. TokenCount(schema, phase', col', 0, c) = 0
        BY <4>2 DEF TokenCount, CountAt
      <4> QED BY <4>3, <4>4
    <3> QED BY <1>1, <1>2, <3>1, <3>2, <3>3
  <2> QED BY <1>6, <2>1 DEF TokensRight
<1>15. ExpressionsRight(schema, phase', col', ops, dec, n_active)
  <2>1. \A c \in 1 .. Len(schema) :
          /\ (phase = "read" \/ (phase = "decode" /\ c < col)) = FALSE
          /\ (phase' = "read" \/ (phase' = "decode" /\ c < col')) = FALSE
    BY <1>1, <1>2
  <2>2. /\ ops = [c \in 1 .. Len(schema) |-> ops[c]]
        /\ dec = [c \in 1 .. Len(schema) |-> dec[c]]
        /\ n_active = [c \in 1 .. Len(schema) |-> n_active[c]]
        /\ \A c \in 1 .. Len(schema) :
             ExpressionRight(schema, c, phase = "read" \/ (phase = "decode" /\ c < col), ops[c], dec[c], n_active[c])
    BY <1>6, Zenon DEF ExpressionsRight
  <2>3. \A c \in 1 .. Len(schema) : ops[c] = <<>>
    BY <1>1, <1>6 DEF ExpressionsRight
  <2>4. ASSUME NEW c \in 1 .. Len(schema)
        PROVE  ExpressionRight(schema, c, phase' = "read" \/ (phase' = "decode" /\ c < col'), ops[c], dec[c], n_active[c])
    BY <2>1, <2>2, Zenon
  <2> QED BY <2>2, <2>3, <2>4, Zenon DEF ExpressionsRight
<1>16. col' \in 1 .. Len(schema) /\ phase' \in {"encode", "decode"}
  BY <1>1, <1>2
<1>17. phase' = "encode" => EncoderRight(schema, col', <<>>, Fresh, 0, <<>>)
  <2>1. /\ Len(<<>>) = 0 /\ <<>> = [k \in 1 .. 0 |-> EncOp(ExprAt(schema, col'), k, 0)]
        /\ Fresh.cur_operator = 0
        /\ Fresh = [cur_operator |-> 0, cur_operand |-> 0]
        /\ SegsRight(schema, col', 0, <<>>)
        /\ CursorRight(ExprAt(schema, col'), 0, 0)
        /\ CountAt(ExprAt(schema, col'), 0) = 0
    BY DEF Fresh, SegsRight, CursorRight, CountAt
  <2>2. 0 \in 0 .. Len(EncChains[ExprAt(schema, col')])
    <3>1. ExprAt(schema, col') \in Expressions \ {"fsst"}
      BY <1>1, <1>16, SchemaFacts DEF ExprAt
    <3> QED BY <3>1, RowOf DEF EncodersCounted
  <2>3. Fresh = [cur_operator |-> Fresh.cur_operator,
                 cur_operand  |-> IF ExprAt(schema, col') \in Literal THEN 0
                                  ELSE CountAt(ExprAt(schema, col'), Len(<<>>))]
    BY <2>1, Zenon
  <2> QED BY <1>4, <2>1, <2>2, <2>3 DEF EncoderRight
<1>18. phase' = "decode" => Fresh = DecoderState(schema, col', Len(ops[col']))
  <2>1. Len(ops[col']) = 0
    BY <1>1, <1>6, <1>16 DEF ExpressionsRight
  <2> QED BY <2>1 DEF DecoderState, Fresh
<1>19. /\ dec' = dec /\ ops' = ops /\ n_active' = n_active /\ bufs' = bufs /\ chunk' = chunk
       /\ next_vec' = next_vec /\ out' = out /\ schema' = schema /\ tokens' = tokens
  BY <1>1 DEF decVars, readVars
<1>20. Len(enc') = 0 /\ chunk \in 0 .. NumVectors /\ next_vec \in 0 .. NumVectors
  BY <1>1, <1>4, <1>6
<1>21. phase' # "read" /\ phase' # "encode" => phase' = "decode"
  BY <1>16
<1>22. IF phase' = "encode" THEN EncoderRight(schema, col', enc', state', vec_idx', segs')
       ELSE enc' = <<>> /\ segs' = <<>> /\ vec_idx' = 0
  BY <1>1, <1>17, Zenon
<1>23. /\ phase' = "decode" => state' = DecoderState(schema, col', Len(ops[col']))
       /\ phase' = "read" => state' = Fresh
       /\ TokensRight(schema, phase', col', Len(enc'), tokens)
       /\ phase' \in {"encode", "decode", "read"}
       /\ chunk # 0 => Fetched(schema, bufs, Len(schema), chunk)
  BY <1>1, <1>6, <1>14, <1>16, <1>18, <1>20
<1> QED BY <1>1, <1>6, <1>13, <1>15, <1>16, <1>19, <1>20, <1>22, <1>23, Zenon DEF IInv

-----------------------------------------------------------------------------
(* Columns that rest on other ones *)

\* f follows up from the numbers in P, and is b on the others.
FollowedBy(n, P, up, b, f) == f = [c \in 1 .. n |-> IF c \in P THEN f[up[c]] ELSE b[c]]

\* When up leads to smaller numbers there is one such function.
LEMMA Following ==
  ASSUME NEW n \in Nat, NEW P, NEW up, NEW b, \A c \in 1 .. n : c \in P => up[c] \in 1 .. c - 1
  PROVE  /\ \E f : FollowedBy(n, P, up, b, f)
         /\ \A f, g : FollowedBy(n, P, up, b, f) /\ FollowedBy(n, P, up, b, g) => f = g
<1> USE DEF FollowedBy
<1>1. \E f : FollowedBy(n, P, up, b, f)
  <2> DEFINE S == {m \in Nat : m <= n => \E f : FollowedBy(m, P, up, b, f)}
  <2>1. 0 \in S
    <3>1. PICK f : f = [c \in 1 .. 0 |-> 0]
      OBVIOUS
    <3>2. f = [c \in 1 .. 0 |-> IF c \in P THEN f[up[c]] ELSE b[c]]
      BY <3>1
    <3> QED BY <3>2
  <2>2. ASSUME NEW m \in Nat, m \in S PROVE m + 1 \in S
    <3> SUFFICES ASSUME m + 1 <= n PROVE \E g : FollowedBy(m + 1, P, up, b, g)
      OBVIOUS
    <3>1. PICK f : f = [c \in 1 .. m |-> IF c \in P THEN f[up[c]] ELSE b[c]]
      BY <2>2
    <3>2. PICK g : g = [c \in 1 .. m + 1 |-> IF c \in P THEN f[up[c]] ELSE b[c]]
      OBVIOUS
    <3>3. \A c \in 1 .. m : g[c] = f[c]
      BY <3>1, <3>2
    <3>4. \A c \in 1 .. m + 1 : c \in P => up[c] \in 1 .. m
      OBVIOUS
    <3>5. g = [c \in 1 .. m + 1 |-> IF c \in P THEN g[up[c]] ELSE b[c]]
      BY <3>2, <3>3, <3>4
    <3> QED BY <3>5
  <2>3. Nat \subseteq S
    <3> HIDE DEF S
    <3> QED BY <2>1, <2>2, Successors
  <2> QED BY <2>3
<1>2. ASSUME NEW f, NEW g, FollowedBy(n, P, up, b, f), FollowedBy(n, P, up, b, g)
      PROVE  f = g
  <2> DEFINE S == {c \in Nat : c \in 1 .. n => f[c] = g[c]}
  <2>1. \A c \in 1 .. n : /\ f[c] = IF c \in P THEN f[up[c]] ELSE b[c]
                          /\ g[c] = IF c \in P THEN g[up[c]] ELSE b[c]
    BY <1>2
  <2>2. ASSUME NEW c \in Nat, \A d \in Nat : d < c => d \in S PROVE c \in S
    <3> SUFFICES ASSUME c \in 1 .. n PROVE f[c] = g[c]
      OBVIOUS
    <3>1. CASE c \in P
      <4>1. up[c] \in Nat /\ up[c] < c /\ up[c] \in 1 .. n
        BY <3>1
      <4>2. f[up[c]] = g[up[c]]
        BY <2>2, <4>1
      <4> QED BY <2>1, <3>1, <4>2
    <3>2. CASE c \notin P
      BY <2>1, <3>2
    <3> QED BY <3>1, <3>2
  <2>3. Nat \subseteq S
    <3> HIDE DEF S
    <3> QED BY <2>2, CourseOfValues
  <2>4. \A c \in 1 .. n : f[c] = g[c]
    BY <2>3
  <2>5. f = [c \in 1 .. n |-> f[c]] /\ g = [c \in 1 .. n |-> g[c]]
    BY <1>2
  <2> QED BY <2>4, <2>5
<1> QED BY <1>1, <1>2

\* The column whose index a column looks up is before it, or the column itself.
LEMMA RootsFacts ==
  ASSUME NEW s \in Schemas
  PROVE  \A c \in 1 .. Len(s) :
           /\ RootsOf(s)[c] = IF s[c].expr \in External THEN RootsOf(s)[s[c].of] ELSE c
           /\ RootsOf(s)[c] \in 1 .. c /\ s[RootsOf(s)[c]].expr \notin External
           /\ s[c].expr \in Dictionaries =>
                /\ s[RootsOf(s)[c]].expr \in OwnDicts
                /\ s[RootsOf(s)[c]].index = s[c].index
<1> DEFINE n == Len(s)
           Eq(f) == f = [c \in 1 .. n |-> IF s[c].expr \in External THEN f[s[c].of] ELSE c]
           P == {c \in 1 .. n : s[c].expr \in External}
           up == [c \in 1 .. n |-> s[c].of]
           b == [c \in 1 .. n |-> c]
<1>1. n \in Nat
  BY SchemasAssumption
<1>2. \A c \in 1 .. n : s[c].expr \in External => s[c].of \in 1 .. c - 1
  BY SchemaFacts
<1>3. PICK f : FollowedBy(n, P, up, b, f)
  <2>1. \A c \in 1 .. n : c \in P => up[c] \in 1 .. c - 1
    BY <1>2
  <2> HIDE DEF n, P, up, b
  <2> QED BY <1>1, <2>1, Following
<1>4. Eq(f)
  <2>1. f = [c \in 1 .. n |-> IF c \in P THEN f[up[c]] ELSE b[c]]
    BY <1>3 DEF FollowedBy
  <2>2. \A c \in 1 .. n : (IF c \in P THEN f[up[c]] ELSE b[c])
                            = IF s[c].expr \in External THEN f[s[c].of] ELSE c
    OBVIOUS
  <2> QED BY <2>1, <2>2
<1>5. Eq(RootsOf(s))
  <2>1. RootsOf(s) = CHOOSE g : Eq(g)
    BY Zenon DEF RootsOf
  <2> HIDE DEF Eq
  <2> QED BY <1>4, <2>1, Zenon
<1> DEFINE r == RootsOf(s)
<1> HIDE DEF r
<1>6. \A c \in 1 .. n : r[c] = IF s[c].expr \in External THEN r[s[c].of] ELSE c
  BY <1>5 DEF r
<1> DEFINE Right(c) == /\ r[c] \in 1 .. c /\ s[r[c]].expr \notin External
                       /\ s[c].expr \in Dictionaries =>
                            s[r[c]].expr \in OwnDicts /\ s[r[c]].index = s[c].index
           S == {c \in Nat : c \in 1 .. n => Right(c)}
<1>7. ASSUME NEW c \in Nat, \A d \in Nat : d < c => d \in S PROVE c \in S
  <2> SUFFICES ASSUME c \in 1 .. n PROVE Right(c)
    OBVIOUS
  <2>1. CASE s[c].expr \in External
    <3>1. s[c].of \in 1 .. c - 1 /\ s[c].of \in 1 .. n /\ s[c].of < c /\ s[c].of \in Nat
      BY <1>1, <1>2, <2>1
    <3>2. Right(s[c].of)
      BY <1>7, <3>1
    <3>3. s[s[c].of].expr \in Dictionaries /\ s[s[c].of].index = s[c].index
      BY <2>1, SchemaFacts
    <3>4. r[c] = r[s[c].of]
      BY <1>6, <2>1
    <3> QED BY <3>1, <3>2, <3>3, <3>4
  <2>2. CASE s[c].expr \notin External
    BY <1>6, <2>2 DEF OwnDicts
  <2> QED BY <2>1, <2>2
<1>8. Nat \subseteq S
  <2> HIDE DEF S
  <2> QED BY <1>7, CourseOfValues
<1>9. \A c \in 1 .. n : Right(c)
  BY <1>8
<1> QED BY <1>6, <1>9 DEF r

-----------------------------------------------------------------------------
(* Building the decoding operators *)

\* The first operator of an expression, through the ones in front of it.
LEMMA RootIs ==
  ASSUME schema \in Schemas, col \in 1 .. Len(schema), schema[col].expr # "equal",
         \A c \in 1 .. col : ops[c][1] = RefOf(schema, c, 1)
  PROVE  RootOf[col] = <<RootsOf(schema)[col], 1>>
<1> DEFINE Eq(f) == f = [c \in 1 .. col |-> IF ops[c][1][2] = 0 THEN f[ops[c][1][1]] ELSE ops[c][1]]
           P == {c \in 1 .. col : ops[c][1][2] = 0}
           up == [c \in 1 .. col |-> ops[c][1][1]]
           b == [c \in 1 .. col |-> ops[c][1]]
           r == RootsOf(schema)
<1>1. Len(schema) \in Nat /\ col \in Nat /\ \A c \in 1 .. col : c \in 1 .. Len(schema)
  BY SchemaFacts
<1>2. \A c \in 1 .. Len(schema) :
        /\ r[c] = IF schema[c].expr \in External THEN r[schema[c].of] ELSE c
        /\ schema[c].expr \in External => schema[c].of \in 1 .. c - 1
        /\ schema[c].expr \in External => schema[schema[c].of].expr # "equal"
  <2>1. \A c \in 1 .. Len(schema) : r[c] = IF schema[c].expr \in External THEN r[schema[c].of] ELSE c
    BY RootsFacts
  <2>2. \A c \in 1 .. Len(schema) : schema[c].expr \in External => schema[c].of \in 1 .. c - 1
    BY SchemaFacts
  <2>3. "equal" \notin Dictionaries
    BY DEF Dictionaries, External
  <2>4. \A c \in 1 .. Len(schema) : schema[c].expr \in External => schema[schema[c].of].expr # "equal"
    BY <2>3, SchemaFacts
  <2> QED BY <2>1, <2>2, <2>4
<1> HIDE DEF r
<1>3. ASSUME NEW c \in 1 .. col
      PROVE  /\ schema[c].expr \in External => ops[c][1][1] = schema[c].of /\ ops[c][1][2] = 0
             /\ schema[c].expr = "equal" => ops[c][1][2] # 0
             /\ schema[c].expr \notin External \cup {"equal"} => ops[c][1] = <<c, 1>>
  <2>1. ops[c][1] = RefOf(schema, c, 1)
    OBVIOUS
  <2>2. "equal" \notin External
    BY DEF External
  <2>3. schema[c].expr = "equal" =>
          schema[c].of \in 1 .. Len(schema) /\ schema[schema[c].of].expr \in Expressions \ {"fsst", "equal"}
    BY <1>1, SchemaFacts
  <2>4. \A e \in Expressions \ {"fsst", "equal"} : OwnLen(e) # 0
    BY RowOf DEF OwnLen, DecodersShaped
  <2>5. CASE schema[c].expr = "equal"
    <3>1. ops[c][1] = <<schema[c].of, OwnLen(schema[schema[c].of].expr)>>
      BY <2>1, <2>2, <2>5 DEF RefOf, ExprAt
    <3> QED BY <2>2, <2>3, <2>4, <2>5, <3>1
  <2>6. CASE schema[c].expr \in External
    <3>1. ops[c][1] = <<schema[c].of, 0>>
      BY <2>1, <2>2, <2>6 DEF RefOf, ExprAt
    <3> QED BY <2>2, <2>6, <3>1
  <2>7. CASE schema[c].expr \notin External \cup {"equal"}
    BY <2>1, <2>7 DEF RefOf, ExprAt
  <2> QED BY <2>5, <2>6, <2>7
<1>4. \A c \in 1 .. col : c \in P => up[c] \in 1 .. c - 1
  <2> SUFFICES ASSUME NEW c \in 1 .. col, c \in P PROVE up[c] \in 1 .. c - 1
    OBVIOUS
  <2>1. schema[c].expr \in External
    BY <1>3
  <2> QED BY <1>1, <1>2, <1>3, <2>1
<1>5. \A f : Eq(f) <=> FollowedBy(col, P, up, b, f)
  <2> SUFFICES ASSUME NEW f PROVE Eq(f) <=> FollowedBy(col, P, up, b, f)
    OBVIOUS
  <2>1. \A c \in 1 .. col : (IF c \in P THEN f[up[c]] ELSE b[c])
                              = IF ops[c][1][2] = 0 THEN f[ops[c][1][1]] ELSE ops[c][1]
    OBVIOUS
  <2>2. [c \in 1 .. col |-> IF c \in P THEN f[up[c]] ELSE b[c]]
          = [c \in 1 .. col |-> IF ops[c][1][2] = 0 THEN f[ops[c][1][1]] ELSE ops[c][1]]
    BY <2>1, Zenon
  <2> HIDE DEF P, up, b
  <2> QED BY <2>2 DEF FollowedBy
<1>6. Eq(RootOf)
  <2>1. RootOf = CHOOSE f : Eq(f)
    BY Zenon DEF RootOf
  <2>2. \E f : FollowedBy(col, P, up, b, f)
    <3> HIDE DEF P, up, b
    <3> QED BY <1>1, <1>4, Following
  <2> HIDE DEF Eq
  <2> QED BY <1>5, <2>1, <2>2, Zenon
<1> DEFINE g == [c \in 1 .. col |-> IF schema[c].expr = "equal" THEN ops[c][1] ELSE <<r[c], 1>>]
<1>7. Eq(g)
  <2>1. ASSUME NEW c \in 1 .. col
        PROVE  g[c] = IF ops[c][1][2] = 0 THEN g[ops[c][1][1]] ELSE ops[c][1]
    <3>0. "equal" \notin External
      BY DEF External
    <3>1. CASE schema[c].expr = "equal"
      BY <1>3, <3>1
    <3>2. CASE schema[c].expr \in External
      <4>1. schema[c].of \in 1 .. col /\ schema[schema[c].of].expr # "equal"
        BY <1>1, <1>2, <3>2
      <4>2. r[c] = r[schema[c].of]
        BY <1>1, <1>2, <3>2
      <4>3. g[c] = <<r[c], 1>> /\ g[schema[c].of] = <<r[schema[c].of], 1>>
        BY <3>0, <3>2, <4>1
      <4> HIDE DEF g
      <4> QED BY <1>3, <3>2, <4>2, <4>3
    <3>3. CASE schema[c].expr \notin External \cup {"equal"}
      <4>1. r[c] = c /\ ops[c][1] = <<c, 1>>
        BY <1>1, <1>2, <1>3, <3>3
      <4>2. ops[c][1][2] # 0
        BY <4>1
      <4> QED BY <3>3, <4>1, <4>2
    <3> QED BY <3>1, <3>2, <3>3
  <2>2. g = [c \in 1 .. col |-> g[c]]
    OBVIOUS
  <2> HIDE DEF g
  <2> QED BY <2>1, <2>2
<1>8. RootOf = g
  <2>1. FollowedBy(col, P, up, b, RootOf) /\ FollowedBy(col, P, up, b, g)
    <3> HIDE DEF P, up, b, Eq, g
    <3> QED BY <1>5, <1>6, <1>7, Zenon
  <2> HIDE DEF P, up, b, g
  <2> QED BY <1>1, <1>4, <2>1, Following, Zenon
<1>9. g[col] = <<r[col], 1>>
  BY <1>1
<1> QED BY <1>8, <1>9 DEF r

-----------------------------------------------------------------------------
(* What the decoding operators find *)

\* The names an operator takes its segments by are sequences.
LEMMA ViewsSequential ==
  ASSUME NEW op \in DOMAIN NumOperands
  PROVE  Sequential(DecViews(op))
<1> DEFINE P(x) == Sequential(DecViews(x))
<1> USE DEF DecViews, Sequential, Alp, AlpRd, Patching
<1>1. P("unffor") OBVIOUS
<1>2. P("slpatch") OBVIOUS
<1>3. P("rsum") OBVIOUS
<1>4. P("transpose") OBVIOUS
<1>5. P("scan") OBVIOUS
<1>6. P("fsst") OBVIOUS
<1>7. P("rle_map") OBVIOUS
<1>8. P("rle_map_str") OBVIOUS
<1>9. P("dict") OBVIOUS
<1>10. P("dict_str") OBVIOUS
<1>11. P("fsst_dict") OBVIOUS
<1>12. P("null") OBVIOUS
<1>13. P("frequency") OBVIOUS
<1>14. P("frequency_str") OBVIOUS
<1>15. P("cross_rle") OBVIOUS
<1>16. P("cross_rle_str") OBVIOUS
<1>17. P("constant") OBVIOUS
<1>18. P("alp") OBVIOUS
<1>19. P("alp_rd") OBVIOUS
<1>20. P("uncompressed") OBVIOUS
<1>21. P("validitymask") OBVIOUS
<1>22. P("str_uncompressed") OBVIOUS
<1> HIDE DEF DecViews, Sequential, Alp, AlpRd, Patching
<1> QED
  <2> HIDE DEF P
  <2>1. P(op)
    BY <1>1, <1>2, <1>3, <1>4, <1>5, <1>6, <1>7, <1>8, <1>9, <1>10, <1>11, <1>12, <1>13, <1>14,
       <1>15, <1>16, <1>17, <1>18, <1>19, <1>20, <1>21, <1>22
       DEF NumOperands, OperandsTaken
  <2> QED BY <2>1 DEF P

\* What an operator finds in its segments is what they were written of.
FoundRight(e, op) ==
  \A j \in 1 .. Len(DecViews(op)) : ReadsAt(e, DecViews(op)[j]) = FoundBy(e, op)

LEMMA SegmentsFound ==
  ASSUME NEW e, NEW op \in DOMAIN NumOperands,
         op \in {"frequency", "frequency_str"} => e \notin Patchable,
         op = "slpatch" => e \in Patchable
  PROVE  FoundRight(e, op)
<1> DEFINE Plain(x) == \A j \in 1 .. Len(DecViews(x)) :
             DecViews(x)[j] \notin {"bitpacked", "bitwidth", "base", "bases", "exceptions",
                                    "exception_positions", "n_exceptions"}
<1>1. FoundRight(e, "unffor")
  BY DEF FoundRight, ReadsAt, FoundBy, DecViews
<1>2. e \in Patchable => FoundRight(e, "slpatch")
  BY DEF FoundRight, ReadsAt, FoundBy, DecViews, Patching
<1>3. FoundRight(e, "rsum")
  BY DEF FoundRight, ReadsAt, FoundBy, DecViews
<1>4. e \notin Patchable => FoundRight(e, "frequency") /\ FoundRight(e, "frequency_str")
  BY DEF FoundRight, ReadsAt, FoundBy, DecViews
<1>5. ASSUME op \notin {"unffor", "slpatch", "rsum", "frequency", "frequency_str"}
      PROVE  FoundRight(e, op)
  <2>1. Plain("transpose") BY DEF DecViews, Alp, AlpRd
  <2>2. Plain("scan") BY DEF DecViews, Alp, AlpRd
  <2>3. Plain("fsst") BY DEF DecViews, Alp, AlpRd
  <2>4. Plain("rle_map") BY DEF DecViews, Alp, AlpRd
  <2>5. Plain("rle_map_str") BY DEF DecViews, Alp, AlpRd
  <2>6. Plain("dict") BY DEF DecViews, Alp, AlpRd
  <2>7. Plain("dict_str") BY DEF DecViews, Alp, AlpRd
  <2>8. Plain("fsst_dict") BY DEF DecViews, Alp, AlpRd
  <2>9. Plain("null") BY DEF DecViews, Alp, AlpRd
  <2>10. Plain("cross_rle") BY DEF DecViews, Alp, AlpRd
  <2>11. Plain("cross_rle_str") BY DEF DecViews, Alp, AlpRd
  <2>12. Plain("constant") BY DEF DecViews, Alp, AlpRd
  <2>13. Plain("alp") BY DEF DecViews, Alp, AlpRd
  <2>14. Plain("alp_rd") BY DEF DecViews, Alp, AlpRd
  <2>15. Plain("uncompressed") BY DEF DecViews, Alp, AlpRd
  <2>16. Plain("validitymask") BY DEF DecViews, Alp, AlpRd
  <2>17. Plain("str_uncompressed") BY DEF DecViews, Alp, AlpRd
  <2>18. Plain(op)
    <3> HIDE DEF Plain
    <3> QED BY <1>5, <2>1, <2>2, <2>3, <2>4, <2>5, <2>6, <2>7, <2>8, <2>9, <2>10, <2>11, <2>12,
          <2>13, <2>14, <2>15, <2>16, <2>17
          DEF NumOperands, OperandsTaken
  <2>19. PICK views : views = DecViews(op)
    OBVIOUS
  <2> QED BY <1>5, <2>18, <2>19 DEF FoundRight, ReadsAt, FoundBy
<1> HIDE DEF Plain
<1> QED BY <1>1, <1>2, <1>3, <1>4, <1>5

\* The chain of column col, of expression e, has m operators.
Decoding(m, e) ==
  IInv /\ phase = "decode" /\ e = schema[col].expr /\ m = Len(ops[col])

\* What is there already.
LEMMA DecodingFacts ==
  ASSUME NEW m, NEW e, Decoding(m, e)
  PROVE  /\ schema \in Schemas /\ col \in 1 .. Len(schema) /\ Len(schema) \in Nat
         /\ e \in Expressions \ {"fsst"} /\ schema[col] \in Choice /\ m \in 0 .. Len(DecChains[e])
         /\ HasDecoder(schema[col]) /\ Len(DecChains[e]) \in Nat
         /\ tokens[col] = TokensOf(schema[col], CountAt(e, Len(EncChains[e])))
         /\ ops[col] = [k \in 1 .. m |-> RefOf(schema, col, k)]
         /\ DecodersRight(schema, col, m, dec[col])
         /\ state = DecoderState(schema, col, m)
         /\ n_active[col] = 0
         /\ \A c \in 1 .. col - 1 :
              /\ Len(ops[c]) = Len(DecChains[schema[c].expr])
              /\ ops[c] = [k \in 1 .. Len(ops[c]) |-> RefOf(schema, c, k)]
              /\ DecodersRight(schema, c, Len(ops[c]), dec[c])
<1>1. /\ schema \in Schemas /\ col \in 1 .. Len(schema) /\ phase = "decode"
      /\ TokensRight(schema, phase, col, Len(enc), tokens)
      /\ ExpressionsRight(schema, phase, col, ops, dec, n_active)
      /\ state = DecoderState(schema, col, m) /\ e = schema[col].expr /\ m = Len(ops[col])
  BY DEF Decoding, IInv
<1>2. Len(schema) \in Nat /\ e \in Expressions \ {"fsst"} /\ schema[col] \in Choice /\ HasDecoder(schema[col])
  BY <1>1, SchemaFacts
<1>3. Len(DecChains[e]) \in Nat
  BY <1>2, RowOf DEF DecodersShaped
<1>4. tokens[col] = TokensOf(schema[col], CountAt(e, Len(EncChains[e])))
  BY <1>1 DEF TokensRight, TokenCount, ExprAt
<1>5. \A c \in 1 .. Len(schema) :
        ExpressionRight(schema, c, phase = "read" \/ (phase = "decode" /\ c < col), ops[c], dec[c], n_active[c])
  BY <1>1, Zenon DEF ExpressionsRight
<1>6. /\ m \in 0 .. Len(DecChains[e]) /\ ops[col] = [k \in 1 .. m |-> RefOf(schema, col, k)]
      /\ DecodersRight(schema, col, m, dec[col]) /\ n_active[col] = 0
  <2>1. (phase = "read" \/ (phase = "decode" /\ col < col)) = FALSE
    BY <1>1, <1>2
  <2>2. ExpressionRight(schema, col, FALSE, ops[col], dec[col], n_active[col])
    BY <1>1, <1>5, <2>1, Zenon
  <2> QED BY <1>1, <2>2, Zenon DEF ExpressionRight, ExprAt
<1>7. ASSUME NEW c \in 1 .. col - 1
      PROVE  /\ Len(ops[c]) = Len(DecChains[schema[c].expr])
             /\ ops[c] = [k \in 1 .. Len(ops[c]) |-> RefOf(schema, c, k)]
             /\ DecodersRight(schema, c, Len(ops[c]), dec[c])
  <2>1. c \in 1 .. Len(schema) /\ (phase = "read" \/ (phase = "decode" /\ c < col)) = TRUE
    BY <1>1, <1>2
  <2>2. ExpressionRight(schema, c, TRUE, ops[c], dec[c], n_active[c])
    BY <1>5, <2>1, Zenon
  <2> QED BY <2>2, Zenon DEF ExpressionRight, ExprAt
<1> QED BY <1>1, <1>2, <1>3, <1>4, <1>6, <1>7

\* The token behind the one of the wizard is 0, and so on.
LEMMA TokenAt ==
  ASSUME NEW ch \in Choice, NEW n \in Nat
  PROVE  /\ Before(ch) \in {0, 1} /\ Len(TokensOf(ch, n)) = Before(ch) + n
         /\ Before(ch) = 1 => TokensOf(ch, n)[1] = ch.of - 1
         /\ \A i \in 1 .. n : TokensOf(ch, n)[Before(ch) + i] = i - 1
<1>1. Before(ch) \in {0, 1} /\ ch.of \in Nat
  BY DEF Before, Choice
<1> DEFINE b == Before(ch)
<1>2. TokensOf(ch, n) = [j \in 1 .. b + n |-> IF j <= b THEN ch.of - 1 ELSE j - 1 - b]
  BY DEF TokensOf
<1> HIDE DEF b
<1>3. b \in {0, 1}
  BY <1>1 DEF b
<1>4. Len(TokensOf(ch, n)) = b + n
  BY <1>2, <1>3
<1>5. b = 1 => TokensOf(ch, n)[1] = ch.of - 1
  BY <1>2, <1>3
<1>6. \A i \in 1 .. n : TokensOf(ch, n)[b + i] = i - 1
  BY <1>2, <1>3
<1> QED BY <1>3, <1>4, <1>5, <1>6 DEF b

\* Every operator finds its segments.
LEMMA IndexesRight ==
  ASSUME NEW m, NEW e, Decoding(m, e), m < Len(DecChains[e]), NEW op, op = DecChains[e][m + 1],
         op \notin {"shared", "first_column"}
  PROVE  \A i \in 1 .. Len(DecViews(op)) : Indexes(op, LeftAt(e, m))[i] = Starts[e][m + 1] + i - 1
<1> DEFINE N == Len(EncChains[e])
           b == Before(schema[col])
           ts == tokens[col]
           cur == LeftAt(e, m)
<1>1. /\ e \in Expressions \ {"fsst"} /\ schema[col] \in Choice /\ m \in Nat /\ m + 1 \in 1 .. Len(DecChains[e])
      /\ ts = TokensOf(schema[col], CountAt(e, N)) /\ e = schema[col].expr
      /\ schema \in Schemas /\ col \in 1 .. Len(schema)
  <2>1. /\ e \in Expressions \ {"fsst"} /\ schema[col] \in Choice /\ m \in 0 .. Len(DecChains[e])
        /\ Len(DecChains[e]) \in Nat /\ ts = TokensOf(schema[col], CountAt(e, N))
        /\ schema \in Schemas /\ col \in 1 .. Len(schema)
    BY DecodingFacts
  <2>2. e = schema[col].expr
    BY DEF Decoding
  <2>3. m \in Nat /\ m + 1 \in 1 .. Len(DecChains[e])
    BY <2>1
  <2> HIDE DEF ts, N
  <2> QED BY <2>1, <2>2, <2>3
<1>2. /\ StartsAre(e) /\ DecodersShaped(e) /\ DecodersCounted(e) /\ DecodersFit(e) /\ TokensFit(e)
      /\ EncodersCounted(e) /\ (m + 1) - 1 = m
  BY <1>1, RowOf
<1>3. CountAt(e, N) \in Nat
  <2>1. N \in Nat /\ \A k \in 1 .. N : CountAt(e, k) \in Nat
    BY <1>2 DEF EncodersCounted
  <2> QED BY <2>1 DEF CountAt
<1>4. /\ op \in DOMAIN NumOperands /\ op # "scan" /\ (op \in Literal => e = op)
      /\ Starts[e][m + 1] = StartAt(e, op, cur)
      /\ cur \in Int
      /\ Starts[e][m + 1] \in Nat /\ Starts[e][m + 1] + Len(DecViews(op)) <= Len(Roles[e])
      /\ op = "dict_str" => e \notin {"equal"}
  <2>1. op \in DOMAIN NumOperands
    BY <1>1, <1>2 DEF DecodersShaped
  <2>2. Starts[e][m + 1] = StartAt(e, op, cur)
    BY <1>1, <1>2, <2>1 DEF StartsAre
  <2>3. op # "scan" /\ (op \in Literal => e = op)
    BY <1>1, <1>2 DEF TokensFit
  <2>4. cur \in Int
    <3>1. cur \in (0 - 1) .. CountAt(e, N)
      BY <1>1, <1>2 DEF DecodersCounted
    <3> QED BY <1>3, <3>1
  <2>5. Starts[e][m + 1] \in Nat /\ Starts[e][m + 1] + Len(DecViews(op)) <= Len(Roles[e])
    BY <1>1, <1>2 DEF DecodersFit
  <2>6. op = "dict_str" => e # "equal"
    BY <1>1, <1>2 DEF DecodersShaped
  <2> QED BY <2>1, <2>2, <2>3, <2>4, <2>5, <2>6
<1>5. b \in {0, 1} /\ (b = 1 <=> e \in External \cup {"equal"})
  <2>1. schema[col].of # 0 <=> e \in External \cup {"equal"}
    BY <1>1, SchemaFacts
  <2>2. b = IF schema[col].of = 0 THEN 0 ELSE 1
    BY DEF Before
  <2> HIDE DEF b
  <2> QED BY <2>1, <2>2
<1> HIDE DEF N, b, ts, cur
<1>6. CASE op \in {"fsst", "dict_str"}
  <2>1. Indexes(op, cur) = <<0, 1>> /\ Len(DecViews(op)) = 2 /\ StartAt(e, op, cur) = 0
    BY <1>6 DEF Indexes, DecViews, StartAt
  <2> QED BY <1>4, <2>1 DEF cur
<1>7. CASE op = "rsum"
  <2>1. Indexes(op, cur) = <<cur>> /\ Len(DecViews(op)) = 1 /\ StartAt(e, op, cur) = cur
    BY <1>7 DEF Indexes, DecViews, StartAt
  <2> QED BY <1>4, <2>1 DEF cur
<1>8. CASE op = "alp"
  <2>1. Indexes(op, cur) = [k \in 1 .. 8 |-> k - 1] /\ Len(DecViews(op)) = 8 /\ StartAt(e, op, cur) = 0
    BY <1>8 DEF Indexes, DecViews, StartAt, Alp
  <2> QED BY <1>4, <2>1 DEF cur
<1>9. CASE op = "alp_rd"
  <2>1. Indexes(op, cur) = [k \in 1 .. 10 |-> k - 1] /\ Len(DecViews(op)) = 10 /\ StartAt(e, op, cur) = 0
    BY <1>9 DEF Indexes, DecViews, StartAt, AlpRd
  <2> QED BY <1>4, <2>1 DEF cur
<1>10. CASE op \in {"uncompressed", "validitymask"}
  <2>1. Indexes(op, cur) = <<Last(ts)>> /\ Len(DecViews(op)) = 1 /\ StartAt(e, op, cur) = 0
    BY <1>10 DEF Indexes, DecViews, StartAt, ts
  <2>2. e = op /\ b = 0
    BY <1>4, <1>5, <1>10 DEF Literal, External
  <2>3. CountAt(e, N) = 1
    <3>1. /\ CountAt("uncompressed", Len(EncChains["uncompressed"])) = 1
          /\ CountAt("validitymask", Len(EncChains["validitymask"])) = 1
      BY DEF CountAt, Counts, EncChains
    <3> QED BY <1>10, <2>2, <3>1 DEF N
  <2>4. Len(ts) = 1 /\ ts[0 + 1] = 0
    <3>1. /\ Len(TokensOf(schema[col], 1)) = Before(schema[col]) + 1
          /\ \A i \in 1 .. 1 : TokensOf(schema[col], 1)[Before(schema[col]) + i] = i - 1
      BY <1>1, TokenAt
    <3>2. ts = TokensOf(schema[col], 1) /\ Before(schema[col]) = 0
      BY <1>1, <2>2, <2>3 DEF b
    <3> QED BY <3>1, <3>2
  <2>5. Last(ts) = 0
    BY <2>4 DEF Last
  <2> QED BY <1>4, <2>1, <2>5 DEF cur
<1>11. CASE op = "str_uncompressed"
  <2>1. Indexes(op, cur) = <<ts[1], ts[2]>> /\ Len(DecViews(op)) = 2 /\ StartAt(e, op, cur) = 0
    BY <1>11 DEF Indexes, DecViews, StartAt, ts
  <2>2. e = op /\ b = 0
    BY <1>4, <1>5, <1>11 DEF Literal, External
  <2>3. CountAt(e, N) = 2
    BY <1>11, <2>2 DEF CountAt, Counts, EncChains, N
  <2>4. ts[0 + 1] = 0 /\ ts[0 + 2] = 1
    BY <1>1, <2>2, <2>3, TokenAt DEF b
  <2>5. ts[1] = 0 /\ ts[2] = 1
    BY <2>4
  <2>6. Indexes(op, cur) = <<0, 1>>
    BY <2>1, <2>5
  <2> QED BY <1>4, <2>1, <2>6 DEF cur
<1>12. CASE op \notin Fixed
  <2> DEFINE n == NumOperands[op]
  <2>1. Indexes(op, cur) = [k \in 1 .. n |-> ts[cur - n + k + 1]]
    BY <1>12 DEF Indexes, ts, Fixed, Literal
  <2>2. /\ n = Len(DecViews(op))
        /\ n # 0 => /\ CountAt(e, N) = Len(Roles[e])
                    /\ Starts[e][m + 1] = cur - n + 1 - IF e \in External THEN 1 ELSE 0
    BY <1>1, <1>2, <1>12 DEF TokensFit, N, cur
  <2>3. n \in Nat
    BY <1>4, <2>2, ViewsSequential DEF Sequential
  <2>4. e # "equal"
    <3>1. e = "equal" => Len(DecChains[e]) = 1 /\ DecChains[e][1] = "shared"
      BY DEF DecChains
    <3> QED BY <1>1, <3>1
  <2> HIDE DEF n
  <2>5. ASSUME NEW i \in 1 .. n PROVE Indexes(op, cur)[i] = Starts[e][m + 1] + i - 1
    <3>1. n # 0 /\ i \in Nat
      BY <2>3
    <3>2. Starts[e][m + 1] = cur - n + 1 - b /\ CountAt(e, N) = Len(Roles[e])
      BY <1>4, <1>5, <2>2, <2>3, <2>4, <3>1
    <3>3. PICK st, q : st = Starts[e][m + 1] /\ q = st + i
      OBVIOUS
    <3>4. q \in 1 .. CountAt(e, N) /\ cur - n + i + 1 = b + q
      <4>1. st \in Nat /\ st = cur - n + 1 - b /\ st + n <= CountAt(e, N) /\ cur \in Int
        BY <1>4, <2>2, <3>2, <3>3
      <4>2. b \in Int
        BY <1>5
      <4> QED BY <1>3, <2>3, <3>1, <3>3, <4>1, <4>2
    <3>5. ts[b + q] = q - 1
      BY <1>1, <1>3, <3>4, TokenAt DEF b
    <3> QED BY <1>4, <2>1, <3>3, <3>4, <3>5
  <2> QED BY <2>2, <2>5 DEF cur
<1> QED BY <1>4, <1>6, <1>7, <1>8, <1>9, <1>10, <1>11, <1>12 DEF Fixed, Literal

\* Place of an operator of its own in the chain.
LEMMA PlaceIs ==
  ASSUME NEW m, NEW e, Decoding(m, e), m < Len(DecChains[e]), NEW op, op = DecChains[e][m + 1],
         op \notin {"shared", "first_column"}
  PROVE  /\ e # "equal" /\ Len(dec[col]) = OwnAt(e, m) /\ Len(dec[col]) \in Nat
         /\ PlaceOf(e, Len(dec[col]) + 1) = m + 1 /\ OwnOp(e, Len(dec[col]) + 1) = op
         /\ e \in External => m = 1 /\ Len(dec[col]) = 0
         /\ e \notin External => Len(dec[col]) = m
<1>1. e \in Expressions \ {"fsst"} /\ m \in 0 .. Len(DecChains[e]) /\ Len(DecChains[e]) \in Nat
  BY DecodingFacts
<1>2. Len(dec[col]) = OwnAt(e, m)
  <2>1. DecodersRight(schema, col, m, dec[col]) /\ e = schema[col].expr
    BY DecodingFacts DEF Decoding
  <2> QED BY <2>1 DEF DecodersRight, ExprAt
<1>3. DecodersShaped(e)
  BY <1>1, RowOf
<1>4. e # "equal"
  <2>1. e = "equal" => m + 1 = 1 /\ DecChains[e] = <<"shared">>
    BY <1>1, <1>3 DEF DecodersShaped
  <2> QED BY <2>1
<1>5. e \in External => m = 1
  <2>1. e \in External => Len(DecChains[e]) = 2 /\ DecChains[e][1] = "first_column"
    BY <1>3 DEF DecodersShaped
  <2>2. m = 0 => DecChains[e][m + 1] = DecChains[e][1]
    OBVIOUS
  <2> QED BY <1>1, <2>1, <2>2
<1>6. e \in External => OwnAt(e, m) = 0 /\ PlaceOf(e, 1) = 2
  BY <1>4, <1>5 DEF OwnAt, PlaceOf
<1>7. e \notin External => OwnAt(e, m) = m /\ PlaceOf(e, m + 1) = m + 1
  BY <1>4 DEF OwnAt, PlaceOf
<1>8. PlaceOf(e, Len(dec[col]) + 1) = m + 1 /\ Len(dec[col]) \in Nat
  BY <1>1, <1>2, <1>5, <1>6, <1>7
<1> QED BY <1>2, <1>4, <1>5, <1>6, <1>7, <1>8 DEF OwnOp

\* An operator that is there already.
LEMMA BuiltDecoder ==
  ASSUME NEW m, NEW e, Decoding(m, e), NEW c \in 1 .. col, NEW k \in 1 .. Len(ops[c]),
         schema[c].expr \notin External \cup {"equal"}
  PROVE  /\ dec[c][k].op = DecChains[schema[c].expr][k] /\ dec[c][k].from = FromOf(schema, c, k)
         /\ ops[c][k] = <<c, k>> /\ Op(<<c, k>>) = dec[c][k]
<1>1. DecodersRight(schema, c, Len(ops[c]), dec[c]) /\ ops[c] = [i \in 1 .. Len(ops[c]) |-> RefOf(schema, c, i)]
  <2>1. c = col \/ c \in 1 .. col - 1
    <3>1. Len(schema) \in Nat /\ col \in 1 .. Len(schema)
      BY DecodingFacts
    <3> QED BY <3>1
  <2>2. CASE c = col
    <3>1. m = Len(ops[col])
      BY DEF Decoding
    <3> QED BY <2>2, <3>1, DecodingFacts, Zenon
  <2>3. CASE c \in 1 .. col - 1
    BY <2>3, DecodingFacts, Zenon
  <2> QED BY <2>1, <2>2, <2>3
<1>2. Len(dec[c]) = Len(ops[c])
  BY <1>1 DEF DecodersRight, ExprAt, OwnAt
<1>3. DecoderRight(schema, c, k, dec[c][k])
  BY <1>1, <1>2 DEF DecodersRight
<1>4. ops[c][k] = <<c, k>>
  <2>1. ops[c][k] = RefOf(schema, c, k)
    BY <1>1
  <2> QED BY <2>1 DEF RefOf, ExprAt
<1>5. dec[c][k].op = DecChains[schema[c].expr][k] /\ dec[c][k].from = FromOf(schema, c, k)
  BY <1>3 DEF DecoderRight, OwnOp, PlaceOf, ExprAt
<1> QED BY <1>4, <1>5 DEF Op

\* What stands in front of the operator at m + 1.
LEMMA InFrontOf ==
  ASSUME NEW e, DecodersShaped(e), NEW m, m + 1 \in 1 .. Len(DecChains[e]), (m + 1) - 1 = m,
         NEW op, op = DecChains[e][m + 1]
  PROVE  /\ op = "slpatch" => m + 1 = 2 /\ DecChains[e][m] = "unffor"
         /\ op = "rsum" => (m + 1 = 2 /\ DecChains[e][m] = "unffor") \/ (m + 1 = 3 /\ DecChains[e][m] = "slpatch")
         /\ op \in {"transpose", "rle_map", "rle_map_str", "fsst"} => m + 1 > 2 /\ DecChains[e][m] = "rsum"
<1> DEFINE P(o, k, prev) ==
      /\ o = "slpatch" => k = 2 /\ prev = "unffor"
      /\ o = "rsum" => (k = 2 /\ prev = "unffor") \/ (k = 3 /\ prev = "slpatch")
      /\ o \in {"transpose", "rle_map", "rle_map_str", "fsst"} => k > 2 /\ prev = "rsum"
<1>1. \A k \in 1 .. Len(DecChains[e]) : P(DecChains[e][k], k, DecChains[e][k - 1])
  BY Zenon DEF DecodersShaped
<1>2. P(DecChains[e][m + 1], m + 1, DecChains[e][m])
  <2>1. PICK k : k = m + 1
    OBVIOUS
  <2>2. k \in 1 .. Len(DecChains[e]) /\ k - 1 = m
    BY <2>1, Zenon
  <2>3. PICK prev : prev = DecChains[e][k - 1]
    OBVIOUS
  <2> HIDE DEF P
  <2>4. P(DecChains[e][k], k, prev)
    BY <1>1, <2>2, <2>3, Zenon
  <2>5. prev = DecChains[e][m]
    BY <2>2, <2>3
  <2> QED BY <2>1, <2>4, <2>5, Zenon
<1> QED BY <1>2

\* Every operator finds the one whose buffer it reads.
LEMMA FrontRight ==
  ASSUME NEW m, NEW e, Decoding(m, e), m < Len(DecChains[e]), NEW op, op = DecChains[e][m + 1],
         op \notin {"shared", "first_column"}
  PROVE  /\ Matches(op, InputOf(op))
         /\ BufferOf(InputOf(op)) = FromOf(schema, col, Len(dec[col]) + 1)
<1> DEFINE j == Len(dec[col]) + 1
           r == RootsOf(schema)
<1>1. /\ e \in Expressions \ {"fsst"} /\ m \in 0 .. Len(DecChains[e]) /\ Len(DecChains[e]) \in Nat
      /\ schema \in Schemas /\ col \in 1 .. Len(schema) /\ Len(schema) \in Nat
      /\ e = schema[col].expr /\ m = Len(ops[col]) /\ m + 1 \in 1 .. Len(DecChains[e]) /\ (m + 1) - 1 = m
  <2>1. e = schema[col].expr /\ m = Len(ops[col])
    BY DEF Decoding
  <2>2. /\ e \in Expressions \ {"fsst"} /\ m \in 0 .. Len(DecChains[e]) /\ Len(DecChains[e]) \in Nat
        /\ schema \in Schemas /\ col \in 1 .. Len(schema) /\ Len(schema) \in Nat
    BY DecodingFacts
  <2> QED BY <2>1, <2>2
<1>2. /\ e # "equal" /\ OwnOp(e, j) = op
      /\ e \notin External => j = m + 1
  BY <1>1, PlaceIs
<1>3. FromOf(schema, col, j) =
        CASE op \in {"slpatch", "rsum"} -> <<col, 1>>
          [] op \in {"transpose", "rle_map", "rle_map_str", "fsst"} -> <<col, j - 1>>
          [] op \in BehindFirst -> <<r[col], 1>>
          [] OTHER -> <<0, 0>>
  BY <1>1, <1>2, Zenon DEF FromOf, ExprAt
<1>4. DecodersShaped(e)
  BY <1>1, RowOf
<1> HIDE DEF j, r
<1>5. CASE op \in BehindBack
  <2>1. /\ e \notin External /\ m > 0
        /\ op = "slpatch" => m = 1 /\ DecChains[e][m] = "unffor"
        /\ op = "rsum" => (m = 1 /\ DecChains[e][m] = "unffor") \/ (m = 2 /\ DecChains[e][m] = "slpatch")
        /\ op \in {"transpose", "rle_map", "rle_map_str", "fsst"} => m > 1 /\ DecChains[e][m] = "rsum"
    <3>1. /\ op = "slpatch" => m + 1 = 2 /\ DecChains[e][m] = "unffor"
          /\ op = "rsum" => (m + 1 = 2 /\ DecChains[e][m] = "unffor") \/ (m + 1 = 3 /\ DecChains[e][m] = "slpatch")
          /\ op \in {"transpose", "rle_map", "rle_map_str", "fsst"} => m + 1 > 2 /\ DecChains[e][m] = "rsum"
      BY <1>1, <1>4, InFrontOf, Zenon
    <3>2. e \in External => DecChains[e][m + 1] \in {"first_column", e} /\ e \notin BehindBack
      <4>1. e \in External => Len(DecChains[e]) = 2 /\ DecChains[e][1] = "first_column" /\ DecChains[e][2] = e
        BY <1>4 DEF DecodersShaped
      <4>2. e \in External => e \notin BehindBack
        BY DEF External, BehindBack
      <4>3. e \in External => m + 1 \in {1, 2}
        BY <1>1, <4>1
      <4> QED BY <4>1, <4>2, <4>3
    <3>3. op # "first_column"
      OBVIOUS
    <3>4. e \notin External
      <4>1. e \in External => op \in {"first_column", e} /\ e \notin BehindBack
        BY <3>2
      <4> QED BY <1>5, <3>3, <4>1
    <3>5. m > 0
      BY <1>1, <1>5, <3>1 DEF BehindBack
    <3>6. /\ m + 1 = 2 => m = 1
          /\ m + 1 = 3 => m = 2
          /\ m + 1 > 2 => m > 1
      <4>1. m \in Int
        BY <1>1
      <4> QED BY <4>1
    <3> QED BY <3>1, <3>4, <3>5, <3>6, Zenon
  <2>2. m \in 1 .. Len(ops[col]) /\ col \in 1 .. col /\ schema[col].expr \notin External \cup {"equal"}
    BY <1>1, <1>2, <2>1
  <2>3. /\ dec[col][m].op = DecChains[e][m] /\ dec[col][m].from = FromOf(schema, col, m)
        /\ ops[col][m] = <<col, m>> /\ Op(<<col, m>>) = dec[col][m]
    BY <1>1, <2>2, BuiltDecoder
  <2>4. InputOf(op) = <<col, m>>
    <3>1. Last(ops[col]) = <<col, m>>
      BY <1>1, <2>3, Zenon DEF Last
    <3>2. op \notin BehindFirst
      BY <1>5 DEF BehindBack, BehindFirst
    <3> QED BY <1>5, <3>1, <3>2, Zenon DEF InputOf
  <2>5. Matches(op, <<col, m>>)
    <3>1. op \notin BehindFirst
      BY <1>5 DEF BehindBack, BehindFirst
    <3>2. DecChains[e][m] \in DecAccepts[op]
      BY <1>5, <2>1 DEF BehindBack, DecAccepts
    <3> QED BY <2>3, <3>1, <3>2, Zenon DEF Matches
  <2>6. DecChains[e][m] = "slpatch" => FromOf(schema, col, m) = <<col, 1>>
    <3>1. OwnOp(ExprAt(schema, col), m) = DecChains[e][m]
      BY <1>1, <2>1 DEF OwnOp, PlaceOf, ExprAt
    <3>2. FromOf(schema, col, m) =
            CASE DecChains[e][m] \in {"slpatch", "rsum"} -> <<col, 1>>
              [] DecChains[e][m] \in {"transpose", "rle_map", "rle_map_str", "fsst"} -> <<col, m - 1>>
              [] DecChains[e][m] \in BehindFirst -> <<r[col], 1>>
              [] OTHER -> <<0, 0>>
      BY <3>1, Zenon DEF FromOf, r
    <3> QED BY <3>2 DEF BehindFirst
  <2>7. BufferOf(<<col, m>>) = IF DecChains[e][m] = "slpatch" THEN <<col, 1>> ELSE <<col, m>>
    <3>1. <<col, m>>[1] # 0
      BY <1>1
    <3> QED BY <2>3, <2>6, <3>1 DEF BufferOf
  <2>8. CASE op = "slpatch"
    <3>1. FromOf(schema, col, j) = <<col, 1>>
      BY <1>3, <2>8 DEF BehindFirst
    <3> QED BY <2>1, <2>4, <2>5, <2>7, <2>8, <3>1 DEF j
  <2>9. CASE op = "rsum"
    <3>1. FromOf(schema, col, j) = <<col, 1>>
      BY <1>3, <2>9 DEF BehindFirst
    <3> QED BY <2>1, <2>4, <2>5, <2>7, <2>9, <3>1 DEF j
  <2>10. CASE op \in {"transpose", "rle_map", "rle_map_str", "fsst"}
    <3>1. FromOf(schema, col, j) = <<col, m>>
      <4>1. j - 1 = m
        BY <1>1, <1>2, <2>1
      <4> QED BY <1>3, <2>10, <4>1 DEF BehindFirst
    <3> QED BY <2>1, <2>4, <2>5, <2>7, <2>10, <3>1 DEF j
  <2> QED BY <1>5, <2>8, <2>9, <2>10 DEF BehindBack
<1>6. CASE op \in BehindFirst
  <2>1. m > 0 /\ e \in Dictionaries
    <3>1. m + 1 > 1 /\ e \in Dictionaries
      BY <1>1, <1>4, <1>6 DEF DecodersShaped, BehindFirst
    <3> QED BY <1>1, <3>1
  <2>2. \A c \in 1 .. col : ops[c][1] = RefOf(schema, c, 1)
    <3> SUFFICES ASSUME NEW c \in 1 .. col PROVE ops[c][1] = RefOf(schema, c, 1)
      OBVIOUS
    <3>1. c \in 1 .. Len(schema) /\ (c = col \/ c \in 1 .. col - 1)
      BY <1>1
    <3>2. ops[c] = [k \in 1 .. Len(ops[c]) |-> RefOf(schema, c, k)] /\ 1 \in 1 .. Len(ops[c])
      <4>1. CASE c = col
        <5>1. ops[col] = [k \in 1 .. m |-> RefOf(schema, col, k)]
          BY DecodingFacts
        <5> QED BY <1>1, <2>1, <4>1, <5>1
      <4>2. CASE c \in 1 .. col - 1
        <5>1. Len(ops[c]) = Len(DecChains[schema[c].expr]) /\ ops[c] = [k \in 1 .. Len(ops[c]) |-> RefOf(schema, c, k)]
          BY <4>2, DecodingFacts, Zenon
        <5>2. Len(DecChains[schema[c].expr]) \in Nat \ {0}
          BY <1>1, <3>1, SchemaFacts, RowOf DEF DecodersShaped
        <5> QED BY <5>1, <5>2
      <4> QED BY <3>1, <4>1, <4>2
    <3> QED BY <3>2
  <2>3. RootOf[col] = <<r[col], 1>>
    BY <1>1, <1>2, <2>2, RootIs DEF r
  <2>4. /\ r[col] \in 1 .. col /\ schema[r[col]].expr \in OwnDicts /\ schema[r[col]].index = schema[col].index
    BY <1>1, <2>1, RootsFacts DEF r
  <2> HIDE DEF InputOf, BufferOf, Matches
  <2>5. PICK t : t = r[col]
    OBVIOUS
  <2>6. /\ t \in 1 .. col /\ t \in 1 .. Len(schema) /\ schema[t].expr \notin External \cup {"equal"}
        /\ 1 \in 1 .. Len(ops[t]) /\ DecChains[schema[t].expr][1] = "unffor"
    <3>1. t \in 1 .. col /\ t \in 1 .. Len(schema) /\ schema[t].expr \in OwnDicts
      BY <1>1, <2>4, <2>5
    <3>2. schema[t].expr \notin External \cup {"equal"}
      BY <3>1 DEF OwnDicts, Dictionaries, External
    <3>3. Len(DecChains[schema[t].expr]) \in Nat \ {0} /\ DecChains[schema[t].expr][1] = "unffor"
      <4>1. schema[t].expr \in Expressions \ {"fsst"}
        BY <1>1, <3>1, SchemaFacts
      <4>2. DecodersShaped(schema[t].expr)
        BY <4>1, RowOf
      <4> QED BY <3>1, <4>2 DEF DecodersShaped
    <3>4. Len(ops[t]) = IF t = col THEN m ELSE Len(DecChains[schema[t].expr])
      <4>1. t # col => t \in 1 .. col - 1
        BY <1>1, <3>1
      <4> QED BY <1>1, <4>1, DecodingFacts, Zenon
    <3> QED BY <1>1, <2>1, <3>1, <3>2, <3>3, <3>4
  <2>7. Op(<<t, 1>>).op = "unffor"
    BY <2>6, BuiltDecoder
  <2>8. InputOf(op) = <<t, 1>>
    <3>1. op \notin BehindBack
      BY <1>6 DEF BehindBack, BehindFirst
    <3> QED BY <1>6, <2>3, <2>5, <3>1, Zenon DEF InputOf
  <2>9. Matches(op, <<t, 1>>)
    <3>1. DecAccepts[op] = {"unffor"}
      BY <1>6 DEF BehindFirst, DecAccepts
    <3>2. <<t, 1>>[1] = t /\ schema[t].index = schema[col].index
      BY <2>4, <2>5
    <3> QED BY <2>7, <3>1, <3>2 DEF Matches
  <2>10. BufferOf(<<t, 1>>) = <<t, 1>>
    BY <2>7 DEF BufferOf
  <2>11. FromOf(schema, col, j) = <<t, 1>>
    <3>1. op \notin {"slpatch", "rsum"} /\ op \notin {"transpose", "rle_map", "rle_map_str", "fsst"}
      BY <1>6 DEF BehindFirst
    <3> QED BY <1>3, <1>6, <2>5, <3>1, Zenon
  <2> QED BY <2>8, <2>9, <2>10, <2>11 DEF j
<1>7. CASE op \notin BehindBack \cup BehindFirst
  <2>1. InputOf(op) = <<0, 0>>
    BY <1>7 DEF InputOf
  <2>2. Matches(op, <<0, 0>>) /\ BufferOf(<<0, 0>>) = <<0, 0>>
    BY DEF Matches, BufferOf
  <2>3. FromOf(schema, col, j) = <<0, 0>>
    BY <1>3, <1>7 DEF BehindBack
  <2> QED BY <2>1, <2>2, <2>3 DEF j
<1> QED BY <1>5, <1>6, <1>7

\* The references of the first n operators of a column, and a function with
\* another value at cl.
RefsOf(s, c, n) == [k \in 1 .. n |-> RefOf(s, c, k)]

With(s, cl, f, x) == [c \in 1 .. Len(s) |-> IF c = cl THEN x ELSE f[c]]

\* One operator more in the expression of a column.
LEMMA ExpressionsGrow ==
  ASSUME NEW s \in Schemas, NEW cl \in 1 .. Len(s), NEW os, NEW d, NEW a, NEW d1,
         ExpressionsRight(s, "decode", cl, os, d, a),
         Len(os[cl]) + 1 \in 1 .. Len(DecChains[ExprAt(s, cl)]),
         DecodersRight(s, cl, Len(os[cl]) + 1, d1)
  PROVE  /\ ExpressionsRight(s, "decode", cl, With(s, cl, os, RefsOf(s, cl, Len(os[cl]) + 1)),
                             With(s, cl, d, d1), a)
         /\ Len(With(s, cl, os, RefsOf(s, cl, Len(os[cl]) + 1))[cl]) = Len(os[cl]) + 1
<1> DEFINE m == Len(os[cl])
           os1 == RefsOf(s, cl, m + 1)
           os2 == With(s, cl, os, os1)
           d2 == With(s, cl, d, d1)
<1> USE DEF RefsOf, With
<1>1. /\ os = [c \in 1 .. Len(s) |-> os[c]] /\ d = [c \in 1 .. Len(s) |-> d[c]]
      /\ a = [c \in 1 .. Len(s) |-> a[c]]
      /\ \A c \in 1 .. Len(s) :
           ExpressionRight(s, c, "decode" = "read" \/ ("decode" = "decode" /\ c < cl), os[c], d[c], a[c])
      /\ \A c \in 1 .. Len(s) : "decode" = "encode" \/ ("decode" = "decode" /\ c > cl) => os[c] = <<>>
  BY Zenon DEF ExpressionsRight
<1>2. Len(s) \in Nat /\ cl \in Nat /\ ~ (cl < cl)
  BY SchemaFacts
<1>3. Len(os1) = m + 1
  <2>1. m + 1 \in Nat
    <3>1. m + 1 >= 1 /\ m + 1 \in Int
      OBVIOUS
    <3> QED BY <3>1
  <2> QED BY <2>1
<1>4. ("decode" = "read" \/ ("decode" = "decode" /\ cl < cl)) = FALSE
  BY <1>2
<1>5. ExpressionRight(s, cl, FALSE, os1, d1, a[cl])
  <2>1. ExpressionRight(s, cl, FALSE, os[cl], d[cl], a[cl])
    BY <1>1, <1>4, Zenon
  <2>2. a[cl] = 0
    BY <2>1, Zenon DEF ExpressionRight
  <2>3. Len(os1) \in 0 .. Len(DecChains[ExprAt(s, cl)])
    <3>1. Len(DecChains[ExprAt(s, cl)]) \in Nat
      <4>1. ExprAt(s, cl) \in Expressions \ {"fsst"}
        BY SchemaFacts DEF ExprAt
      <4> QED BY <4>1, RowOf DEF DecodersShaped
    <3>2. PICK L : L = Len(DecChains[ExprAt(s, cl)])
      OBVIOUS
    <3> QED BY <1>3, <3>1, <3>2
  <2>4. os1 = [k \in 1 .. Len(os1) |-> RefOf(s, cl, k)]
    BY <1>3
  <2> QED BY <1>3, <2>2, <2>3, <2>4, Zenon DEF ExpressionRight
<1>6. ASSUME NEW c \in 1 .. Len(s)
      PROVE  /\ ExpressionRight(s, c, "decode" = "read" \/ ("decode" = "decode" /\ c < cl), os2[c], d2[c], a[c])
             /\ "decode" = "encode" \/ ("decode" = "decode" /\ c > cl) => os2[c] = <<>>
  <2>1. CASE c = cl
    <3>1. os2[c] = os1 /\ d2[c] = d1
      BY <2>1
    <3>2. ~ ("decode" = "encode" \/ ("decode" = "decode" /\ c > cl))
      BY <1>2, <2>1
    <3> QED BY <1>4, <1>5, <2>1, <3>1, <3>2, Zenon
  <2>2. CASE c # cl
    <3>1. os2[c] = os[c] /\ d2[c] = d[c]
      BY <2>2
    <3> QED BY <1>1, <3>1, Zenon
  <2> QED BY <2>1, <2>2
<1>7. os2 = [c \in 1 .. Len(s) |-> os2[c]] /\ d2 = [c \in 1 .. Len(s) |-> d2[c]] /\ os2[cl] = os1
  OBVIOUS
<1> QED BY <1>1, <1>3, <1>6, <1>7, Zenon DEF ExpressionsRight

\* The cursor of the operands, before the operator at m + 1.
LEMMA CursorIs ==
  ASSUME NEW m, NEW e, Decoding(m, e), e # "equal"
  PROVE  (IF m = 0 THEN FirstOperand ELSE state.cur_operand) = LeftAt(e, m)
<1>1. /\ e \in Expressions \ {"fsst"} /\ schema[col] \in Choice /\ e = schema[col].expr
      /\ schema \in Schemas /\ col \in 1 .. Len(schema)
      /\ tokens[col] = TokensOf(schema[col], CountAt(e, Len(EncChains[e])))
      /\ state = DecoderState(schema, col, m)
  <2>1. e = schema[col].expr
    BY DEF Decoding
  <2> QED BY <2>1, DecodingFacts
<1>2. CASE m = 0
  <2> DEFINE C == CountAt(e, Len(EncChains[e]))
  <2>1. C \in Nat
    <3>1. EncodersCounted(e)
      BY <1>1, RowOf
    <3>2. Len(EncChains[e]) \in Nat /\ \A k \in 1 .. Len(EncChains[e]) : CountAt(e, k) \in Nat
      BY <3>1 DEF EncodersCounted
    <3> QED BY <3>2 DEF CountAt
  <2>2. Before(schema[col]) = IF e \in External THEN 1 ELSE 0
    <3>1. schema[col].of # 0 <=> schema[col].expr \in External \cup {"equal"}
      BY <1>1, SchemaFacts
    <3> QED BY <1>1, <3>1 DEF Before
  <2> HIDE DEF C
  <2>3. Len(tokens[col]) = Before(schema[col]) + C
    <3>1. tokens[col] = TokensOf(schema[col], C)
      BY <1>1 DEF C
    <3> QED BY <1>1, <2>1, <3>1, TokenAt
  <2>4. FirstOperand = IF e \in {"dict", "dict_str"} \cup Literal THEN 0 ELSE Len(tokens[col]) - 1
    BY <1>1 DEF FirstOperand
  <2>5. LeftAt(e, m) = IF e \in {"dict", "dict_str"} \cup Literal THEN 0
                       ELSE C - 1 + IF e \in External THEN 1 ELSE 0
    BY <1>2 DEF LeftAt, FirstOf, C
  <2>6. Len(tokens[col]) - 1 = C - 1 + IF e \in External THEN 1 ELSE 0
    BY <2>1, <2>2, <2>3
  <2> QED BY <1>2, <2>4, <2>5, <2>6
<1>3. CASE m # 0
  <2>1. state.cur_operand = LeftAt(ExprAt(schema, col), m)
    BY <1>1, <1>3 DEF DecoderState
  <2> QED BY <1>1, <1>3, <2>1 DEF ExprAt
<1> QED BY <1>2, <1>3

\* The invariant, behind an operator more.
LEMMA DecoderAdded ==
  ASSUME NEW m, NEW e, Decoding(m, e), m < Len(DecChains[e]),
         NEW os1, os1 = RefsOf(schema, col, m + 1),
         NEW d1, DecodersRight(schema, col, m + 1, d1),
         ops' = [ops EXCEPT ![col] = os1],
         dec' = With(schema, col, dec, d1),
         state' = DecoderState(schema, col, m + 1),
         bufs' \in BuffersOf(schema, dec'),
         UNCHANGED <<schema, phase, col, enc, segs, vec_idx, file, tokens, n_active, chunk, next_vec, out>>
  PROVE  IInv'
<1>1. /\ schema \in Schemas /\ phase = "decode" /\ col \in 1 .. Len(schema)
      /\ enc = <<>> /\ segs = <<>> /\ vec_idx = 0 /\ m = Len(ops[col]) /\ e = ExprAt(schema, col)
      /\ TokensRight(schema, phase, col, Len(enc), tokens)
      /\ FileRight(schema, phase, col, file)
      /\ ExpressionsRight(schema, "decode", col, ops, dec, n_active)
      /\ chunk = 0 /\ next_vec = 0
      /\ chunk \in 0 .. NumVectors /\ next_vec \in 0 .. NumVectors
      /\ OutRight(schema, next_vec, out)
  BY Zenon DEF Decoding, IInv, ExprAt
<1>2. m + 1 \in 1 .. Len(DecChains[ExprAt(schema, col)])
  <2>1. m \in 0 .. Len(DecChains[e]) /\ Len(DecChains[e]) \in Nat
    BY DecodingFacts
  <2> QED BY <1>1, <2>1
<1>3. ops' = With(schema, col, ops, os1)
  <2>1. ops = [c \in 1 .. Len(schema) |-> ops[c]]
    BY <1>1 DEF ExpressionsRight
  <2> QED BY <1>1, <2>1 DEF With
<1>4. ExpressionsRight(schema, "decode", col, ops', dec', n_active) /\ Len(ops'[col]) = m + 1
  <2>1. PICK os2, d2 : os2 = ops' /\ d2 = dec'
    OBVIOUS
  <2>2. os2 = With(schema, col, ops, os1) /\ d2 = With(schema, col, dec, d1)
    BY <1>3, <2>1
  <2>3. ExpressionsRight(schema, "decode", col, os2, d2, n_active) /\ Len(os2[col]) = m + 1
    <3>1. /\ schema \in Schemas /\ col \in 1 .. Len(schema)
          /\ ExpressionsRight(schema, "decode", col, ops, dec, n_active)
          /\ m = Len(ops[col])
      BY <1>1
    <3>2. Len(ops[col]) + 1 \in 1 .. Len(DecChains[ExprAt(schema, col)])
      BY <1>2, <3>1, Zenon
    <3>3. DecodersRight(schema, col, Len(ops[col]) + 1, d1)
      BY <3>1, Zenon
    <3>4. /\ ExpressionsRight(schema, "decode", col, With(schema, col, ops, RefsOf(schema, col, Len(ops[col]) + 1)),
                              With(schema, col, dec, d1), n_active)
          /\ Len(With(schema, col, ops, RefsOf(schema, col, Len(ops[col]) + 1))[col]) = Len(ops[col]) + 1
      BY <3>1, <3>2, <3>3, ExpressionsGrow, Zenon
    <3> QED BY <2>2, <3>1, <3>4, Zenon
  <2> QED BY <2>1, <2>3
<1>5. /\ schema' = schema /\ phase' = phase /\ col' = col /\ enc' = enc /\ segs' = segs
      /\ vec_idx' = vec_idx /\ file' = file /\ tokens' = tokens /\ n_active' = n_active
      /\ chunk' = chunk /\ next_vec' = next_vec /\ out' = out
  OBVIOUS
<1>6. /\ IF phase' = "encode" THEN EncoderRight(schema, col, enc', state', vec_idx', segs)
         ELSE enc' = <<>> /\ segs' = <<>> /\ vec_idx' = 0
      /\ phase' = "decode" => state' = DecoderState(schema, col, Len(ops'[col]))
      /\ phase' = "read" => state' = Fresh
      /\ chunk' # 0 => Fetched(schema, bufs', Len(schema), chunk')
      /\ phase' # "read" => chunk' = 0 /\ next_vec' = 0
      /\ phase' \in {"encode", "decode", "read"}
  BY <1>1, <1>4, <1>5
<1> QED BY <1>1, <1>4, <1>5, <1>6, Zenon DEF IInv

\* What is read of a column into nothing is a term.
LEMMA JunkIsTerm == ASSUME NEW s \in Schemas PROVE Junk \in Terms(s)
<1>1. Len(s) \in Nat
  BY SchemasAssumption
<1>2. NumVectors \in Nat
  BY NumVectorsAssumption
<1>3. <<>> \in Seq(Forms)
  OBVIOUS
<1> QED BY <1>1, <1>2, <1>3 DEF Junk, Terms

\* The last operator of a chain that is complete.
LEMMA LastRef ==
  ASSUME NEW s \in Schemas, NEW c \in 1 .. Len(s), ExprAt(s, c) # "equal"
  PROVE  RefOf(s, c, Len(DecChains[ExprAt(s, c)])) = <<c, OwnLen(ExprAt(s, c))>>
<1> DEFINE e == ExprAt(s, c)
<1>1. DecodersShaped(e)
  BY SchemaFacts, RowOf DEF ExprAt
<1>2. e \in External => Len(DecChains[e]) = 2
  BY <1>1 DEF DecodersShaped
<1> HIDE DEF e
<1>3. CASE e \in External
  <2>1. e # "equal" /\ "equal" \notin External
    BY DEF e, External
  <2>2. PICK L : L = Len(DecChains[e])
    OBVIOUS
  <2>3. RefOf(s, c, L) = IF L = 1 THEN <<s[c].of, 0>> ELSE <<c, L - 1>>
    BY <1>3, <2>1, Zenon DEF RefOf, e
  <2>4. OwnLen(e) = 1
    BY <1>3, <2>1, Zenon DEF OwnLen
  <2>5. L = 2
    BY <1>2, <1>3, <2>2
  <2>6. RefOf(s, c, L) = <<c, 1>>
    BY <2>3, <2>5
  <2> QED BY <2>2, <2>4, <2>6 DEF e
<1>4. CASE e \notin External
  BY <1>4 DEF RefOf, OwnLen, e
<1> QED BY <1>3, <1>4

\* The invariant, behind the expression of another column and behind the last
\* operator of one.
LEMMA SharedStep ==
  ASSUME NEW m, NEW e, Decoding(m, e), m < Len(DecChains[e]),
         DecChains[e][m + 1] \in {"shared", "first_column"}, ConstructDecoder
  PROVE  IInv'
<1> DEFINE op == DecChains[e][m + 1]
           of == tokens[col][1] + 1
           cur == IF m = 0 THEN FirstOperand ELSE state.cur_operand
<1>1. /\ e \in Expressions \ {"fsst"} /\ schema[col] \in Choice /\ e = schema[col].expr
      /\ schema \in Schemas /\ col \in 1 .. Len(schema) /\ Len(schema) \in Nat
      /\ HasDecoder(schema[col]) /\ m = Len(ops[col])
      /\ tokens[col] = TokensOf(schema[col], CountAt(e, Len(EncChains[e])))
      /\ state = DecoderState(schema, col, m)
      /\ DecodersRight(schema, col, m, dec[col])
      /\ m \in 0 .. Len(DecChains[e]) /\ Len(DecChains[e]) \in Nat
  <2>1. e = schema[col].expr /\ m = Len(ops[col])
    BY DEF Decoding
  <2> QED BY <2>1, DecodingFacts
<1>2. /\ m = 0 /\ (op = "shared" => e = "equal") /\ (op = "first_column" => e \in External)
      /\ Len(DecChains[e]) > 0 /\ "equal" \notin External
  <2>1. DecodersShaped(e)
    BY <1>1, RowOf
  <2>2. (m + 1) \in 1 .. Len(DecChains[e])
    BY <1>1
  <2>3. (op = "shared" => e = "equal") /\ (op = "first_column" => e \in External)
    BY <2>1, <2>2 DEF DecodersShaped
  <2>4. /\ e = "equal" => DecChains[e] = <<"shared">>
        /\ e \in External => Len(DecChains[e]) = 2 /\ DecChains[e][1] = "first_column" /\ DecChains[e][2] = e
    BY <2>1 DEF DecodersShaped
  <2>5. e = "equal" => m = 0
    <3>1. e = "equal" => Len(DecChains[e]) = 1
      <4>1. ASSUME e = "equal" PROVE Len(DecChains[e]) = 1
        <5>1. PICK ch : ch = DecChains[e]
          OBVIOUS
        <5>2. ch = <<"shared">>
          BY <2>4, <4>1, <5>1, Zenon
        <5> QED BY <5>1, <5>2
      <4> QED BY <4>1
    <3> QED BY <1>1, <3>1
  <2>6. "equal" \notin External /\ "first_column" \notin External
    BY DEF External
  <2>7. e \in External /\ op = "first_column" => m = 0
    <3>1. e \in External => m + 1 \in {1, 2}
      BY <1>1, <2>4
    <3> QED BY <1>1, <2>4, <2>6, <3>1
  <2> QED BY <1>1, <2>3, <2>5, <2>6, <2>7
<1>3. e \in External \cup {"equal"}
  BY <1>2
<1>4. of = schema[col].of /\ of \in 1 .. col - 1
  <2>1. schema[col].of # 0 /\ schema[col].of \in 0 .. col - 1
    BY <1>1, <1>3, SchemaFacts
  <2>2. Before(schema[col]) = 1
    BY <2>1 DEF Before
  <2>3. CountAt(e, Len(EncChains[e])) \in Nat
    <3>1. EncodersCounted(e)
      BY <1>1, RowOf
    <3>2. Len(EncChains[e]) \in Nat /\ \A k \in 1 .. Len(EncChains[e]) : CountAt(e, k) \in Nat
      BY <3>1 DEF EncodersCounted
    <3> QED BY <3>2 DEF CountAt
  <2>4. tokens[col][1] = schema[col].of - 1
    <3>1. PICK ch, C : ch = schema[col] /\ C = CountAt(e, Len(EncChains[e]))
      OBVIOUS
    <3>2. TokensOf(ch, C)[1] = ch.of - 1
      BY <1>1, <2>2, <2>3, <3>1, TokenAt, Zenon
    <3> QED BY <1>1, <3>1, <3>2, Zenon
  <2>5. PICK a : a = schema[col].of
    OBVIOUS
  <2>6. PICK b : b = tokens[col][1]
    OBVIOUS
  <2>7. b = a - 1 /\ a # 0 /\ a \in 0 .. col - 1 /\ col \in Nat
    BY <1>1, <2>1, <2>4, <2>5, <2>6
  <2>8. b + 1 = a /\ a \in 1 .. col - 1
    BY <2>7
  <2> QED BY <2>5, <2>6, <2>8
<1>5. /\ op = "first_column" =>
           /\ ops' = [ops EXCEPT ![col] = <<<<of, 0>>>>]
           /\ state' = [state EXCEPT !.cur_operand = IF e = "fsst_dict" THEN cur ELSE cur + 1]
           /\ UNCHANGED <<schema, phase, col, encVars, dec, n_active, readVars>>
      /\ op = "shared" =>
           /\ ops' = [ops EXCEPT ![col] = <<Last(ops[of])>>]
           /\ UNCHANGED <<schema, phase, col, state, encVars, dec, n_active, readVars>>
  <2>1. op = Chain[Len(ops[col]) + 1]
    BY <1>1 DEF Chain
  <2>2. cur = IF Len(ops[col]) = 0 THEN FirstOperand ELSE state.cur_operand
    BY <1>1
  <2>3. "shared" # "first_column"
    OBVIOUS
  <2> HIDE DEF op, of, cur
  <2>4. op = "first_column" =>
           /\ ops' = [ops EXCEPT ![col] = <<<<tokens[col][1] + 1, 0>>>>]
           /\ state' = [state EXCEPT !.cur_operand = IF e = "fsst_dict" THEN cur ELSE cur + 1]
           /\ UNCHANGED <<schema, phase, col, encVars, dec, n_active, readVars>>
    BY <1>1, <2>1, <2>2, <2>3 DEF ConstructDecoder
  <2>5. op = "shared" =>
           /\ ops' = [ops EXCEPT ![col] = <<Last(ops[tokens[col][1] + 1])>>]
           /\ UNCHANGED <<schema, phase, col, state, encVars, dec, n_active, readVars>>
    BY <1>1, <2>1, <2>2, <2>3 DEF ConstructDecoder
  <2> QED BY <2>4, <2>5, Zenon DEF of
<1> HIDE DEF op, of, cur
<1>6. DecodersRight(schema, col, m + 1, dec[col])
  <2>1. OwnAt(ExprAt(schema, col), m) = OwnAt(ExprAt(schema, col), m + 1)
    BY <1>1, <1>2, <1>3 DEF OwnAt, ExprAt
  <2> QED BY <1>1, <2>1 DEF DecodersRight
<1> USE DEF RefsOf
<1>7. \E os1 : os1 = RefsOf(schema, col, m + 1) /\ ops' = [ops EXCEPT ![col] = os1]
  <2>1. CASE op = "first_column"
    <3>1. RefOf(schema, col, 1) = <<of, 0>>
      BY <1>1, <1>2, <1>4, <2>1 DEF RefOf, ExprAt
    <3>2. <<<<of, 0>>>> = [k \in 1 .. m + 1 |-> RefOf(schema, col, k)]
      <4>1. PICK x : x = <<of, 0>>
        OBVIOUS
      <4>2. <<x>> = [k \in 1 .. 1 |-> RefOf(schema, col, k)]
        BY <3>1, <4>1
      <4> QED BY <1>2, <4>1, <4>2
    <3> QED BY <1>5, <2>1, <3>2, Zenon
  <2>2. CASE op = "shared"
    <3>1. RefOf(schema, col, 1) = <<of, OwnLen(ExprAt(schema, of))>>
      BY <1>1, <1>2, <1>4, <2>2 DEF RefOf, ExprAt
    <3>2. Last(ops[of]) = <<of, OwnLen(ExprAt(schema, of))>>
      <4>1. /\ Len(ops[of]) = Len(DecChains[schema[of].expr])
            /\ ops[of] = [k \in 1 .. Len(ops[of]) |-> RefOf(schema, of, k)]
        BY <1>4, DecodingFacts, Zenon
      <4>2. of \in 1 .. Len(schema) /\ ExprAt(schema, of) # "equal"
        BY <1>1, <1>2, <1>4, <2>2, SchemaFacts DEF ExprAt
      <4>3. Len(DecChains[schema[of].expr]) \in Nat \ {0}
        BY <1>1, <4>2, SchemaFacts, RowOf DEF DecodersShaped
      <4>4. PICK L : L = Len(ops[of])
        OBVIOUS
      <4>5. ops[of][L] = RefOf(schema, of, L)
        BY <4>1, <4>3, <4>4
      <4>6. RefOf(schema, of, L) = <<of, OwnLen(ExprAt(schema, of))>>
        BY <1>1, <4>1, <4>2, <4>4, LastRef DEF ExprAt
      <4> QED BY <4>4, <4>5, <4>6 DEF Last
    <3>3. <<Last(ops[of])>> = [k \in 1 .. m + 1 |-> RefOf(schema, col, k)]
      <4>1. PICK x : x = Last(ops[of])
        OBVIOUS
      <4>2. <<x>> = [k \in 1 .. 1 |-> RefOf(schema, col, k)]
        BY <3>1, <3>2, <4>1
      <4> QED BY <1>2, <4>1, <4>2
    <3> QED BY <1>5, <2>2, <3>3, Zenon
  <2>3. op \in {"shared", "first_column"}
    BY DEF op
  <2> QED BY <2>1, <2>2, <2>3
<1> HIDE DEF RefsOf
<1>8. state' = DecoderState(schema, col, m + 1)
  <2>1. DecodersCounted(e)
    BY <1>1, RowOf
  <2>2. (m + 1) - 1 = 0 /\ m + 1 = 1 /\ 1 \in 1 .. Len(DecChains[e])
    BY <1>1, <1>2
  <2>3. CASE op = "first_column"
    <3>1. LeftAt(e, 1) = IF e = "fsst_dict" THEN LeftAt(e, 0) ELSE LeftAt(e, 0) + 1
      <4>1. DecChains[e][1] = "first_column"
        BY <1>2, <2>2, <2>3 DEF op
      <4> QED BY <2>1, <2>2, <4>1 DEF DecodersCounted
    <3>2. cur = LeftAt(e, 0)
      <4>1. e # "equal"
        BY <1>2, <2>3
      <4>2. cur = LeftAt(e, m)
        BY <4>1, CursorIs DEF cur
      <4> QED BY <1>2, <4>2
    <3>3. state = [cur_operator |-> 0, cur_operand |-> 0]
      BY <1>1, <1>2 DEF DecoderState
    <3>4. PICK y : y = IF e = "fsst_dict" THEN cur ELSE cur + 1
      OBVIOUS
    <3>5. state' = [cur_operator |-> 0, cur_operand |-> y]
      BY <1>5, <2>3, <3>3, <3>4
    <3>6. y = LeftAt(e, 1)
      BY <3>1, <3>2, <3>4
    <3> QED BY <1>1, <2>2, <3>5, <3>6 DEF DecoderState, ExprAt
  <2>4. CASE op = "shared"
    <3>1. LeftAt(e, 1) = 0
      <4>1. DecChains[e][1] = "shared"
        BY <1>2, <2>2, <2>4 DEF op
      <4> QED BY <2>1, <2>2, <4>1 DEF DecodersCounted
    <3>2. state' = [cur_operator |-> 0, cur_operand |-> 0]
      BY <1>1, <1>2, <1>5, <2>4 DEF DecoderState
    <3> QED BY <1>1, <2>2, <3>1, <3>2 DEF DecoderState, ExprAt
  <2>5. op \in {"shared", "first_column"}
    BY DEF op
  <2> QED BY <2>3, <2>4, <2>5
<1>9. UNCHANGED <<schema, phase, col, encVars, dec, n_active, readVars>>
  <2>1. op \in {"shared", "first_column"}
    BY DEF op
  <2> QED BY <1>5, <2>1
<1>10. dec' = With(schema, col, dec, dec[col]) /\ bufs' \in BuffersOf(schema, dec')
  <2>1. dec = [c \in 1 .. Len(schema) |-> dec[c]] /\ bufs \in BuffersOf(schema, dec)
    BY DEF Decoding, IInv, ExpressionsRight
  <2>2. dec' = dec /\ bufs' = bufs
    BY <1>9 DEF readVars
  <2>3. \A c \in 1 .. Len(schema) : dec[c] = IF c = col THEN dec[col] ELSE dec[c]
    OBVIOUS
  <2> QED BY <2>1, <2>2, <2>3, Zenon DEF With
<1>11. UNCHANGED <<schema, phase, col, enc, segs, vec_idx, file, tokens, n_active, chunk, next_vec, out>>
  BY <1>9 DEF encVars, readVars
<1>12. PICK os1 : os1 = RefsOf(schema, col, m + 1) /\ ops' = [ops EXCEPT ![col] = os1]
  BY <1>7
<1>13. PICK d1 : d1 = dec[col]
  OBVIOUS
<1>14. dec' = With(schema, col, dec, d1) /\ DecodersRight(schema, col, m + 1, d1)
  BY <1>6, <1>10, <1>13
<1> QED BY <1>8, <1>10, <1>11, <1>12, <1>14, DecoderAdded

\* The invariant, behind an operator of the column itself.
LEMMA OwnStep ==
  ASSUME NEW m, NEW e, Decoding(m, e), m < Len(DecChains[e]),
         DecChains[e][m + 1] \notin {"shared", "first_column"}, ConstructDecoder
  PROVE  IInv'
<1> DEFINE op == DecChains[e][m + 1]
           j == Len(dec[col]) + 1
           cur == LeftAt(e, m)
           o == [op |-> op, indexes |-> Indexes(op, cur), views |-> DecViews(op),
                 from |-> BufferOf(InputOf(op))]
<1>1. /\ e \in Expressions \ {"fsst"} /\ e = schema[col].expr
      /\ schema \in Schemas /\ col \in 1 .. Len(schema) /\ Len(schema) \in Nat
      /\ HasDecoder(schema[col]) /\ m = Len(ops[col])
      /\ state = DecoderState(schema, col, m)
      /\ DecodersRight(schema, col, m, dec[col]) /\ ops[col] = [k \in 1 .. m |-> RefOf(schema, col, k)]
      /\ m \in 0 .. Len(DecChains[e]) /\ Len(DecChains[e]) \in Nat
      /\ m + 1 \in 1 .. Len(DecChains[e]) /\ (m + 1) - 1 = m
  <2>1. e = schema[col].expr /\ m = Len(ops[col])
    BY DEF Decoding
  <2>2. m \in 0 .. Len(DecChains[e]) /\ Len(DecChains[e]) \in Nat
    BY DecodingFacts
  <2>3. m + 1 \in 1 .. Len(DecChains[e]) /\ (m + 1) - 1 = m
    BY <2>2
  <2> QED BY <2>1, <2>2, <2>3, DecodingFacts
<1>2. /\ e # "equal" /\ Len(dec[col]) = OwnAt(e, m) /\ Len(dec[col]) \in Nat
      /\ PlaceOf(e, j) = m + 1 /\ OwnOp(e, j) = op
      /\ e \in External => m = 1 /\ Len(dec[col]) = 0
      /\ e \notin External => Len(dec[col]) = m
  BY PlaceIs
<1>3. Matches(op, InputOf(op)) /\ BufferOf(InputOf(op)) = FromOf(schema, col, j)
  BY FrontRight
<1>4. \A i \in 1 .. Len(DecViews(op)) : Indexes(op, cur)[i] = Starts[e][m + 1] + i - 1
  BY IndexesRight
<1>5. (IF Len(ops[col]) = 0 THEN FirstOperand ELSE state.cur_operand) = cur
  BY <1>1, <1>2, CursorIs
<1> HIDE DEF op, j, cur, o
<1>6. ConstructOperator(op, cur)
  <2>1. op = Chain[Len(ops[col]) + 1]
    BY <1>1 DEF Chain, op
  <2>2. op \notin {"shared", "first_column"}
    BY DEF op
  <2> QED BY <1>1, <1>5, <2>1, <2>2 DEF ConstructDecoder
<1>7. /\ dec' = [dec EXCEPT ![col] = Append(@, o)]
      /\ ops' = [ops EXCEPT ![col] = Append(@, <<col, Len(dec[col]) + 1>>)]
      /\ bufs' = [bufs EXCEPT ![col] = Append(@, Junk)]
      /\ state' = [state EXCEPT !.cur_operand = cur - NumOperands[op]]
      /\ UNCHANGED <<schema, phase, col, encVars, n_active, chunk, next_vec, out>>
  BY <1>3, <1>6, Zenon DEF ConstructOperator, o
<1>8. ops' = [ops EXCEPT ![col] = RefsOf(schema, col, m + 1)]
  <2>1. RefOf(schema, col, m + 1) = <<col, Len(dec[col]) + 1>>
    <3>1. CASE e \in External
      <4>1. m + 1 # 1 /\ (m + 1) - 1 = Len(dec[col]) + 1
        BY <1>2, <3>1
      <4>2. RefOf(schema, col, m + 1) = <<col, (m + 1) - 1>>
        BY <1>1, <1>2, <3>1, <4>1 DEF RefOf, ExprAt
      <4> QED BY <4>1, <4>2
    <3>2. CASE e \notin External
      BY <1>1, <1>2, <3>2 DEF RefOf, ExprAt
    <3> QED BY <3>1, <3>2
  <2>2. PICK x : x = <<col, Len(dec[col]) + 1>>
    OBVIOUS
  <2>3. Append(ops[col], x) = RefsOf(schema, col, m + 1)
    <3>1. PICK t : t = RefsOf(schema, col, m + 1)
      OBVIOUS
    <3>2. m \in Nat
      BY <1>1
    <3>3. t = [k \in 1 .. m + 1 |-> RefOf(schema, col, k)]
      BY <3>1 DEF RefsOf
    <3>4. Sequential(t) /\ Len(t) = m + 1
      BY <3>2, <3>3 DEF Sequential
    <3>5. PICK s : s = ops[col]
      OBVIOUS
    <3>6. Sequential(s) /\ Len(s) = m
      BY <1>1, <3>2, <3>5 DEF Sequential
    <3>7. (\A k \in 1 .. Len(s) : t[k] = s[k]) /\ t[Len(s) + 1] = x
      BY <1>1, <2>1, <2>2, <3>2, <3>3, <3>5, <3>6
    <3>8. Append(s, x) = t
      BY <3>4, <3>6, <3>7, AppendIs
    <3> QED BY <3>1, <3>5, <3>8
  <2> QED BY <1>7, <2>2, <2>3
<1>9. DecoderRight(schema, col, j, o)
  <2>1. OwnOp(ExprAt(schema, col), j) = op /\ PlaceOf(ExprAt(schema, col), j) = m + 1
    BY <1>1, <1>2 DEF ExprAt
  <2>2. o.op = op /\ o.views = DecViews(op) /\ o.from = FromOf(schema, col, j) /\ o.indexes = Indexes(op, cur)
    BY <1>3 DEF o
  <2>3. \A i \in 1 .. Len(DecViews(op)) : o.indexes[i] = Starts[ExprAt(schema, col)][m + 1] + i - 1
    BY <1>1, <1>4, <2>2 DEF ExprAt
  <2> QED BY <2>1, <2>2, <2>3, Zenon DEF DecoderRight
<1>10. \E d1 : dec'[col] = d1 /\ DecodersRight(schema, col, m + 1, d1) /\ dec' = With(schema, col, dec, d1)
               /\ Len(d1) = j
  <2>1. PICK d : d = dec[col]
    OBVIOUS
  <2>2. /\ Len(d) = OwnAt(e, m) /\ d = [k \in 1 .. Len(d) |-> d[k]] /\ Len(d) \in Nat /\ j = Len(d) + 1
        /\ \A k \in 1 .. Len(d) : DecoderRight(schema, col, k, d[k])
    BY <1>1, <1>2, <2>1 DEF DecodersRight, ExprAt, j
  <2>3. PICK d1 : d1 = Append(d, o)
    OBVIOUS
  <2>4. /\ Sequential(d1) /\ Len(d1) = Len(d) + 1 /\ (\A k \in 1 .. Len(d) : d1[k] = d[k])
        /\ d1[Len(d) + 1] = o
    <3>1. Sequential(d)
      BY <2>2 DEF Sequential
    <3> QED BY <2>3, <3>1, OneLonger
  <2>5. Len(d1) = OwnAt(ExprAt(schema, col), m + 1)
    <3>1. OwnAt(e, m + 1) = OwnAt(e, m) + 1
      <4>1. m + 1 # 0 /\ m \in Nat
        BY <1>1
      <4>2. CASE e \in External
        <5>1. m = 1 /\ (m + 1) - 1 = 1
          BY <1>2, <4>2
        <5> QED BY <1>2, <4>2, <5>1 DEF OwnAt
      <4>3. CASE e \notin External
        BY <1>2, <4>1, <4>3 DEF OwnAt
      <4> QED BY <4>2, <4>3
    <3> QED BY <1>1, <2>2, <2>4, <3>1 DEF ExprAt
  <2>6. \A k \in 1 .. Len(d1) : DecoderRight(schema, col, k, d1[k])
    <3> SUFFICES ASSUME NEW k \in 1 .. Len(d1) PROVE DecoderRight(schema, col, k, d1[k])
      OBVIOUS
    <3>1. k \in 1 .. Len(d) \/ k = Len(d) + 1
      BY <2>2, <2>4
    <3> QED BY <1>9, <2>2, <2>4, <3>1
  <2>7. DecodersRight(schema, col, m + 1, d1)
    <3>1. d1 = [k \in 1 .. Len(d1) |-> d1[k]]
      BY <2>4 DEF Sequential
    <3> QED BY <2>5, <2>6, <3>1, Zenon DEF DecodersRight
  <2>8. dec = [c \in 1 .. Len(schema) |-> dec[c]]
    BY DEF Decoding, IInv, ExpressionsRight
  <2>9. dec' = With(schema, col, dec, d1) /\ dec'[col] = d1
    BY <1>1, <1>7, <2>1, <2>3, <2>8 DEF With
  <2>10. Len(d1) = j
    BY <2>2, <2>4
  <2> QED BY <2>7, <2>9, <2>10
<1>11. PICK d1 : /\ dec'[col] = d1 /\ DecodersRight(schema, col, m + 1, d1) /\ dec' = With(schema, col, dec, d1)
                 /\ Len(d1) = j
  BY <1>10
<1>12. bufs' \in BuffersOf(schema, dec')
  <2>1. bufs \in [1 .. Len(schema) -> Seq(Terms(schema))] /\ \A c \in 1 .. Len(schema) : Len(bufs[c]) = Len(dec[c])
    BY DEF Decoding, IInv, BuffersOf
  <2>2. Junk \in Terms(schema)
    BY <1>1, JunkIsTerm
  <2>3. PICK T, b : T = Terms(schema) /\ b = bufs[col]
    OBVIOUS
  <2>4. b \in Seq(T) /\ Len(b) = Len(dec[col])
    BY <1>1, <2>1, <2>3
  <2>5. Append(b, Junk) \in Seq(T) /\ Len(Append(b, Junk)) = Len(b) + 1
    BY <2>2, <2>3, <2>4
  <2>6. PICK b1 : b1 = Append(b, Junk)
    OBVIOUS
  <2>7. bufs' = [bufs EXCEPT ![col] = b1]
    BY <1>7, <2>3, <2>6
  <2>8. bufs' \in [1 .. Len(schema) -> Seq(T)]
    BY <1>1, <2>1, <2>3, <2>5, <2>6, <2>7
  <2>9. \A c \in 1 .. Len(schema) : Len(bufs'[c]) = Len(dec'[c])
    <3> SUFFICES ASSUME NEW c \in 1 .. Len(schema) PROVE Len(bufs'[c]) = Len(dec'[c])
      OBVIOUS
    <3>1. dec'[c] = IF c = col THEN d1 ELSE dec[c]
      BY <1>11 DEF With
    <3>2. bufs'[c] = IF c = col THEN b1 ELSE bufs[c]
      BY <2>1, <2>7
    <3>3. Len(b1) = Len(d1)
      BY <1>11, <2>4, <2>5, <2>6 DEF j
    <3> QED BY <2>1, <3>1, <3>2, <3>3
  <2> QED BY <2>3, <2>8, <2>9 DEF BuffersOf
<1>13. state' = DecoderState(schema, col, m + 1)
  <2>1. LeftAt(e, m + 1) = cur - NumOperands[op]
    <3>1. DecodersCounted(e)
      BY <1>1, RowOf
    <3>2. op \notin {"shared", "first_column"}
      BY DEF op
    <3>3. \A k \in 1 .. Len(DecChains[e]) : DecChains[e][k] \notin {"shared", "first_column"} =>
            LeftAt(e, k) = LeftAt(e, k - 1) - NumOperands[DecChains[e][k]]
      BY <3>1 DEF DecodersCounted
    <3>4. LeftAt(e, m + 1) = LeftAt(e, (m + 1) - 1) - NumOperands[op]
      BY <1>1, <3>2, <3>3, Zenon DEF op
    <3> QED BY <1>1, <3>4 DEF cur
  <2>2. m + 1 # 0
    BY <1>1
  <2>3. PICK x, y : state = [cur_operator |-> 0, cur_operand |-> x] /\ y = cur - NumOperands[op]
    BY <1>1 DEF DecoderState
  <2>4. state' = [cur_operator |-> 0, cur_operand |-> y]
    BY <1>7, <2>3
  <2>5. DecoderState(schema, col, m + 1) = [cur_operator |-> 0, cur_operand |-> y]
    BY <1>1, <2>1, <2>2, <2>3 DEF DecoderState, ExprAt
  <2> QED BY <2>4, <2>5
<1>14. UNCHANGED <<schema, phase, col, enc, segs, vec_idx, file, tokens, n_active, chunk, next_vec, out>>
  BY <1>7 DEF encVars
<1>15. PICK os1 : os1 = RefsOf(schema, col, m + 1)
  OBVIOUS
<1>16. ops' = [ops EXCEPT ![col] = os1]
  BY <1>8, <1>15
<1> QED BY <1>11, <1>12, <1>13, <1>14, <1>15, <1>16, DecoderAdded

\* Each operator of a decoding chain finds its segments and the buffer it reads.
LEMMA DecodeStep == IInv /\ ConstructDecoder => IInv'
<1> SUFFICES ASSUME IInv, ConstructDecoder PROVE IInv'
  OBVIOUS
<1>1. PICK m, e : m = Len(ops[col]) /\ e = schema[col].expr
  OBVIOUS
<1>2. phase = "decode" /\ m < Len(DecChains[e])
  BY <1>1 DEF ConstructDecoder, Chain
<1>3. Decoding(m, e)
  BY <1>1, <1>2 DEF Decoding
<1> QED BY <1>2, <1>3, SharedStep, OwnStep

-----------------------------------------------------------------------------
(* The active operators *)

\* The operators of an expression that are counted are the first ones.
LEMMA ActiveAre ==
  ASSUME NEW e, NEW m, Decoding(m, e), m = Len(DecChains[e])
  PROVE  {k \in DOMAIN ops[col] : ops[col][k][2] # 0 /\ Op(ops[col][k]).op \in ActiveOps}
           = 1 .. ActiveAt(schema, col) /\ ActiveAt(schema, col) \in Nat
<1> DEFINE Set == {k \in DOMAIN ops[col] : ops[col][k][2] # 0 /\ Op(ops[col][k]).op \in ActiveOps}
<1>1. /\ e \in Expressions \ {"fsst"} /\ e = schema[col].expr
      /\ schema \in Schemas /\ col \in 1 .. Len(schema) /\ Len(schema) \in Nat
      /\ m = Len(ops[col]) /\ DecodersRight(schema, col, m, dec[col])
      /\ ops[col] = [k \in 1 .. m |-> RefOf(schema, col, k)]
  <2>1. e = schema[col].expr /\ m = Len(ops[col])
    BY DEF Decoding
  <2> QED BY <2>1, DecodingFacts
<1>2. /\ m \in Nat \ {0} /\ ActiveOf(e) \in 0 .. m
      /\ (e = "equal" => DecChains[e] = <<"shared">>)
      /\ (e \in External => Len(DecChains[e]) = 2 /\ DecChains[e][2] = e)
      /\ \A k \in 1 .. m : DecChains[e][k] \in ActiveOps <=> k <= ActiveOf(e)
  <2>1. DecodersShaped(e)
    BY <1>1, RowOf
  <2> QED BY <2>1 DEF DecodersShaped
<1>3. \A x \in External : ActiveOf(x) = 0
  BY DEF ActiveOf, External, OwnDicts, Dictionaries, Patchable, RleExprs, FsstDeltas
<1>4. "equal" \notin External
  BY DEF External
<1>5. \A k \in 1 .. m : ops[col][k] = RefOf(schema, col, k)
  BY <1>1
<1>6. DOMAIN ops[col] = 1 .. m
  BY <1>1
<1>7. CASE e \notin External \cup {"equal"}
  <2>1. ActiveAt(schema, col) = ActiveOf(e)
    BY <1>1, <1>7 DEF ActiveAt, ExprAt
  <2>2. ASSUME NEW k \in 1 .. m
        PROVE  (ops[col][k][2] # 0 /\ Op(ops[col][k]).op \in ActiveOps) <=> k <= ActiveOf(e)
    <3>1. col \in 1 .. col /\ k \in 1 .. Len(ops[col])
      BY <1>1
    <3>2. ops[col][k] = <<col, k>> /\ Op(<<col, k>>).op = DecChains[e][k]
      BY <1>1, <1>7, <3>1, BuiltDecoder
    <3>3. ops[col][k][2] # 0
      BY <3>2
    <3> QED BY <1>2, <3>2, <3>3
  <2>3. Set = {k \in 1 .. m : k <= ActiveOf(e)}
    BY <1>6, <2>2
  <2>4. {k \in 1 .. m : k <= ActiveOf(e)} = 1 .. ActiveOf(e)
    BY <1>2
  <2> QED BY <1>2, <2>1, <2>3, <2>4
<1>8. CASE e \in External
  <2>1. ActiveAt(schema, col) = 0 /\ m = 2
    BY <1>1, <1>2, <1>3, <1>4, <1>8 DEF ActiveAt, ExprAt
  <2>2. ASSUME NEW k \in 1 .. m PROVE ~ (ops[col][k][2] # 0 /\ Op(ops[col][k]).op \in ActiveOps)
    <3>1. CASE k = 1
      <4>1. ops[col][k] = <<schema[col].of, 0>>
        BY <1>1, <1>4, <1>5, <1>8, <3>1 DEF RefOf, ExprAt
      <4> QED BY <4>1
    <3>2. CASE k = 2
      <4>1. ops[col][k] = <<col, 1>>
        BY <1>1, <1>4, <1>5, <1>8, <3>2 DEF RefOf, ExprAt
      <4>2. Len(dec[col]) = 1 /\ DecoderRight(schema, col, 1, dec[col][1])
        <5>1. OwnAt(e, m) = 1
          BY <1>4, <1>8, <2>1 DEF OwnAt
        <5> QED BY <1>1, <5>1 DEF DecodersRight, ExprAt
      <4>3. dec[col][1].op = e
        <5>1. OwnOp(e, 1) = e
          BY <1>2, <1>8 DEF OwnOp, PlaceOf
        <5> QED BY <1>1, <4>2, <5>1 DEF DecoderRight, ExprAt
      <4>4. e \notin ActiveOps
        BY <1>8 DEF External, ActiveOps
      <4> QED BY <4>1, <4>3, <4>4 DEF Op
    <3> QED BY <2>1, <3>1, <3>2
  <2>3. Set = {}
    BY <1>6, <2>2
  <2> QED BY <2>1, <2>3
<1>9. CASE e = "equal"
  <2> DEFINE of == schema[col].of
             eo == schema[of].expr
             n == OwnLen(eo)
  <2>1. of \in 1 .. col - 1 /\ eo # "equal" /\ of \in 1 .. Len(schema)
    <3>1. of # 0 /\ of \in 0 .. col - 1 /\ eo # "equal"
      <4>1. schema \in Schemas /\ col \in 1 .. Len(schema) /\ schema[col].expr = "equal"
        BY <1>1, <1>9
      <4>2. schema[col].of \in 0 .. col - 1 /\ schema[schema[col].of].expr # "equal"
        BY <4>1, SchemaFacts, Zenon
      <4>3. schema[col].of # 0
        BY <4>1, SchemaFacts
      <4> QED BY <4>2, <4>3, Zenon
    <3> QED BY <1>1, <3>1
  <2>2. eo \in Expressions \ {"fsst"}
    BY <1>1, <2>1, SchemaFacts
  <2>3. /\ Len(DecChains[eo]) \in Nat \ {0} /\ ActiveOf(eo) \in 0 .. Len(DecChains[eo])
        /\ (eo \in External => Len(DecChains[eo]) = 2 /\ DecChains[eo][2] = eo)
        /\ \A k \in 1 .. Len(DecChains[eo]) : DecChains[eo][k] \in ActiveOps <=> k <= ActiveOf(eo)
    BY <2>2, RowOf DEF DecodersShaped
  <2>4. m = 1
    <3>1. PICK ch : ch = DecChains[e]
      OBVIOUS
    <3>2. ch = <<"shared">>
      BY <1>2, <1>9, <3>1, Zenon
    <3> QED BY <3>1, <3>2
  <2>5. ops[col][1] = <<of, n>>
    BY <1>1, <1>4, <1>5, <1>9, <2>4 DEF RefOf, ExprAt
  <2>6. n \in Nat \ {0}
    BY <2>1, <2>3 DEF OwnLen
  <2>7. /\ Len(ops[of]) = Len(DecChains[eo]) /\ DecodersRight(schema, of, Len(ops[of]), dec[of])
    BY <2>1, DecodingFacts, Zenon
  <2>8. dec[of][n].op = OwnOp(eo, n)
    <3>1. Len(dec[of]) = n
      <4>1. Len(dec[of]) = OwnAt(eo, Len(DecChains[eo]))
        BY <2>7 DEF DecodersRight, ExprAt
      <4> QED BY <2>1, <2>3, <4>1 DEF OwnAt, OwnLen
    <3>2. n \in 1 .. Len(dec[of])
      BY <2>6, <3>1
    <3> QED BY <2>7, <3>2 DEF DecodersRight, DecoderRight, ExprAt
  <2> HIDE DEF n, eo, of
  <2>9. OwnOp(eo, n) \in ActiveOps <=> n <= ActiveOf(eo)
    <3>1. CASE eo \in External
      <4>1. n = 1 /\ ActiveOf(eo) = 0
        BY <1>3, <2>1, <3>1 DEF OwnLen, n
      <4>2. OwnOp(eo, n) = eo
        BY <2>3, <3>1 DEF OwnOp, PlaceOf
      <4>3. eo \notin ActiveOps
        BY <3>1 DEF External, ActiveOps
      <4> QED BY <4>1, <4>2, <4>3
    <3>2. CASE eo \notin External
      <4>1. n = Len(DecChains[eo]) /\ OwnOp(eo, n) = DecChains[eo][n]
        BY <2>1, <3>2 DEF OwnLen, n, OwnOp, PlaceOf
      <4> QED BY <2>3, <4>1
    <3> QED BY <3>1, <3>2
  <2>10. ActiveAt(schema, col) = IF n <= ActiveOf(eo) THEN 1 ELSE 0
    BY <1>1, <1>9 DEF ActiveAt, ExprAt, n, eo, of
  <2>11. (ops[col][1][2] # 0 /\ Op(ops[col][1]).op \in ActiveOps) <=> n <= ActiveOf(eo)
    <3>1. ops[col][1][2] = n /\ Op(ops[col][1]) = dec[of][n]
      BY <2>5 DEF Op
    <3> QED BY <2>6, <2>8, <2>9, <3>1
  <2>12. Set = IF n <= ActiveOf(eo) THEN {1} ELSE {}
    <3>1. DOMAIN ops[col] = {1}
      BY <1>6, <2>4
    <3> HIDE DEF Op
    <3> QED BY <2>11, <3>1
  <2> HIDE DEF Set
  <2>13. Set = 1 .. ActiveAt(schema, col) /\ ActiveAt(schema, col) \in Nat
    <3>1. CASE n <= ActiveOf(eo)
      BY <2>10, <2>12, <3>1
    <3>2. CASE ~ (n <= ActiveOf(eo))
      <4>1. Set = {} /\ ActiveAt(schema, col) = 0
        BY <2>10, <2>12, <3>2
      <4> QED BY <4>1
    <3> QED BY <3>1, <3>2
  <2> QED BY <2>13 DEF Set
<1> QED BY <1>7, <1>8, <1>9

\* The expressions, behind one that is complete.
LEMMA ExpressionsDone ==
  ASSUME NEW s \in Schemas, NEW cl \in 1 .. Len(s), NEW os, NEW d, NEW a,
         ExpressionsRight(s, "decode", cl, os, d, a), Len(os[cl]) = Len(DecChains[ExprAt(s, cl)])
  PROVE  /\ cl < Len(s) => /\ ExpressionsRight(s, "decode", cl + 1, os, d, With(s, cl, a, ActiveAt(s, cl)))
                           /\ os[cl + 1] = <<>>
         /\ cl = Len(s) => ExpressionsRight(s, "read", cl, os, d, With(s, cl, a, ActiveAt(s, cl)))
<1> USE DEF With
<1>1. /\ os = [c \in 1 .. Len(s) |-> os[c]] /\ d = [c \in 1 .. Len(s) |-> d[c]]
      /\ \A c \in 1 .. Len(s) :
           ExpressionRight(s, c, "decode" = "read" \/ ("decode" = "decode" /\ c < cl), os[c], d[c], a[c])
      /\ \A c \in 1 .. Len(s) : "decode" = "encode" \/ ("decode" = "decode" /\ c > cl) => os[c] = <<>>
  BY Zenon DEF ExpressionsRight
<1>2. Len(s) \in Nat /\ cl \in Nat /\ ~ (cl < cl)
  BY SchemaFacts
<1> DEFINE b == With(s, cl, a, ActiveAt(s, cl))
<1>3. b = [c \in 1 .. Len(s) |-> b[c]] /\ b[cl] = ActiveAt(s, cl)
  OBVIOUS
<1>4. \A c \in 1 .. Len(s) : c # cl => b[c] = a[c]
  OBVIOUS
<1> HIDE DEF b
<1>5. ExpressionRight(s, cl, TRUE, os[cl], d[cl], b[cl])
  <2>1. ("decode" = "read" \/ ("decode" = "decode" /\ cl < cl)) = FALSE
    BY <1>2
  <2>2. ExpressionRight(s, cl, FALSE, os[cl], d[cl], a[cl])
    BY <1>1, <2>1, Zenon
  <2> QED BY <1>3, <2>2, Zenon DEF ExpressionRight
<1>6. \A c \in 1 .. Len(s) : c < cl => ExpressionRight(s, c, TRUE, os[c], d[c], b[c])
  <2> SUFFICES ASSUME NEW c \in 1 .. Len(s), c < cl PROVE ExpressionRight(s, c, TRUE, os[c], d[c], b[c])
    OBVIOUS
  <2>1. ("decode" = "read" \/ ("decode" = "decode" /\ c < cl)) = TRUE
    OBVIOUS
  <2>2. c # cl
    BY <1>2
  <2> QED BY <1>1, <1>4, <2>1, <2>2, Zenon
<1>7. \A c \in 1 .. Len(s) : c > cl => ExpressionRight(s, c, FALSE, os[c], d[c], b[c])
  <2> SUFFICES ASSUME NEW c \in 1 .. Len(s), c > cl PROVE ExpressionRight(s, c, FALSE, os[c], d[c], b[c])
    OBVIOUS
  <2>1. ("decode" = "read" \/ ("decode" = "decode" /\ c < cl)) = FALSE /\ c # cl
    BY <1>2
  <2> QED BY <1>1, <1>4, <2>1, Zenon
<1>8. ASSUME cl < Len(s)
      PROVE  ExpressionsRight(s, "decode", cl + 1, os, d, b) /\ os[cl + 1] = <<>>
  <2>1. ASSUME NEW c \in 1 .. Len(s)
        PROVE  /\ ExpressionRight(s, c, "decode" = "read" \/ ("decode" = "decode" /\ c < cl + 1), os[c], d[c], b[c])
               /\ "decode" = "encode" \/ ("decode" = "decode" /\ c > cl + 1) => os[c] = <<>>
    <3>1. CASE c <= cl
      <4>1. ("decode" = "read" \/ ("decode" = "decode" /\ c < cl + 1)) = TRUE
        BY <1>2, <3>1
      <4>2. ~ ("decode" = "encode" \/ ("decode" = "decode" /\ c > cl + 1))
        BY <1>2, <3>1
      <4>3. c < cl \/ c = cl
        BY <1>2, <3>1
      <4>4. ExpressionRight(s, c, TRUE, os[c], d[c], b[c])
        BY <1>5, <1>6, <4>3, Zenon
      <4> QED BY <4>1, <4>2, <4>4, Zenon
    <3>2. CASE c > cl
      <4>1. ("decode" = "read" \/ ("decode" = "decode" /\ c < cl + 1)) = FALSE
        BY <1>2, <3>2
      <4>2. "decode" = "encode" \/ ("decode" = "decode" /\ c > cl)
        BY <3>2
      <4> QED BY <1>1, <1>7, <3>2, <4>1, <4>2, Zenon
    <3> QED BY <1>2, <3>1, <3>2
  <2>2. os[cl + 1] = <<>>
    <3>1. PICK c : c = cl + 1
      OBVIOUS
    <3>2. c \in 1 .. Len(s) /\ c > cl
      BY <1>2, <1>8, <3>1
    <3> QED BY <1>1, <3>1, <3>2
  <2> QED BY <1>1, <1>3, <2>1, <2>2, Zenon DEF ExpressionsRight
<1>9. ASSUME cl = Len(s) PROVE ExpressionsRight(s, "read", cl, os, d, b)
  <2>1. ASSUME NEW c \in 1 .. Len(s)
        PROVE  /\ ExpressionRight(s, c, "read" = "read" \/ ("read" = "decode" /\ c < cl), os[c], d[c], b[c])
               /\ "read" = "encode" \/ ("read" = "decode" /\ c > cl) => os[c] = <<>>
    <3>1. ("read" = "read" \/ ("read" = "decode" /\ c < cl)) = TRUE
      OBVIOUS
    <3>2. ~ ("read" = "encode" \/ ("read" = "decode" /\ c > cl))
      OBVIOUS
    <3>3. c < cl \/ c = cl
      BY <1>2, <1>9
    <3>4. ExpressionRight(s, c, TRUE, os[c], d[c], b[c])
      BY <1>5, <1>6, <3>3, Zenon
    <3> QED BY <3>1, <3>2, <3>4, Zenon
  <2> QED BY <1>1, <1>3, <2>1, Zenon DEF ExpressionsRight
<1> QED BY <1>8, <1>9 DEF b

\* A complete expression is counted, and the next one is begun.
LEMMA ExpressionStep == IInv /\ NextExpression => IInv'
<1> SUFFICES ASSUME IInv, NextExpression PROVE IInv'
  OBVIOUS
<1>1. PICK m, e : m = Len(ops[col]) /\ e = schema[col].expr
  OBVIOUS
<1>2. /\ phase = "decode" /\ m = Len(DecChains[e])
      /\ n_active' = [n_active EXCEPT ![col] =
            Cardinality({k \in DOMAIN ops[col] : ops[col][k][2] # 0 /\ Op(ops[col][k]).op \in ActiveOps})]
      /\ state' = Fresh
      /\ IF col < Len(schema) THEN col' = col + 1 /\ phase' = phase ELSE phase' = "read" /\ col' = col
      /\ UNCHANGED <<schema, encVars, dec, ops, readVars>>
  BY <1>1, Zenon DEF NextExpression, Chain
<1>3. Decoding(m, e)
  BY <1>1, <1>2 DEF Decoding
<1>4. /\ schema \in Schemas /\ col \in 1 .. Len(schema) /\ phase = "decode"
      /\ enc = <<>> /\ segs = <<>> /\ vec_idx = 0
      /\ TokensRight(schema, phase, col, Len(enc), tokens)
      /\ FileRight(schema, phase, col, file)
      /\ ExpressionsRight(schema, "decode", col, ops, dec, n_active)
      /\ bufs \in BuffersOf(schema, dec) /\ chunk = 0 /\ next_vec = 0
      /\ chunk \in 0 .. NumVectors /\ next_vec \in 0 .. NumVectors
      /\ OutRight(schema, next_vec, out)
  BY <1>2, Zenon DEF IInv
<1>5. Len(schema) \in Nat /\ e = ExprAt(schema, col)
  BY <1>1, <1>4, SchemaFacts DEF ExprAt
<1>6. n_active' = With(schema, col, n_active, ActiveAt(schema, col))
  <2>1. PICK A, S : /\ A = ActiveAt(schema, col)
                    /\ S = {k \in DOMAIN ops[col] : ops[col][k][2] # 0 /\ Op(ops[col][k]).op \in ActiveOps}
    OBVIOUS
  <2>2. S = 1 .. A /\ A \in Nat
    BY <1>2, <1>3, <2>1, ActiveAre, Zenon
  <2>3. Cardinality(S) = A
    BY <2>2, FS_Interval
  <2>4. n_active' = [n_active EXCEPT ![col] = A]
    BY <1>2, <2>1, <2>3, Zenon
  <2>5. n_active = [c \in 1 .. Len(schema) |-> n_active[c]]
    BY <1>4 DEF ExpressionsRight
  <2> QED BY <1>4, <2>1, <2>4, <2>5 DEF With
<1>7. /\ col < Len(schema) => /\ ExpressionsRight(schema, "decode", col + 1, ops, dec, n_active')
                              /\ ops[col + 1] = <<>>
      /\ col = Len(schema) => ExpressionsRight(schema, "read", col, ops, dec, n_active')
  <2>1. Len(ops[col]) = Len(DecChains[ExprAt(schema, col)])
    BY <1>1, <1>2, <1>5
  <2> QED BY <1>4, <1>6, <2>1, ExpressionsDone, Zenon
<1>8. /\ schema' = schema /\ enc' = enc /\ segs' = segs /\ vec_idx' = vec_idx /\ file' = file
      /\ tokens' = tokens /\ dec' = dec /\ ops' = ops /\ bufs' = bufs /\ chunk' = chunk
      /\ next_vec' = next_vec /\ out' = out
  BY <1>2 DEF encVars, readVars
<1>9. \A ph \in {"decode", "read"} : \A cl \in 1 .. Len(schema) :
        TokensRight(schema, ph, cl, Len(enc), tokens) /\ FileRight(schema, ph, cl, file)
  <2> SUFFICES ASSUME NEW ph \in {"decode", "read"}, NEW cl \in 1 .. Len(schema)
               PROVE  TokensRight(schema, ph, cl, Len(enc), tokens) /\ FileRight(schema, ph, cl, file)
    OBVIOUS
  <2>1. phase # "encode" /\ ph # "encode"
    BY <1>2
  <2>2. \A c \in 1 .. Len(schema) :
          TokenCount(schema, ph, cl, Len(enc), c) = TokenCount(schema, phase, col, Len(enc), c)
    BY <2>1 DEF TokenCount
  <2>3. TokensRight(schema, ph, cl, Len(enc), tokens)
    BY <1>4, <2>2 DEF TokensRight
  <2>4. FileRight(schema, ph, cl, file)
    BY <1>4, <2>1 DEF FileRight
  <2> QED BY <2>3, <2>4
<1>10. CASE col < Len(schema)
  <2>1. col' = col + 1 /\ phase' = "decode" /\ col' \in 1 .. Len(schema)
    BY <1>2, <1>4, <1>5, <1>10
  <2>2. state' = DecoderState(schema, col', Len(ops[col']))
    <3>1. Len(ops[col']) = 0
      BY <1>7, <1>10, <2>1
    <3> QED BY <1>2, <3>1 DEF DecoderState, Fresh
  <2>3. ExpressionsRight(schema, phase', col', ops, dec, n_active')
    BY <1>7, <1>10, <2>1
  <2>4. TokensRight(schema, phase', col', Len(enc), tokens) /\ FileRight(schema, phase', col', file)
    BY <1>9, <2>1
  <2>5. /\ IF phase' = "encode" THEN EncoderRight(schema, col', enc', state', vec_idx', segs')
           ELSE enc' = <<>> /\ segs' = <<>> /\ vec_idx' = 0
        /\ phase' = "read" => state' = Fresh
        /\ chunk # 0 => Fetched(schema, bufs, Len(schema), chunk)
        /\ phase' # "read" => chunk = 0 /\ next_vec = 0
        /\ phase' \in {"encode", "decode", "read"}
    BY <1>2, <1>4, <1>8, <2>1
  <2> QED BY <1>4, <1>8, <2>1, <2>2, <2>3, <2>4, <2>5, Zenon DEF IInv
<1>11. CASE ~ (col < Len(schema))
  <2>1. col' = col /\ phase' = "read" /\ col' \in 1 .. Len(schema) /\ col = Len(schema)
    BY <1>2, <1>4, <1>5, <1>11
  <2>2. ExpressionsRight(schema, phase', col', ops, dec, n_active')
    BY <1>7, <2>1, Zenon
  <2>3. TokensRight(schema, phase', col', Len(enc), tokens) /\ FileRight(schema, phase', col', file)
    BY <1>9, <2>1
  <2>4. /\ IF phase' = "encode" THEN EncoderRight(schema, col', enc', state', vec_idx', segs')
           ELSE enc' = <<>> /\ segs' = <<>> /\ vec_idx' = 0
        /\ phase' = "decode" => state' = DecoderState(schema, col', Len(ops[col']))
        /\ phase' = "read" => state' = Fresh
        /\ chunk # 0 => Fetched(schema, bufs, Len(schema), chunk)
        /\ phase' # "read" => chunk = 0 /\ next_vec = 0
        /\ phase' \in {"encode", "decode", "read"}
    BY <1>2, <1>4, <1>8, <2>1
  <2> QED BY <1>4, <1>8, <2>1, <2>2, <2>3, <2>4, Zenon DEF IInv
<1> QED BY <1>10, <1>11

-----------------------------------------------------------------------------
(* Reading a vector *)

\* The rowgroup is open.
Ready == IInv /\ phase = "read"

\* What there is of a column.
LEMMA ReadyFacts ==
  ASSUME Ready, NEW c \in 1 .. Len(schema), NEW e, e = schema[c].expr
  PROVE  /\ schema \in Schemas /\ Len(schema) \in Nat \ {0} /\ e \in Expressions \ {"fsst"}
         /\ Len(ops[c]) = Len(DecChains[e])
         /\ ops[c] = [k \in 1 .. Len(DecChains[e]) |-> RefOf(schema, c, k)]
         /\ n_active[c] = ActiveAt(schema, c)
         /\ file[c] = FileOf(schema, c)
         /\ Len(dec[c]) = OwnLen(e) /\ dec[c] = [j \in 1 .. OwnLen(e) |-> dec[c][j]]
         /\ \A j \in 1 .. OwnLen(e) : DecoderRight(schema, c, j, dec[c][j])
<1>1. schema \in Schemas
  BY DEF Ready, IInv
<1>2. Len(schema) \in Nat \ {0} /\ e \in Expressions \ {"fsst"}
  BY <1>1, SchemaFacts
<1>3. ExpressionRight(schema, c, TRUE, ops[c], dec[c], n_active[c])
  <2>1. ExpressionsRight(schema, phase, col, ops, dec, n_active)
    BY DEF Ready, IInv
  <2>2. (phase = "read" \/ (phase = "decode" /\ c < col)) = TRUE
    BY DEF Ready
  <2> QED BY <2>1, <2>2, Zenon DEF ExpressionsRight
<1>4. /\ Len(ops[c]) = Len(DecChains[e]) /\ ops[c] = [k \in 1 .. Len(ops[c]) |-> RefOf(schema, c, k)]
      /\ n_active[c] = ActiveAt(schema, c) /\ DecodersRight(schema, c, Len(ops[c]), dec[c])
  BY <1>3, Zenon DEF ExpressionRight, ExprAt
<1>5. file[c] = FileOf(schema, c)
  <2>1. FileRight(schema, phase, col, file) /\ phase # "encode"
    BY DEF Ready, IInv
  <2> QED BY <2>1 DEF FileRight
<1>6. Len(dec[c]) = OwnLen(e)
  <2>1. Len(dec[c]) = OwnAt(e, Len(DecChains[e]))
    BY <1>4 DEF DecodersRight, ExprAt
  <2>2. DecodersShaped(e)
    BY <1>2, RowOf
  <2>3. Len(DecChains[e]) # 0 /\ (e \in External => Len(DecChains[e]) = 2)
    BY <2>2 DEF DecodersShaped
  <2>4. CASE e = "equal"
    BY <2>1, <2>4 DEF OwnAt, OwnLen, External
  <2>5. CASE e \in External
    <3>1. e # "equal"
      BY <2>5 DEF External
    <3>2. OwnAt(e, 2) = 2 - 1 /\ OwnLen(e) = 1
      BY <2>5, <3>1 DEF OwnAt, OwnLen
    <3>3. PICK L : L = Len(DecChains[e])
      OBVIOUS
    <3>4. L = 2
      BY <2>3, <2>5, <3>3
    <3>5. Len(dec[c]) = OwnAt(e, 2)
      BY <2>1, <3>3, <3>4
    <3> QED BY <3>2, <3>5
  <2>6. CASE e # "equal" /\ e \notin External
    BY <2>1, <2>6 DEF OwnAt, OwnLen
  <2> QED BY <2>4, <2>5, <2>6
<1>7. dec[c] = [j \in 1 .. OwnLen(e) |-> dec[c][j]] /\ \A j \in 1 .. OwnLen(e) : DecoderRight(schema, c, j, dec[c][j])
  BY <1>4, <1>6 DEF DecodersRight
<1> QED BY <1>1, <1>2, <1>4, <1>5, <1>6, <1>7

\* The operators of a column itself.
LEMMA OwnOps ==
  ASSUME NEW e \in Expressions \ {"fsst"}, NEW j \in 1 .. OwnLen(e)
  PROVE  /\ e # "equal" /\ PlaceOf(e, j) \in 1 .. Len(DecChains[e]) /\ OwnLen(e) \in Nat
         /\ OwnOp(e, j) \notin {"shared", "first_column"} /\ OwnOp(e, j) \in DOMAIN NumOperands
         /\ OwnOp(e, j) \in {"frequency", "frequency_str"} => e \notin Patchable
         /\ OwnOp(e, j) = "slpatch" => e \in Patchable
         /\ e \notin External => OwnLen(e) = Len(DecChains[e]) /\ PlaceOf(e, j) = j
<1>1. "equal" \notin External
  BY DEF External
<1>2. e # "equal"
  <2>1. e = "equal" => OwnLen(e) = 0
    BY <1>1 DEF OwnLen
  <2> QED BY <2>1
<1>3. DecodersShaped(e)
  BY RowOf
<1>4. /\ Len(DecChains[e]) \in Nat
      /\ (e \in External => Len(DecChains[e]) = 2 /\ DecChains[e][2] = e)
      /\ \A k \in 1 .. Len(DecChains[e]) :
           /\ (DecChains[e][k] = "shared" => e = "equal")
           /\ (DecChains[e][k] = "first_column" => e \in External)
           /\ (DecChains[e][k] \notin {"shared", "first_column"} => DecChains[e][k] \in DOMAIN NumOperands)
           /\ (DecChains[e][k] \in {"frequency", "frequency_str"} => e \notin Patchable)
           /\ (DecChains[e][k] = "slpatch" => e \in Patchable)
  BY <1>3 DEF DecodersShaped
<1>5. CASE e \in External
  <2>1. OwnLen(e) = 1 /\ PlaceOf(e, j) = 2 /\ OwnOp(e, j) = e
    BY <1>2, <1>4, <1>5 DEF OwnLen, PlaceOf, OwnOp
  <2>2. e \notin {"shared", "first_column"}
    BY <1>5 DEF External
  <2> QED BY <1>2, <1>4, <1>5, <2>1, <2>2 DEF OwnOp
<1>6. CASE e \notin External
  <2>1. OwnLen(e) = Len(DecChains[e]) /\ PlaceOf(e, j) = j /\ OwnOp(e, j) = DecChains[e][j]
    BY <1>2, <1>6 DEF OwnLen, PlaceOf, OwnOp
  <2> QED BY <1>2, <1>4, <1>6, <2>1
<1> QED BY <1>5, <1>6

\* A vector v of column c, in the form by.
TermOf(c, v, by) == [col |-> c, vec |-> v, by |-> by]

\* The segment an operator asks for has the entry it takes it for.
LEMMA EntryFound ==
  ASSUME Ready, NEW c \in 1 .. Len(schema), NEW e, e = schema[c].expr, NEW j \in 1 .. OwnLen(e),
         NEW v \in 1 .. NumVectors, NEW op, op = OwnOp(e, j), NEW k \in 1 .. Len(DecViews(op))
  PROVE  EntryAt(c, dec[c][j].indexes[k], v) =
           [role |-> DecViews(op)[k], col |-> c,
            vec |-> IF DecViews(op)[k] \in BlockBased THEN 0 ELSE v, by |-> FoundBy(e, op)]
<1> DEFINE p == PlaceOf(e, j)
           i == Starts[e][p] + k
           role == DecViews(op)[k]
<1>1. /\ e \in Expressions \ {"fsst"} /\ file[c] = FileOf(schema, c)
      /\ DecoderRight(schema, c, j, dec[c][j])
  BY ReadyFacts
<1>2. /\ p \in 1 .. Len(DecChains[e]) /\ op \notin {"shared", "first_column"}
      /\ op \in DOMAIN NumOperands /\ op = DecChains[e][p]
      /\ op \in {"frequency", "frequency_str"} => e \notin Patchable
      /\ op = "slpatch" => e \in Patchable
  BY <1>1, OwnOps DEF OwnOp
<1>3. dec[c][j].indexes[k] = Starts[e][p] + k - 1
  BY <1>1 DEF DecoderRight, ExprAt
<1>4. /\ DecodersFit(e) /\ DecodersAimed(e) /\ SegmentsCounted(e)
  BY <1>1, RowOf
<1>5. Len(DecViews(op)) \in Nat /\ k \in Nat
  BY <1>2, ViewsSequential DEF Sequential
<1>6. Starts[e][p] \in Nat /\ Starts[e][p] + Len(DecViews(op)) <= Len(Roles[e]) /\ Len(Roles[e]) \in Nat
  BY <1>2, <1>4 DEF DecodersFit, SegmentsCounted
<1>7. Roles[e][i] = role
  BY <1>2, <1>4 DEF DecodersAimed
<1>8. i \in 1 .. Len(Roles[e])
  <2>1. PICK st, n, L : st = Starts[e][p] /\ n = Len(DecViews(op)) /\ L = Len(Roles[e])
    OBVIOUS
  <2>2. st \in Nat /\ n \in Nat /\ st + n <= L /\ L \in Nat /\ k \in 1 .. n
    BY <1>5, <1>6, <2>1
  <2>3. st + k \in 1 .. L
    BY <2>2
  <2> QED BY <2>1, <2>3
<1>9. ReadsAt(e, role) = FoundBy(e, op)
  BY <1>2, SegmentsFound DEF FoundRight
<1>10. dec[c][j].indexes[k] + 1 = i
  BY <1>3, <1>5, <1>6
<1> HIDE DEF i, role, p
<1>11. i \in DOMAIN file[c] /\ file[c][i] = SegmentOf(schema, c, i)
  BY <1>1, <1>8 DEF FileOf, ExprAt
<1>12. SegmentOf(schema, c, i) = IF role \in BlockBased THEN <<EntryOf(schema, c, i, 0)>>
                                 ELSE [w \in 1 .. NumVectors |-> EntryOf(schema, c, i, w)]
  BY <1>7 DEF SegmentOf, ExprAt
<1>13. \A w : EntryOf(schema, c, i, w) = [role |-> role, col |-> c, vec |-> w, by |-> FoundBy(e, op)]
  BY <1>7, <1>9 DEF EntryOf, ExprAt
<1>14. EntryAt(c, dec[c][j].indexes[k], v) = IF v \in DOMAIN file[c][i] THEN file[c][i][v] ELSE file[c][i][1]
  BY <1>10, <1>11 DEF EntryAt
<1>15. CASE role \in BlockBased
  <2>1. PICK y : y = EntryOf(schema, c, i, 0)
    OBVIOUS
  <2>2. file[c][i] = <<y>>
    BY <1>11, <1>12, <1>15, <2>1
  <2>3. (IF v \in DOMAIN file[c][i] THEN file[c][i][v] ELSE file[c][i][1]) = y
    BY <2>2
  <2>4. y = [role |-> role, col |-> c, vec |-> 0, by |-> FoundBy(e, op)]
    BY <1>13, <2>1
  <2> QED BY <1>14, <1>15, <2>3, <2>4 DEF role
<1>16. CASE role \notin BlockBased
  <2>1. file[c][i] = [w \in 1 .. NumVectors |-> EntryOf(schema, c, i, w)]
    BY <1>11, <1>12, <1>16
  <2>2. v \in DOMAIN file[c][i] /\ file[c][i][v] = EntryOf(schema, c, i, v)
    BY <2>1
  <2>3. file[c][i][v] = [role |-> role, col |-> c, vec |-> v, by |-> FoundBy(e, op)]
    BY <1>13, <2>2
  <2> QED BY <1>14, <1>16, <2>2, <2>3 DEF role
<1> QED BY <1>15, <1>16

\* What the segments of an operator add up to.
LEMMA AssembledRight ==
  ASSUME Ready, NEW c \in 1 .. Len(schema), NEW e, e = schema[c].expr, NEW j \in 1 .. OwnLen(e),
         NEW v \in 1 .. NumVectors
  PROVE  Assembled(c, dec[c][j], v) = TermOf(c, v, FoundBy(e, OwnOp(e, j)))
<1> DEFINE op == OwnOp(e, j)
           o == dec[c][j]
           parts == [k \in DOMAIN o.views |-> EntryAt(c, o.indexes[k], v)]
           first == parts[1]
           fits(k) == /\ parts[k].role = o.views[k]
                      /\ parts[k].col = first.col /\ parts[k].by = first.by
                      /\ parts[k].vec = IF o.views[k] \in BlockBased THEN 0 ELSE v
<1>1. /\ e \in Expressions \ {"fsst"} /\ DecoderRight(schema, c, j, o)
  BY ReadyFacts
<1>2. op \in DOMAIN NumOperands
  BY <1>1, OwnOps
<1>3. o.views = DecViews(op)
  BY <1>1 DEF DecoderRight, ExprAt
<1>4. Sequential(DecViews(op))
  BY <1>2, ViewsSequential
<1>5. DOMAIN o.views = 1 .. Len(DecViews(op)) /\ Len(DecViews(op)) \in Nat
  BY <1>3, <1>4 DEF Sequential
<1>6. Assembled(c, o, v) =
        IF o.views = <<>> THEN TermOf(c, v, <<>>)
        ELSE IF \A k \in DOMAIN o.views : fits(k) THEN [col |-> first.col, vec |-> v, by |-> first.by]
        ELSE Junk
  BY Zenon DEF Assembled, TermOf
<1>7. \A k \in 1 .. Len(DecViews(op)) :
        /\ parts[k].role = DecViews(op)[k] /\ parts[k].col = c
        /\ parts[k].vec = (IF DecViews(op)[k] \in BlockBased THEN 0 ELSE v)
        /\ parts[k].by = FoundBy(e, op)
  <2> SUFFICES ASSUME NEW k \in 1 .. Len(DecViews(op))
               PROVE  /\ parts[k].role = DecViews(op)[k] /\ parts[k].col = c
                      /\ parts[k].vec = (IF DecViews(op)[k] \in BlockBased THEN 0 ELSE v)
                      /\ parts[k].by = FoundBy(e, op)
    OBVIOUS
  <2>1. parts[k] = EntryAt(c, o.indexes[k], v)
    BY <1>5
  <2>2. PICK x, y, z : x = DecViews(op)[k] /\ y = (IF x \in BlockBased THEN 0 ELSE v) /\ z = FoundBy(e, op)
    OBVIOUS
  <2>3. parts[k] = [role |-> x, col |-> c, vec |-> y, by |-> z]
    BY <2>1, <2>2, EntryFound
  <2>4. parts[k].role = x /\ parts[k].col = c /\ parts[k].vec = y /\ parts[k].by = z
    <3> HIDE DEF parts
    <3> QED BY <2>3
  <2> QED BY <2>2, <2>4
<1>8. CASE o.views = <<>>
  <2>1. FoundBy(e, op) = <<>>
    <3>1. op \notin {"unffor", "slpatch", "rsum"}
      <4>1. DecViews("unffor") # <<>> /\ DecViews("slpatch") # <<>> /\ DecViews("rsum") # <<>>
        BY DEF DecViews, Patching
      <4> QED BY <1>3, <1>8, <4>1
    <3> QED BY <3>1 DEF FoundBy
  <2> QED BY <1>6, <1>8, <2>1
<1>9. CASE o.views # <<>>
  <2>1. 1 \in 1 .. Len(DecViews(op))
    <3>1. PICK w : w = DecViews(op)
      OBVIOUS
    <3>2. w = [k \in 1 .. Len(w) |-> w[k]] /\ Len(w) \in Nat /\ w # <<>>
      BY <1>3, <1>4, <1>9, <3>1 DEF Sequential
    <3> QED BY <3>1, <3>2
  <2> HIDE DEF parts, op, o
  <2>2. first.col = c /\ first.by = FoundBy(e, op)
    BY <1>7, <2>1, Zenon
  <2>3. \A k \in DOMAIN o.views : fits(k)
    <3> SUFFICES ASSUME NEW k \in DOMAIN o.views PROVE fits(k)
      OBVIOUS
    <3>1. k \in 1 .. Len(DecViews(op))
      BY <1>5
    <3> QED BY <1>3, <1>7, <2>2, <3>1, Zenon
  <2> HIDE DEF fits, first
  <2>4. Assembled(c, o, v) = TermOf(c, v, FoundBy(e, op))
    BY <1>6, <1>9, <2>2, <2>3 DEF TermOf
  <2> QED BY <2>4 DEF op, o
<1> QED BY <1>8, <1>9

-----------------------------------------------------------------------------
(* Running one operator *)

\* The buffers with x in slot i of column c.
Put(b, c, i, x) == [b EXCEPT ![c][i] = x]

\* That is all that has changed.
OnlyAt(s, d, b, c, i, x, y) ==
  /\ y \in BuffersOf(s, d) /\ y[c][i] = x
  /\ \A a \in 1 .. Len(s) : a # c => y[a] = b[a]
  /\ \A j \in 1 .. Len(d[c]) : j # i => y[c][j] = b[c][j]

LEMMA PutFacts ==
  ASSUME NEW s, NEW d, NEW b \in BuffersOf(s, d), NEW c \in 1 .. Len(s), Len(d[c]) \in Nat,
         NEW i \in 1 .. Len(d[c]), NEW x \in Terms(s)
  PROVE  OnlyAt(s, d, b, c, i, x, Put(b, c, i, x))
<1> DEFINE T == Terms(s)
<1>1. b \in [1 .. Len(s) -> Seq(T)] /\ \A a \in 1 .. Len(s) : Len(b[a]) = Len(d[a])
  BY DEF BuffersOf
<1> HIDE DEF T
<1>2. x \in T
  BY DEF T
<1>3. PICK t : t = [b[c] EXCEPT ![i] = x]
  OBVIOUS
<1>4. b[c] \in Seq(T) /\ Len(b[c]) = Len(d[c])
  BY <1>1
<1>5. t \in Seq(T) /\ Len(t) = Len(d[c]) /\ t[i] = x /\ \A j \in 1 .. Len(d[c]) : j # i => t[j] = b[c][j]
  BY <1>2, <1>3, <1>4
<1>6. PICK y : y = [b EXCEPT ![c] = t]
  OBVIOUS
<1>7. y = Put(b, c, i, x)
  BY <1>3, <1>6 DEF Put
<1>8. y \in [1 .. Len(s) -> Seq(T)] /\ y[c] = t /\ \A a \in 1 .. Len(s) : a # c => y[a] = b[a]
  BY <1>1, <1>5, <1>6
<1>9. \A a \in 1 .. Len(s) : Len(y[a]) = Len(d[a])
  BY <1>1, <1>5, <1>8
<1>10. y \in BuffersOf(s, d)
  BY <1>8, <1>9 DEF BuffersOf, T
<1> QED BY <1>5, <1>7, <1>8, <1>10 DEF OnlyAt

\* What an operator finds is a term, and not nothing.
LEMMA FoundIsTerm ==
  ASSUME NEW s \in Schemas, NEW c \in 1 .. Len(s), NEW v \in 1 .. NumVectors, NEW e, NEW op
  PROVE  /\ TermOf(c, v, FoundBy(e, op)) \in Terms(s)
         /\ \A by : TermOf(c, v, by) # Junk
<1>1. FoundBy(e, op) \in Seq(Forms)
  <2>1. <<>> \in Seq(Forms)
    OBVIOUS
  <2>2. FoundBy(e, op) \in {HoleyOf(e), PackedOf(e), TransposedOf(e), <<>>}
    BY DEF FoundBy
  <2> QED BY <2>1, <2>2, ContentsAre
<1>2. c \in 0 .. Len(s) /\ v \in 0 .. NumVectors /\ c # 0
  BY SchemaFacts, NumVectorsAssumption
<1>3. \A by : TermOf(c, v, by) # Junk
  <2> SUFFICES ASSUME NEW by PROVE TermOf(c, v, by) # Junk
    OBVIOUS
  <2>1. TermOf(c, v, by).col = c /\ Junk.col = 0
    BY DEF TermOf, Junk
  <2> QED BY <1>2, <2>1
<1> QED BY <1>1, <1>2, <1>3 DEF TermOf, Terms

\* The slot an operator writes, and what it puts there.
SlotOf(e, k) == IF OwnOp(e, k) = "slpatch" THEN 1 ELSE k

ResultOf(e, c, k, v, held) ==
  CASE OwnOp(e, k) = "slpatch" ->
         IF held \in {TermOf(c, v, PackedOf(e)), TermOf(c, v, HoleyOf(e))}
           THEN TermOf(c, v, PackedOf(e)) ELSE Junk
    [] OwnOp(e, k) = "rsum" ->
         IF held = TermOf(c, v, PackedOf(e)) THEN TermOf(c, v, TransposedOf(e)) ELSE Junk
    [] OTHER -> TermOf(c, v, FoundBy(e, OwnOp(e, k)))

\* A visit of an active operator writes its slot.
LEMMA OperatorRuns ==
  ASSUME Ready, NEW c \in 1 .. Len(schema), NEW e, e = schema[c].expr, NEW k \in 1 .. OwnLen(e),
         OwnOp(e, k) \in ActiveOps, NEW v \in 1 .. NumVectors, NEW b
  PROVE  RunOperator(b, <<c, k>>, v) = Put(b, c, SlotOf(e, k), ResultOf(e, c, k, v, b[c][1]))
<1>1. /\ schema \in Schemas /\ e \in Expressions \ {"fsst"}
      /\ DecoderRight(schema, c, k, dec[c][k])
  BY ReadyFacts
<1>2. PICK op, o, read : op = OwnOp(e, k) /\ o = dec[c][k] /\ read = TermOf(c, v, FoundBy(e, op))
  OBVIOUS
<1>3. o.op = op /\ o.from = FromOf(schema, c, k)
  BY <1>1, <1>2 DEF DecoderRight, ExprAt
<1>4. Assembled(c, o, v) = read
  BY <1>2, AssembledRight
<1>5. PICK r : r = <<c, k>>
  OBVIOUS
<1>6. r[1] = c /\ r[2] = k /\ Op(r) = o
  BY <1>2, <1>5 DEF Op
<1>7. read # Junk
  BY <1>1, <1>2, FoundIsTerm
<1>8. CASE op = "slpatch"
  <2>1. o.from = <<c, 1>> /\ o.from # <<0, 0>>
    <3>1. op \notin {"transpose", "rle_map", "rle_map_str", "fsst"} \cup BehindFirst
      BY <1>8 DEF BehindFirst
    <3>2. FromOf(schema, c, k) = <<c, 1>>
      BY <1>2, <1>8, <3>1, Zenon DEF FromOf, ExprAt
    <3>3. <<c, 1>> # <<0, 0>>
      OBVIOUS
    <3> QED BY <1>3, <3>2, <3>3
  <2>2. o.from[1] = c /\ o.from[2] = 1
    BY <2>1
  <2>3. FoundBy(e, op) = PackedOf(e) /\ e \in Patchable
    BY <1>1, <1>2, <1>8, OwnOps DEF FoundBy
  <2>4. Holey(read) = TermOf(c, v, HoleyOf(e))
    <3>1. HoleyOf(e) = Append(PackedOf(e), "holes")
      BY <2>3, ContentsAre
    <3>2. PICK p : p = PackedOf(e)
      OBVIOUS
    <3>3. read = [col |-> c, vec |-> v, by |-> p]
      BY <1>2, <2>3, <3>2 DEF TermOf
    <3>4. Holey(read) = [col |-> c, vec |-> v, by |-> Append(p, "holes")]
      <4>1. PICK q : q = Append(p, "holes")
        OBVIOUS
      <4>2. read.by = p
        BY <3>3
      <4>3. Holey(read) = [read EXCEPT !.by = q]
        BY <4>1, <4>2, Zenon DEF Holey
      <4>4. [read EXCEPT !.by = q] = [col |-> c, vec |-> v, by |-> q]
        BY <3>3
      <4> QED BY <4>1, <4>3, <4>4, Zenon
    <3> QED BY <3>1, <3>2, <3>4 DEF TermOf
  <2>5. RunOperator(b, r, v) =
          [b EXCEPT ![o.from[1]][o.from[2]] =
             IF read # Junk /\ b[o.from[1]][o.from[2]] \in {read, Holey(read)} THEN read ELSE Junk]
    <3>1. o.op = "slpatch" /\ o.op \notin {"unffor", "scan", "alp", "alp_rd", "frequency", "frequency_str"}
          /\ o.op # "rsum"
      BY <1>3, <1>8
    <3> QED BY <1>4, <1>6, <2>1, <3>1, Zenon DEF RunOperator
  <2>6. RunOperator(b, r, v) =
          [b EXCEPT ![c][1] = IF b[c][1] \in {read, TermOf(c, v, HoleyOf(e))} THEN read ELSE Junk]
    BY <1>7, <2>2, <2>4, <2>5
  <2>7. ResultOf(e, c, k, v, b[c][1]) = IF b[c][1] \in {read, TermOf(c, v, HoleyOf(e))} THEN read ELSE Junk
    BY <1>2, <1>8, <2>3 DEF ResultOf
  <2>8. SlotOf(e, k) = 1
    BY <1>2, <1>8 DEF SlotOf
  <2> QED BY <1>5, <2>6, <2>7, <2>8, Zenon DEF Put
<1>9. CASE op = "rsum"
  <2>1. o.from = <<c, 1>> /\ o.from # <<0, 0>>
    <3>1. op \notin {"transpose", "rle_map", "rle_map_str", "fsst"} \cup BehindFirst
      BY <1>9 DEF BehindFirst
    <3>2. FromOf(schema, c, k) = <<c, 1>>
      BY <1>2, <1>9, <3>1, Zenon DEF FromOf, ExprAt
    <3>3. <<c, 1>> # <<0, 0>>
      OBVIOUS
    <3> QED BY <1>3, <3>2, <3>3
  <2>2. o.from[1] = c /\ o.from[2] = 1
    BY <2>1
  <2>3. FoundBy(e, op) = TransposedOf(e)
    BY <1>9 DEF FoundBy
  <2>4. e \in RleExprs \cup FsstDeltas \cup {"delta"}
    <3>1. op = DecChains[e][PlaceOf(e, k)] /\ PlaceOf(e, k) \in 1 .. Len(DecChains[e])
      BY <1>1, <1>2, OwnOps DEF OwnOp
    <3>2. DecodersShaped(e)
      BY <1>1, RowOf
    <3> QED BY <1>9, <3>1, <3>2 DEF DecodersShaped
  <2>5. [read EXCEPT !.by = Append(@, "delta")] = TermOf(c, v, PackedOf(e))
    <3>1. PackedOf(e) = Append(TransposedOf(e), "delta")
      BY <2>4, ContentsAre
    <3>2. PICK p : p = TransposedOf(e)
      OBVIOUS
    <3>3. read = [col |-> c, vec |-> v, by |-> p]
      BY <1>2, <2>3, <3>2 DEF TermOf
    <3>4. [read EXCEPT !.by = Append(@, "delta")] = [col |-> c, vec |-> v, by |-> Append(p, "delta")]
      <4>1. PICK q : q = Append(p, "delta")
        OBVIOUS
      <4>2. read.by = p
        BY <3>3
      <4>3. [read EXCEPT !.by = Append(@, "delta")] = [read EXCEPT !.by = q]
        BY <4>1, <4>2, Zenon
      <4>4. [read EXCEPT !.by = q] = [col |-> c, vec |-> v, by |-> q]
        BY <3>3
      <4> QED BY <4>1, <4>3, <4>4, Zenon
    <3> QED BY <3>1, <3>2, <3>4 DEF TermOf
  <2>6. RunOperator(b, r, v) =
          [b EXCEPT ![r[1]][r[2]] =
             IF read # Junk /\ b[o.from[1]][o.from[2]] = [read EXCEPT !.by = Append(@, "delta")]
               THEN read ELSE Junk]
    <3>1. o.op = "rsum" /\ o.op \notin {"unffor", "scan", "alp", "alp_rd", "frequency", "frequency_str"}
          /\ o.op # "slpatch"
      BY <1>3, <1>9
    <3> QED BY <1>4, <1>6, <2>1, <3>1, Zenon DEF RunOperator
  <2>7. RunOperator(b, r, v) =
          [b EXCEPT ![c][k] = IF b[c][1] = TermOf(c, v, PackedOf(e)) THEN read ELSE Junk]
    BY <1>6, <1>7, <2>2, <2>5, <2>6
  <2>8. ResultOf(e, c, k, v, b[c][1]) = IF b[c][1] = TermOf(c, v, PackedOf(e)) THEN read ELSE Junk
    BY <1>2, <1>9, <2>3 DEF ResultOf
  <2>9. SlotOf(e, k) = k
    BY <1>2, <1>9 DEF SlotOf
  <2> QED BY <1>5, <2>7, <2>8, <2>9, Zenon DEF Put
<1>10. CASE op \notin {"slpatch", "rsum"}
  <2>1. o.op \in {"unffor", "scan", "alp", "alp_rd", "frequency", "frequency_str"}
        /\ o.op # "slpatch" /\ o.op # "rsum"
    BY <1>2, <1>3, <1>10 DEF ActiveOps
  <2>2. RunOperator(b, r, v) = [b EXCEPT ![r[1]][r[2]] = read]
    BY <1>4, <1>6, <2>1, Zenon DEF RunOperator
  <2>3. RunOperator(b, r, v) = [b EXCEPT ![c][k] = read]
    BY <1>6, <2>2
  <2>4. ResultOf(e, c, k, v, b[c][1]) = read /\ SlotOf(e, k) = k
    BY <1>2, <1>10 DEF ResultOf, SlotOf
  <2> QED BY <1>5, <2>3, <2>4, Zenon DEF Put
<1> QED BY <1>8, <1>9, <1>10

\* So it leaves buffers behind in which only that slot has changed.
LEMMA OperatorWrites ==
  ASSUME Ready, NEW c \in 1 .. Len(schema), NEW e, e = schema[c].expr, NEW k \in 1 .. OwnLen(e),
         OwnOp(e, k) \in ActiveOps, NEW v \in 1 .. NumVectors, NEW b \in BuffersOf(schema, dec)
  PROVE  OnlyAt(schema, dec, b, c, SlotOf(e, k), ResultOf(e, c, k, v, b[c][1]),
                RunOperator(b, <<c, k>>, v))
<1>1. schema \in Schemas /\ e \in Expressions \ {"fsst"} /\ Len(dec[c]) = OwnLen(e)
  BY ReadyFacts
<1>2. OwnLen(e) \in Nat
  BY <1>1, OwnOps
<1>3. SlotOf(e, k) \in 1 .. Len(dec[c])
  BY <1>1, <1>2 DEF SlotOf
<1>4. ResultOf(e, c, k, v, b[c][1]) \in Terms(schema)
  <2>1. \A op : TermOf(c, v, FoundBy(e, op)) \in Terms(schema)
    BY <1>1, FoundIsTerm
  <2>2. FoundBy(e, "slpatch") = PackedOf(e) /\ FoundBy(e, "rsum") = TransposedOf(e)
    BY DEF FoundBy
  <2>3. /\ TermOf(c, v, PackedOf(e)) \in Terms(schema) /\ TermOf(c, v, TransposedOf(e)) \in Terms(schema)
        /\ TermOf(c, v, FoundBy(e, OwnOp(e, k))) \in Terms(schema)
    BY <2>1, <2>2
  <2>4. Junk \in Terms(schema)
    BY <1>1, JunkIsTerm
  <2> QED BY <2>3, <2>4, Zenon DEF ResultOf
<1>5. OnlyAt(schema, dec, b, c, SlotOf(e, k), ResultOf(e, c, k, v, b[c][1]),
             Put(b, c, SlotOf(e, k), ResultOf(e, c, k, v, b[c][1])))
  BY <1>1, <1>2, <1>3, <1>4, PutFacts
<1> QED BY <1>5, OperatorRuns

-----------------------------------------------------------------------------
(* Running the active operators of a column *)

\* Which operators of a column itself are active, and what stands in front of
\* the ones that read a buffer.
LEMMA ActiveFacts ==
  ASSUME NEW e \in Expressions \ {"fsst"}
  PROVE  /\ ActiveOf(e) \in Nat /\ OwnLen(e) \in Nat /\ ActiveOf(e) <= OwnLen(e)
         /\ (e \in External \cup {"equal"} => ActiveOf(e) = 0)
         /\ (e \in Patchable => ActiveOf(e) > 1)
         /\ \A k \in 1 .. OwnLen(e) :
              /\ OwnOp(e, k) \in ActiveOps <=> k <= ActiveOf(e)
              /\ (k = 1 => OwnOp(e, k) # "slpatch" /\ OwnOp(e, k) # "rsum")
              /\ (k = 2 => (OwnOp(e, k) = "slpatch" <=> e \in Patchable))
              /\ (OwnOp(e, k) = "slpatch" => k = 2 /\ OwnOp(e, 1) = "unffor")
              /\ (OwnOp(e, k) = "unffor" => k = 1)
              /\ (OwnOp(e, k) = "rsum" => k > 1 /\ OwnOp(e, 1) = "unffor")
              /\ (OwnOp(e, k) = "rsum" /\ k # 2 => OwnOp(e, 2) = "slpatch")
<1>1. DecodersShaped(e)
  BY RowOf
<1>2. /\ Len(DecChains[e]) \in Nat \ {0} /\ ActiveOf(e) \in 0 .. Len(DecChains[e])
      /\ (e \in External => Len(DecChains[e]) = 2 /\ DecChains[e][2] = e)
      /\ \A k \in 1 .. Len(DecChains[e]) :
           /\ (DecChains[e][k] = "unffor" => k = 1)
           /\ (DecChains[e][k] = "slpatch" => k = 2 /\ DecChains[e][k - 1] = "unffor")
           /\ (DecChains[e][k] = "rsum" => \/ k = 2 /\ DecChains[e][k - 1] = "unffor"
                                           \/ k = 3 /\ DecChains[e][k - 1] = "slpatch")
           /\ (DecChains[e][k] = "slpatch" <=> k = 2 /\ e \in Patchable)
           /\ (DecChains[e][k] \in ActiveOps <=> k <= ActiveOf(e))
  BY <1>1 DEF DecodersShaped
<1>3. (e \in External \cup {"equal"} => ActiveOf(e) = 0) /\ "equal" \notin External
  BY DEF ActiveOf, External, OwnDicts, Dictionaries, Patchable, RleExprs, FsstDeltas
<1>4. e \in Patchable => ActiveOf(e) > 1
  BY DEF ActiveOf, OwnDicts, Dictionaries, External, Patchable, RleExprs, FsstDeltas
<1>5. CASE e = "equal"
  <2>1. OwnLen(e) = 0
    BY <1>3, <1>5 DEF OwnLen
  <2> QED BY <1>3, <1>4, <1>5, <2>1
<1>6. CASE e \in External
  <2>1. OwnLen(e) = 1 /\ \A k \in 1 .. OwnLen(e) : OwnOp(e, k) = e /\ k = 1
    BY <1>2, <1>3, <1>6 DEF OwnLen, OwnOp, PlaceOf
  <2>2. e \notin ActiveOps \cup {"slpatch", "rsum", "unffor"}
    BY <1>6 DEF External, ActiveOps
  <2> QED BY <1>3, <1>4, <1>6, <2>1, <2>2
<1>7. CASE e # "equal" /\ e \notin External
  <2>1. OwnLen(e) = Len(DecChains[e]) /\ \A k : OwnOp(e, k) = DecChains[e][k]
    BY <1>7 DEF OwnLen, OwnOp, PlaceOf
  <2> QED BY <1>2, <1>3, <1>4, <1>7, <2>1
<1> QED BY <1>5, <1>6, <1>7

\* What the buffers of column c hold when k of its active operators have run:
\* the exceptions are patched in by the second one.
PartRun(b, c, e, k, v) ==
  \A j \in 1 .. k : OwnOp(e, j) \in Holders =>
    b[c][j] = TermOf(c, v, IF k = 1 THEN FoundBy(e, OwnOp(e, j)) ELSE HeldBy(e, OwnOp(e, j)))

\* The next operator finds what it needs.
LEMMA PartRunStep ==
  ASSUME NEW s, NEW d, NEW b, NEW c, NEW v, NEW e \in Expressions \ {"fsst"}, NEW k \in 1 .. ActiveOf(e),
         PartRun(b, c, e, k - 1, v), NEW y, Len(d[c]) = OwnLen(e),
         OnlyAt(s, d, b, c, SlotOf(e, k), ResultOf(e, c, k, v, b[c][1]), y)
  PROVE  PartRun(y, c, e, k, v)
<1>1. /\ ActiveOf(e) \in Nat /\ OwnLen(e) \in Nat /\ ActiveOf(e) <= OwnLen(e)
      /\ \A j \in 1 .. OwnLen(e) :
           /\ OwnOp(e, j) \in ActiveOps <=> j <= ActiveOf(e)
           /\ (j = 1 => OwnOp(e, j) # "slpatch" /\ OwnOp(e, j) # "rsum")
           /\ (j = 2 => (OwnOp(e, j) = "slpatch" <=> e \in Patchable))
           /\ (OwnOp(e, j) = "slpatch" => j = 2 /\ OwnOp(e, 1) = "unffor")
           /\ (OwnOp(e, j) = "unffor" => j = 1)
           /\ (OwnOp(e, j) = "rsum" => j > 1 /\ OwnOp(e, 1) = "unffor")
           /\ (OwnOp(e, j) = "rsum" /\ j # 2 => OwnOp(e, 2) = "slpatch")
  BY ActiveFacts
<1>2. y[c][SlotOf(e, k)] = ResultOf(e, c, k, v, b[c][1]) /\ \A j \in 1 .. OwnLen(e) : j # SlotOf(e, k) => y[c][j] = b[c][j]
  BY DEF OnlyAt
<1>3. \A j \in 1 .. k - 1 : OwnOp(e, j) \in Holders =>
        b[c][j] = TermOf(c, v, IF k - 1 = 1 THEN FoundBy(e, OwnOp(e, j)) ELSE HeldBy(e, OwnOp(e, j)))
  BY Zenon DEF PartRun
<1>4. k \in 1 .. OwnLen(e) /\ k \in Nat
  BY <1>1
<1>5. \A op : op \notin {"unffor", "slpatch", "rsum"} => FoundBy(e, op) = <<>> /\ HeldBy(e, op) = <<>>
  BY DEF FoundBy, HeldBy
<1>6. /\ FoundBy(e, "unffor") = HoleyOf(e) /\ FoundBy(e, "rsum") = TransposedOf(e)
      /\ HeldBy(e, "unffor") = PackedOf(e) /\ HeldBy(e, "rsum") = TransposedOf(e)
  BY DEF FoundBy, HeldBy
<1>7. "unffor" \in Holders /\ "slpatch" \notin Holders /\ "rsum" \in Holders
  BY DEF Holders, ActiveOps
<1>8. e \notin Patchable => HoleyOf(e) = PackedOf(e)
  BY ContentsAre
<1>9. CASE k = 1
  <2>1. OwnOp(e, 1) # "slpatch" /\ OwnOp(e, 1) # "rsum"
    BY <1>1, <1>4, <1>9
  <2>2. SlotOf(e, k) = 1 /\ ResultOf(e, c, k, v, b[c][1]) = TermOf(c, v, FoundBy(e, OwnOp(e, 1)))
    BY <1>9, <2>1 DEF SlotOf, ResultOf
  <2>3. \A j \in 1 .. k : j = 1
    BY <1>9
  <2> QED BY <1>2, <1>9, <2>2, <2>3 DEF PartRun
<1>10. CASE k # 1 /\ OwnOp(e, k) = "slpatch"
  <2>1. k = 2 /\ OwnOp(e, 1) = "unffor"
    BY <1>1, <1>4, <1>10
  <2>2. b[c][1] = TermOf(c, v, HoleyOf(e))
    <3>1. 1 \in 1 .. k - 1 /\ k - 1 = 1
      BY <2>1
    <3> QED BY <1>3, <1>6, <1>7, <2>1, <3>1
  <2>3. SlotOf(e, k) = 1 /\ ResultOf(e, c, k, v, b[c][1]) = TermOf(c, v, PackedOf(e))
    BY <1>10, <2>2, Zenon DEF SlotOf, ResultOf
  <2>4. y[c][1] = TermOf(c, v, PackedOf(e))
    BY <1>2, <2>3
  <2>5. \A j \in 1 .. k : j = 1 \/ j = k
    BY <2>1
  <2> QED BY <1>6, <1>7, <1>10, <2>1, <2>4, <2>5 DEF PartRun
<1>11. CASE k # 1 /\ OwnOp(e, k) # "slpatch"
  <2>1. SlotOf(e, k) = k /\ OwnOp(e, k) # "unffor"
    BY <1>1, <1>4, <1>11 DEF SlotOf
  <2>2. k = 2 => e \notin Patchable
    BY <1>1, <1>4, <1>11
  <2>3. \A j \in 1 .. k - 1 : OwnOp(e, j) \in Holders => b[c][j] = TermOf(c, v, HeldBy(e, OwnOp(e, j)))
    <3> SUFFICES ASSUME NEW j \in 1 .. k - 1, OwnOp(e, j) \in Holders
                 PROVE  b[c][j] = TermOf(c, v, HeldBy(e, OwnOp(e, j)))
      OBVIOUS
    <3>1. CASE k = 2
      <4>1. j = 1 /\ k - 1 = 1 /\ j \in 1 .. OwnLen(e)
        BY <1>4, <3>1
      <4>2. OwnOp(e, j) # "slpatch" /\ OwnOp(e, j) # "rsum"
        BY <1>1, <4>1
      <4>3. FoundBy(e, OwnOp(e, j)) = HeldBy(e, OwnOp(e, j))
        <5>1. CASE OwnOp(e, j) = "unffor"
          BY <1>6, <1>8, <2>2, <3>1, <5>1
        <5>2. CASE OwnOp(e, j) # "unffor"
          BY <1>5, <4>2, <5>2
        <5> QED BY <5>1, <5>2
      <4> QED BY <1>3, <4>1, <4>3
    <3>2. CASE k # 2
      <4>1. k - 1 # 1
        BY <1>4, <3>2
      <4> QED BY <1>3, <4>1
    <3> QED BY <3>1, <3>2
  <2>4. OwnOp(e, k) = "rsum" => b[c][1] = TermOf(c, v, PackedOf(e))
    <3>1. 1 \in 1 .. k - 1
      BY <1>4, <1>11
    <3>2. OwnOp(e, k) = "rsum" => OwnOp(e, 1) = "unffor"
      BY <1>1, <1>4
    <3> QED BY <1>6, <1>7, <2>3, <3>1, <3>2
  <2>5. ResultOf(e, c, k, v, b[c][1]) = TermOf(c, v, HeldBy(e, OwnOp(e, k)))
    <3>1. CASE OwnOp(e, k) = "rsum"
      BY <1>6, <1>11, <2>4, <3>1, Zenon DEF ResultOf
    <3>2. CASE OwnOp(e, k) # "rsum"
      <4>1. FoundBy(e, OwnOp(e, k)) = HeldBy(e, OwnOp(e, k))
        BY <1>5, <1>11, <2>1, <3>2
      <4> QED BY <1>11, <3>2, <4>1, Zenon DEF ResultOf
    <3> QED BY <3>1, <3>2
  <2>6. \A j \in 1 .. k : OwnOp(e, j) \in Holders => y[c][j] = TermOf(c, v, HeldBy(e, OwnOp(e, j)))
    <3> SUFFICES ASSUME NEW j \in 1 .. k, OwnOp(e, j) \in Holders
                 PROVE  y[c][j] = TermOf(c, v, HeldBy(e, OwnOp(e, j)))
      OBVIOUS
    <3>1. CASE j = k
      BY <1>2, <2>1, <2>5, <3>1
    <3>2. CASE j # k
      <4>1. j \in 1 .. k - 1 /\ j \in 1 .. OwnLen(e)
        BY <1>4, <3>2
      <4>2. y[c][j] = b[c][j]
        BY <1>2, <2>1, <3>2, <4>1
      <4> QED BY <2>3, <4>1, <4>2
    <3> QED BY <3>1, <3>2
  <2> QED BY <1>11, <2>6 DEF PartRun
<1> QED BY <1>9, <1>10, <1>11

\* When all of them have run the column is fetched.
LEMMA PartRunDone ==
  ASSUME NEW b, NEW c, NEW v, NEW e \in Expressions \ {"fsst"}, PartRun(b, c, e, ActiveOf(e), v),
         NEW j \in 1 .. OwnLen(e), OwnOp(e, j) \in Holders
  PROVE  b[c][j] = TermOf(c, v, HeldBy(e, OwnOp(e, j)))
<1>1. /\ ActiveOf(e) \in Nat /\ (e \in Patchable => ActiveOf(e) > 1)
      /\ OwnOp(e, j) \in ActiveOps <=> j <= ActiveOf(e)
      /\ (j = 1 => OwnOp(e, j) # "slpatch" /\ OwnOp(e, j) # "rsum")
  BY ActiveFacts
<1>2. j \in 1 .. ActiveOf(e)
  <2>1. OwnOp(e, j) \in ActiveOps
    BY DEF Holders
  <2>2. j \in Nat /\ j >= 1
    OBVIOUS
  <2> QED BY <1>1, <2>1, <2>2
<1>3. b[c][j] = TermOf(c, v, IF ActiveOf(e) = 1 THEN FoundBy(e, OwnOp(e, j)) ELSE HeldBy(e, OwnOp(e, j)))
  BY <1>2, Zenon DEF PartRun
<1>4. CASE ActiveOf(e) = 1
  <2>1. j = 1 /\ e \notin Patchable
    BY <1>1, <1>2, <1>4
  <2>2. HoleyOf(e) = PackedOf(e)
    BY <2>1, ContentsAre
  <2>3. FoundBy(e, OwnOp(e, j)) = HeldBy(e, OwnOp(e, j))
    <3>1. OwnOp(e, j) # "slpatch" /\ OwnOp(e, j) # "rsum"
      BY <1>1, <2>1
    <3> QED BY <2>2, <3>1 DEF FoundBy, HeldBy
  <2> QED BY <1>3, <1>4, <2>3
<1>5. CASE ActiveOf(e) # 1
  BY <1>3, <1>5
<1> QED BY <1>4, <1>5

-----------------------------------------------------------------------------
(* Fetching a vector *)

\* The active operators of a column: its own first ones, or the last one of the
\* column it is equal to.
LEMMA ActiveRefs ==
  ASSUME Ready, NEW c \in 1 .. Len(schema), NEW e, e = schema[c].expr, NEW k \in 1 .. n_active[c]
  PROVE  /\ e # "equal" => ops[c][k] = <<c, k>> /\ n_active[c] = ActiveOf(e)
         /\ e = "equal" =>
              /\ k = 1 /\ n_active[c] = 1 /\ schema[c].of \in 1 .. c - 1
              /\ ops[c][k] = <<schema[c].of, OwnLen(ExprAt(schema, schema[c].of))>>
              /\ OwnLen(ExprAt(schema, schema[c].of)) \in 1 .. ActiveOf(ExprAt(schema, schema[c].of))
<1>1. /\ schema \in Schemas /\ Len(schema) \in Nat \ {0} /\ e \in Expressions \ {"fsst"}
      /\ Len(ops[c]) = Len(DecChains[e])
      /\ ops[c] = [i \in 1 .. Len(DecChains[e]) |-> RefOf(schema, c, i)]
      /\ n_active[c] = ActiveAt(schema, c)
  BY ReadyFacts
<1>2. "equal" \notin External
  BY DEF External
<1>3. Len(DecChains[e]) \in Nat \ {0} /\ ActiveOf(e) \in 0 .. Len(DecChains[e])
  <2>1. DecodersShaped(e)
    BY <1>1, RowOf
  <2> QED BY <2>1 DEF DecodersShaped
<1>4. CASE e # "equal"
  <2>1. n_active[c] = ActiveOf(e)
    BY <1>1, <1>4 DEF ActiveAt, ExprAt
  <2>2. e \notin External
    <3>1. ActiveOf(e) # 0
      BY <1>3, <2>1
    <3> QED BY <1>1, <3>1, ActiveFacts
  <2>3. ops[c][k] = RefOf(schema, c, k)
    BY <1>1, <1>3, <2>1
  <2>4. RefOf(schema, c, k) = <<c, k>>
    BY <1>4, <2>2, Zenon DEF RefOf, ExprAt
  <2> QED BY <1>4, <2>1, <2>3, <2>4
<1>5. CASE e = "equal"
  <2>1. PICK of, n, eo : of = schema[c].of /\ eo = ExprAt(schema, of) /\ n = OwnLen(eo)
    OBVIOUS
  <2>2. of \in 1 .. c - 1 /\ of \in 1 .. Len(schema) /\ eo # "equal"
    <3>1. schema[c].of \in 0 .. c - 1 /\ schema[schema[c].of].expr # "equal" /\ schema[c].of # 0
      <4>1. schema[c].expr = "equal"
        BY <1>5
      <4>2. schema[c].of \in 0 .. c - 1 /\ schema[schema[c].of].expr # "equal"
        BY <1>1, <4>1, SchemaFacts, Zenon
      <4>3. schema[c].of # 0
        BY <1>1, <4>1, SchemaFacts
      <4> QED BY <4>2, <4>3
    <3> QED BY <1>1, <2>1, <3>1 DEF ExprAt
  <2>3. n_active[c] = IF n <= ActiveOf(eo) THEN 1 ELSE 0
    BY <1>1, <1>5, <2>1 DEF ActiveAt, ExprAt
  <2>4. n <= ActiveOf(eo) /\ n_active[c] = 1 /\ k = 1
    <3>1. CASE n <= ActiveOf(eo)
      <4>1. n_active[c] = 1
        BY <2>3, <3>1
      <4> QED BY <3>1, <4>1
    <3>2. CASE ~ (n <= ActiveOf(eo))
      <4>1. n_active[c] = 0
        BY <2>3, <3>2
      <4> QED BY <4>1
    <3> QED BY <3>1, <3>2
  <2>5. n \in Nat \ {0}
    <3>1. eo \in Expressions \ {"fsst"}
      BY <1>1, <2>1, <2>2, SchemaFacts DEF ExprAt
    <3>2. DecodersShaped(eo)
      BY <3>1, RowOf
    <3>3. Len(DecChains[eo]) \in Nat \ {0}
      BY <3>2 DEF DecodersShaped
    <3> QED BY <2>1, <2>2, <3>3 DEF OwnLen
  <2>6. n \in 1 .. ActiveOf(eo)
    <3>1. ActiveOf(eo) \in Nat
      BY <1>1, <2>1, <2>2, SchemaFacts, ActiveFacts DEF ExprAt
    <3> QED BY <2>4, <2>5, <3>1
  <2>7. ops[c][k] = RefOf(schema, c, k)
    BY <1>1, <1>3, <2>4
  <2>8. RefOf(schema, c, k) = <<schema[c].of, OwnLen(ExprAt(schema, schema[c].of))>>
    BY <1>2, <1>5, Zenon DEF RefOf, ExprAt
  <2> QED BY <1>5, <2>1, <2>2, <2>4, <2>6, <2>7, <2>8, Zenon
<1> QED BY <1>4, <1>5

\* An operator of column d at i that is active.
ActiveSpot(d, i) ==
  /\ d \in 1 .. Len(schema) /\ i \in 1 .. OwnLen(ExprAt(schema, d))
  /\ OwnOp(ExprAt(schema, d), i) \in ActiveOps

\* Each reference to an active operator is one to such an operator.
LEMMA ActiveSpots ==
  ASSUME Ready, NEW c \in 1 .. Len(schema), NEW k \in 1 .. n_active[c]
  PROVE  ops[c][k] = <<ops[c][k][1], ops[c][k][2]>> /\ ActiveSpot(ops[c][k][1], ops[c][k][2])
<1>1. PICK e : e = schema[c].expr
  OBVIOUS
<1>2. schema \in Schemas /\ Len(schema) \in Nat \ {0} /\ e \in Expressions \ {"fsst"}
  BY <1>1, ReadyFacts
<1>3. \A d \in 1 .. Len(schema) : \A i \in 1 .. ActiveOf(ExprAt(schema, d)) : ActiveSpot(d, i)
  <2> SUFFICES ASSUME NEW d \in 1 .. Len(schema), NEW i \in 1 .. ActiveOf(ExprAt(schema, d))
               PROVE  ActiveSpot(d, i)
    OBVIOUS
  <2>1. PICK x : x = ExprAt(schema, d)
    OBVIOUS
  <2>2. x \in Expressions \ {"fsst"}
    BY <1>2, <2>1, SchemaFacts DEF ExprAt
  <2>3. /\ ActiveOf(x) \in Nat /\ OwnLen(x) \in Nat /\ ActiveOf(x) <= OwnLen(x)
        /\ \A j \in 1 .. OwnLen(x) : OwnOp(x, j) \in ActiveOps <=> j <= ActiveOf(x)
    BY <2>2, ActiveFacts
  <2>4. i \in 1 .. OwnLen(x) /\ i <= ActiveOf(x)
    BY <2>1, <2>3
  <2> QED BY <2>1, <2>3, <2>4 DEF ActiveSpot
<1>4. CASE e # "equal"
  <2>1. ops[c][k] = <<c, k>> /\ n_active[c] = ActiveOf(e)
    BY <1>1, <1>4, ActiveRefs
  <2>2. ActiveSpot(c, k)
    BY <1>1, <1>3, <2>1 DEF ExprAt
  <2> QED BY <2>1, <2>2
<1>5. CASE e = "equal"
  <2>1. PICK d, n : d = schema[c].of /\ n = OwnLen(ExprAt(schema, d))
    OBVIOUS
  <2>2. d \in 1 .. c - 1 /\ ops[c][k] = <<d, n>> /\ n \in 1 .. ActiveOf(ExprAt(schema, d))
    <3>1. /\ schema[c].of \in 1 .. c - 1
          /\ ops[c][k] = <<schema[c].of, OwnLen(ExprAt(schema, schema[c].of))>>
          /\ OwnLen(ExprAt(schema, schema[c].of)) \in 1 .. ActiveOf(ExprAt(schema, schema[c].of))
      BY <1>1, <1>5, ActiveRefs, Zenon
    <3> QED BY <2>1, <3>1, Zenon
  <2>3. d \in 1 .. Len(schema)
    BY <1>2, <2>2
  <2>4. ActiveSpot(d, n)
    BY <1>3, <2>2, <2>3
  <2> QED BY <2>2, <2>4
<1> QED BY <1>4, <1>5

\* Such an operator leaves buffers behind.
LEMMA SpotRuns ==
  ASSUME Ready, NEW d, NEW i, ActiveSpot(d, i), NEW v \in 1 .. NumVectors,
         NEW b \in BuffersOf(schema, dec)
  PROVE  OnlyAt(schema, dec, b, d, SlotOf(ExprAt(schema, d), i),
                ResultOf(ExprAt(schema, d), d, i, v, b[d][1]), RunOperator(b, <<d, i>>, v))
<1>1. PICK e : e = ExprAt(schema, d)
  OBVIOUS
<1>2. d \in 1 .. Len(schema) /\ i \in 1 .. OwnLen(e) /\ OwnOp(e, i) \in ActiveOps /\ e = schema[d].expr
  BY <1>1 DEF ActiveSpot, ExprAt
<1>3. OnlyAt(schema, dec, b, d, SlotOf(e, i), ResultOf(e, d, i, v, b[d][1]), RunOperator(b, <<d, i>>, v))
  BY <1>2, OperatorWrites
<1> QED BY <1>1, <1>3

\* g goes through the active operators of a column.
RunBy(b, c, v, g) ==
  /\ RunColumn(b, c, v) = g[n_active[c]]
  /\ g[0] = b
  /\ \A k \in 1 .. n_active[c] : g[k] = RunOperator(g[k - 1], ops[c][k], v)

LEMMA RunColumnSteps ==
  ASSUME Ready, NEW c \in 1 .. Len(schema), NEW v \in 1 .. NumVectors,
         NEW b \in BuffersOf(schema, dec), n_active[c] \in Nat
  PROVE  \E g \in [0 .. n_active[c] -> BuffersOf(schema, dec)] : RunBy(b, c, v, g)
<1> DEFINE top == n_active[c]
           S == BuffersOf(schema, dec)
           Step(n, x) == RunOperator(x, ops[c][n], v)
           F == [p \in (1 .. top) \X S |-> Step(p[1], p[2])]
           Eq(g) == g = [k \in 0 .. top |-> IF k = 0 THEN b ELSE Step(k, g[k - 1])]
<1>1. top \in Nat /\ b \in S
  OBVIOUS
<1>2. F \in [(1 .. top) \X S -> S]
  <2>1. ASSUME NEW n \in 1 .. top, NEW x \in S PROVE Step(n, x) \in S
    <3>1. PICK d, i : d = ops[c][n][1] /\ i = ops[c][n][2]
      OBVIOUS
    <3>2. ops[c][n] = <<d, i>> /\ ActiveSpot(d, i)
      BY <3>1, ActiveSpots
    <3>3. OnlyAt(schema, dec, x, d, SlotOf(ExprAt(schema, d), i),
                 ResultOf(ExprAt(schema, d), d, i, v, x[d][1]), RunOperator(x, <<d, i>>, v))
      BY <3>2, SpotRuns
    <3>4. RunOperator(x, <<d, i>>, v) \in S
      BY <3>3, Zenon DEF OnlyAt
    <3> QED BY <3>2, <3>4
  <2> HIDE DEF Step, S
  <2> QED BY <2>1
<1>3. PICK g \in [0 .. top -> S] : Recursive(top, b, F, g)
  <2> HIDE DEF F, S, top
  <2> QED BY <1>1, <1>2, Recursion, Zenon
<1>4. g[0] = b /\ \A n \in 1 .. top : g[n] = Step(n, g[n - 1])
  <2>1. g[0] = b
    BY <1>3 DEF Recursive
  <2>2. ASSUME NEW n \in 1 .. top PROVE g[n] = Step(n, g[n - 1])
    <3>1. g[n - 1] \in S /\ g[n] = F[<<n, g[n - 1]>>]
      <4>1. n - 1 \in 0 .. top
        BY <1>1
      <4> HIDE DEF F, top, S
      <4>2. g[n] = F[<<n, g[n - 1]>>]
        BY <1>3, Zenon DEF Recursive
      <4> QED BY <4>1, <4>2
    <3>2. F[<<n, g[n - 1]>>] = Step(n, g[n - 1])
      <4> HIDE DEF Step, S
      <4> QED BY <3>1
    <3> QED BY <3>1, <3>2
  <2> QED BY <2>1, <2>2
<1>5. Eq(g)
  <2> HIDE DEF Step, S, F
  <2> QED BY <1>1, <1>4
<1>6. RunColumn(b, c, v) = (CHOOSE h : Eq(h))[top]
  BY Zenon DEF RunColumn
<1> DEFINE k == CHOOSE h : Eq(h)
<1>7. Eq(k)
  <2> HIDE DEF Eq
  <2> QED BY <1>5, Zenon
<1> HIDE DEF k
<1>8. k[0] = b /\ \A n \in 1 .. top : k[n] = Step(n, k[n - 1])
  <2> HIDE DEF Step
  <2>1. 0 \in 0 .. top /\ \A n \in 1 .. top : n \in 0 .. top /\ n # 0
    BY <1>1
  <2> QED BY <2>1, <1>7
<1>9. StepsIn(S, top, b, F, k)
  <2> SUFFICES ASSUME NEW n \in 1 .. top, k[n - 1] \in S PROVE k[n] = F[<<n, k[n - 1]>>]
    BY <1>8, Zenon DEF StepsIn
  <2> HIDE DEF Step, S
  <2> QED BY <1>8
<1>10. \A n \in 0 .. top : k[n] \in S
  <2> HIDE DEF F, S, top, Eq
  <2> QED BY <1>1, <1>2, <1>9, RecursionTyped, Zenon
<1>11. k \in [0 .. top -> S]
  <2> HIDE DEF Step, S
  <2> QED BY <1>7, <1>10
<1>12. RunBy(b, c, v, k)
  <2> HIDE DEF Eq
  <2> QED BY <1>6, <1>8, Zenon DEF RunBy, k
<1> QED BY <1>11, <1>12, Zenon

\* What is held by the operators of one column.
ColumnHeld(s, b, c, v) ==
  \A j \in 1 .. OwnLen(ExprAt(s, c)) :
    OwnOp(ExprAt(s, c), j) \in Holders => b[c][j] = Held(s, c, j, v)

\* One column more is fetched when it is, and the ones before it are left alone.
LEMMA OneMoreFetched ==
  ASSUME NEW s, NEW c \in Nat, NEW b, NEW y, NEW v, Fetched(s, b, c - 1, v),
         \A a \in 1 .. c - 1 : \A j \in 1 .. OwnLen(ExprAt(s, a)) : y[a][j] = b[a][j],
         ColumnHeld(s, y, c, v)
  PROVE  Fetched(s, y, c, v)
<1> SUFFICES ASSUME NEW a \in 1 .. c, NEW j \in 1 .. OwnLen(ExprAt(s, a)),
                    OwnOp(ExprAt(s, a), j) \in Holders
             PROVE  y[a][j] = Held(s, a, j, v)
  BY DEF Fetched
<1>1. CASE a = c
  BY <1>1, Zenon DEF ColumnHeld
<1>2. CASE a # c
  <2>1. a \in 1 .. c - 1
    BY <1>2
  <2>2. b[a][j] = Held(s, a, j, v)
    BY <2>1, Zenon DEF Fetched
  <2> QED BY <2>1, <2>2
<1> QED BY <1>1, <1>2

\* The operators of a column fetch it.
LEMMA OwnFetched ==
  ASSUME Ready, NEW c \in 1 .. Len(schema), NEW v \in 1 .. NumVectors,
         NEW b \in BuffersOf(schema, dec), schema[c].expr # "equal", Fetched(schema, b, c - 1, v),
         NEW g \in [0 .. n_active[c] -> BuffersOf(schema, dec)], RunBy(b, c, v, g)
  PROVE  Fetched(schema, RunColumn(b, c, v), c, v)
<1>1. PICK e, top : e = schema[c].expr /\ top = n_active[c]
  OBVIOUS
<1>2. /\ schema \in Schemas /\ Len(schema) \in Nat \ {0} /\ e \in Expressions \ {"fsst"}
      /\ n_active[c] = ActiveAt(schema, c) /\ Len(dec[c]) = OwnLen(e)
  BY <1>1, ReadyFacts
<1>3. top = ActiveOf(e) /\ top \in Nat /\ OwnLen(e) \in Nat /\ top <= OwnLen(e)
      /\ \A k \in 1 .. OwnLen(e) : OwnOp(e, k) \in ActiveOps <=> k <= ActiveOf(e)
  <2>1. top = ActiveOf(e)
    BY <1>1, <1>2 DEF ActiveAt, ExprAt
  <2> QED BY <1>2, <2>1, ActiveFacts
<1>4. g[0] = b /\ RunColumn(b, c, v) = g[top] /\ \A k \in 1 .. top : g[k] = RunOperator(g[k - 1], ops[c][k], v)
  BY <1>1 DEF RunBy
<1>5. \A k \in 1 .. top : ops[c][k] = <<c, k>>
  BY <1>1, ActiveRefs
<1>6. \A k \in 0 .. top : g[k] \in BuffersOf(schema, dec)
  BY <1>1
<1> DEFINE Right(k) == /\ PartRun(g[k], c, e, k, v)
                       /\ \A a \in 1 .. Len(schema) : a # c => g[k][a] = b[a]
           S == {k \in Nat : k <= top => Right(k)}
<1>7. 0 \in S
  BY <1>4 DEF PartRun
<1>8. ASSUME NEW n \in Nat, n \in S PROVE n + 1 \in S
  <2> SUFFICES ASSUME n + 1 <= top PROVE Right(n + 1)
    OBVIOUS
  <2>1. PICK k : k = n + 1
    OBVIOUS
  <2>2. k \in 1 .. top /\ k - 1 = n /\ n \in 0 .. top
    BY <1>3, <2>1
  <2>3. Right(n)
    BY <1>8, <2>2
  <2>4. PICK y : y = RunOperator(g[n], <<c, k>>, v)
    OBVIOUS
  <2>5. g[k] = y
    BY <1>4, <1>5, <2>2, <2>4
  <2>6. k \in 1 .. OwnLen(e) /\ OwnOp(e, k) \in ActiveOps /\ k \in 1 .. ActiveOf(e)
    BY <1>3, <2>2
  <2>7. OnlyAt(schema, dec, g[n], c, SlotOf(e, k), ResultOf(e, c, k, v, g[n][c][1]), y)
    <3>1. g[n] \in BuffersOf(schema, dec)
      BY <1>6, <2>2
    <3> QED BY <1>1, <2>4, <2>6, <3>1, OperatorWrites
  <2>8. PartRun(y, c, e, k, v)
    <3>1. PartRun(g[n], c, e, k - 1, v)
      BY <2>2, <2>3
    <3> HIDE DEF Right, S
    <3> QED BY <1>2, <2>6, <2>7, <3>1, PartRunStep
  <2>9. \A a \in 1 .. Len(schema) : a # c => y[a] = b[a]
    <3>1. \A a \in 1 .. Len(schema) : a # c => y[a] = g[n][a]
      BY <2>7 DEF OnlyAt
    <3> QED BY <2>3, <3>1
  <2> QED BY <2>1, <2>5, <2>8, <2>9
<1>9. Right(top)
  <2>1. Nat \subseteq S
    <3> HIDE DEF S
    <3> QED BY <1>7, <1>8, Successors
  <2> HIDE DEF Right
  <2> QED BY <1>3, <2>1
<1>10. PICK y : y = g[top]
  OBVIOUS
<1>11. ColumnHeld(schema, y, c, v)
  <2>1. PartRun(y, c, e, ActiveOf(e), v)
    BY <1>3, <1>9, <1>10
  <2>2. \A j \in 1 .. OwnLen(e) : OwnOp(e, j) \in Holders => y[c][j] = TermOf(c, v, HeldBy(e, OwnOp(e, j)))
    BY <1>2, <2>1, PartRunDone
  <2> QED BY <1>1, <2>2, Zenon DEF ColumnHeld, Held, TermOf, ExprAt
<1>12. \A a \in 1 .. c - 1 : \A j \in 1 .. OwnLen(ExprAt(schema, a)) : y[a][j] = b[a][j]
  <2>1. \A a \in 1 .. c - 1 : a \in 1 .. Len(schema) /\ a # c
    BY <1>2
  <2>2. \A a \in 1 .. Len(schema) : a # c => y[a] = b[a]
    BY <1>9, <1>10
  <2> QED BY <2>1, <2>2, Zenon
<1>13. c \in Nat
  BY <1>2
<1>14. Fetched(schema, y, c, v)
  BY <1>11, <1>12, <1>13, OneMoreFetched
<1> QED BY <1>4, <1>10, <1>14

\* The first n buffers of column d, and those of other columns, are those of b.
LeftAlone(s, b, d, n, y) ==
  /\ \A a \in 1 .. Len(s) : a # d => y[a] = b[a]
  /\ \A j \in 1 .. n : y[d][j] = b[d][j]

\* Running the last operator of a column again leaves all buffers as they are.
LEMMA RunAgain ==
  ASSUME Ready, NEW d \in 1 .. Len(schema), NEW e, e = ExprAt(schema, d), NEW n, n = OwnLen(e),
         n \in 1 .. ActiveOf(e), NEW v \in 1 .. NumVectors, NEW b \in BuffersOf(schema, dec),
         ColumnHeld(schema, b, d, v), e # "equal"
  PROVE  LeftAlone(schema, b, d, n, RunOperator(b, <<d, n>>, v))
<1>1. schema \in Schemas /\ e \in Expressions \ {"fsst"} /\ e = schema[d].expr /\ Len(dec[d]) = OwnLen(e)
  BY ReadyFacts DEF ExprAt
<1>2. /\ ActiveOf(e) \in Nat /\ OwnLen(e) \in Nat /\ ActiveOf(e) <= OwnLen(e)
      /\ (e \in External \cup {"equal"} => ActiveOf(e) = 0)
      /\ \A k \in 1 .. OwnLen(e) :
           /\ OwnOp(e, k) \in ActiveOps <=> k <= ActiveOf(e)
           /\ (OwnOp(e, k) = "slpatch" => k = 2 /\ OwnOp(e, 1) = "unffor")
  BY <1>1, ActiveFacts
<1>3. PICK op : op = OwnOp(e, n)
  OBVIOUS
<1>4. n \in 1 .. OwnLen(e) /\ op \in ActiveOps /\ n \in Nat /\ 1 \in 1 .. n
  BY <1>2, <1>3
<1>5. op # "rsum" /\ (op = "unffor" => e \notin Patchable)
  <2>1. e \notin External
    BY <1>2
  <2>2. op = DecChains[e][Len(DecChains[e])]
    BY <1>3, <2>1 DEF OwnOp, PlaceOf, OwnLen
  <2>3. LastShaped(e)
    BY <1>1, RowOf
  <2> QED BY <2>2, <2>3 DEF LastShaped
<1>6. PICK y : y = RunOperator(b, <<d, n>>, v)
  OBVIOUS
<1>7. OnlyAt(schema, dec, b, d, SlotOf(e, n), ResultOf(e, d, n, v, b[d][1]), y)
  BY <1>1, <1>3, <1>4, <1>6, OperatorWrites
<1>8. /\ y[d][SlotOf(e, n)] = ResultOf(e, d, n, v, b[d][1])
      /\ \A a \in 1 .. Len(schema) : a # d => y[a] = b[a]
      /\ \A j \in 1 .. n : j # SlotOf(e, n) => y[d][j] = b[d][j]
  BY <1>1, <1>7 DEF OnlyAt
<1>9. \A j \in 1 .. n : OwnOp(e, j) \in Holders => b[d][j] = TermOf(d, v, HeldBy(e, OwnOp(e, j)))
  BY Zenon DEF ColumnHeld, Held, TermOf
<1>10. b[d][SlotOf(e, n)] = ResultOf(e, d, n, v, b[d][1])
  <2>1. CASE op = "slpatch"
    <3>1. OwnOp(e, 1) = "unffor" /\ "unffor" \in Holders
      BY <1>2, <1>3, <1>4, <2>1 DEF Holders, ActiveOps
    <3>2. HeldBy(e, "unffor") = PackedOf(e)
      BY DEF HeldBy
    <3>3. b[d][1] = TermOf(d, v, PackedOf(e))
      BY <1>4, <1>9, <3>1, <3>2
    <3>4. SlotOf(e, n) = 1
      BY <1>3, <2>1 DEF SlotOf
    <3>5. ResultOf(e, d, n, v, b[d][1]) = TermOf(d, v, PackedOf(e))
      BY <1>3, <2>1, <3>3, Zenon DEF ResultOf
    <3> QED BY <3>3, <3>4, <3>5
  <2>2. CASE op # "slpatch"
    <3>1. op \in Holders
      BY <1>4, <2>2 DEF Holders
    <3>2. n \in 1 .. n
      BY <1>4
    <3>3. b[d][n] = TermOf(d, v, HeldBy(e, op))
      BY <1>3, <1>9, <3>1, <3>2
    <3>4. SlotOf(e, n) = n
      BY <1>3, <2>2 DEF SlotOf
    <3>5. ResultOf(e, d, n, v, b[d][1]) = TermOf(d, v, FoundBy(e, op))
      BY <1>3, <1>5, <2>2, Zenon DEF ResultOf
    <3>6. FoundBy(e, op) = HeldBy(e, op)
      <4>1. op = "unffor" => HoleyOf(e) = PackedOf(e)
        BY <1>5, ContentsAre
      <4> QED BY <1>5, <2>2, <4>1 DEF FoundBy, HeldBy
    <3> QED BY <3>3, <3>4, <3>5, <3>6
  <2> QED BY <2>1, <2>2
<1>11. \A j \in 1 .. n : y[d][j] = b[d][j]
  BY <1>8, <1>10
<1> QED BY <1>6, <1>8, <1>11 DEF LeftAlone

\* A column that is equal to another one changes nothing.
LEMMA EqualFetched ==
  ASSUME Ready, NEW c \in 1 .. Len(schema), NEW v \in 1 .. NumVectors,
         NEW b \in BuffersOf(schema, dec), schema[c].expr = "equal", Fetched(schema, b, c - 1, v),
         NEW g, RunBy(b, c, v, g), n_active[c] \in {0, 1}
  PROVE  Fetched(schema, RunColumn(b, c, v), c, v)
<1>1. PICK d, e, n, y : /\ d = schema[c].of /\ e = ExprAt(schema, d) /\ n = OwnLen(e)
                        /\ y = RunColumn(b, c, v)
  OBVIOUS
<1>2. schema \in Schemas /\ Len(schema) \in Nat \ {0} /\ c \in Nat
  <2>1. schema \in Schemas
    BY DEF Ready, IInv
  <2> QED BY <2>1, SchemaFacts
<1>3. /\ y = g[n_active[c]] /\ g[0] = b
      /\ \A k \in 1 .. n_active[c] : g[k] = RunOperator(g[k - 1], ops[c][k], v)
  BY <1>1 DEF RunBy
<1>4. \A a \in 1 .. c - 1 : \A j \in 1 .. OwnLen(ExprAt(schema, a)) : y[a][j] = b[a][j]
  <2>1. CASE n_active[c] = 0
    BY <1>3, <2>1
  <2>2. CASE n_active[c] = 1
    <3>1. 1 \in 1 .. n_active[c]
      BY <2>2
    <3>2. d \in 1 .. c - 1 /\ ops[c][1] = <<d, n>> /\ n \in 1 .. ActiveOf(e)
      <4>1. /\ schema[c].of \in 1 .. c - 1
            /\ ops[c][1] = <<schema[c].of, OwnLen(ExprAt(schema, schema[c].of))>>
            /\ OwnLen(ExprAt(schema, schema[c].of)) \in 1 .. ActiveOf(ExprAt(schema, schema[c].of))
        BY <3>1, ActiveRefs, Zenon
      <4> QED BY <1>1, <4>1, Zenon
    <3>3. y = RunOperator(b, <<d, n>>, v)
      <4>1. 1 - 1 = 0
        OBVIOUS
      <4> QED BY <1>3, <2>2, <3>1, <3>2, <4>1
    <3>4. d \in 1 .. Len(schema)
      BY <1>2, <3>2
    <3>5. e # "equal"
      <4>1. e \in Expressions \ {"fsst"}
        BY <1>1, <1>2, <3>4, SchemaFacts DEF ExprAt
      <4>2. e = "equal" => ActiveOf(e) = 0
        BY <4>1, ActiveFacts
      <4> QED BY <3>2, <4>2
    <3>6. ColumnHeld(schema, b, d, v)
      BY <3>2, Zenon DEF Fetched, ColumnHeld
    <3>7. /\ \A a \in 1 .. Len(schema) : a # d => y[a] = b[a]
          /\ \A j \in 1 .. n : y[d][j] = b[d][j]
      <4>1. e = ExprAt(schema, d) /\ n = OwnLen(e) /\ n \in 1 .. ActiveOf(e)
        BY <1>1, <3>2
      <4>2. LeftAlone(schema, b, d, n, RunOperator(b, <<d, n>>, v))
        BY <3>4, <3>5, <3>6, <4>1, RunAgain, SMT
      <4> QED BY <3>3, <4>2, Zenon DEF LeftAlone
    <3> SUFFICES ASSUME NEW a \in 1 .. c - 1, NEW j \in 1 .. OwnLen(ExprAt(schema, a))
                 PROVE  y[a][j] = b[a][j]
      OBVIOUS
    <3>8. CASE a = d
      BY <1>1, <3>7, <3>8
    <3>9. CASE a # d
      <4>1. a \in 1 .. Len(schema)
        BY <1>2
      <4> QED BY <3>7, <3>9, <4>1
    <3> QED BY <3>8, <3>9
  <2> QED BY <2>1, <2>2
<1>5. ColumnHeld(schema, y, c, v)
  <2>1. OwnLen("equal") = 0
    BY DEF OwnLen, External
  <2>2. OwnLen(ExprAt(schema, c)) = 0
    BY <2>1 DEF ExprAt
  <2> QED BY <2>2 DEF ColumnHeld
<1>6. Fetched(schema, y, c, v)
  BY <1>2, <1>4, <1>5, OneMoreFetched
<1> QED BY <1>1, <1>6

\* So each column is fetched behind the ones before it.
LEMMA ColumnFetched ==
  ASSUME Ready, NEW c \in 1 .. Len(schema), NEW v \in 1 .. NumVectors,
         NEW b \in BuffersOf(schema, dec)
  PROVE  /\ RunColumn(b, c, v) \in BuffersOf(schema, dec)
         /\ Fetched(schema, b, c - 1, v) => Fetched(schema, RunColumn(b, c, v), c, v)
<1>1. PICK e : e = schema[c].expr
  OBVIOUS
<1>2. schema \in Schemas /\ e \in Expressions \ {"fsst"} /\ n_active[c] = ActiveAt(schema, c)
  BY <1>1, ReadyFacts
<1>3. n_active[c] \in Nat /\ (e = "equal" => n_active[c] \in {0, 1})
  <2>1. CASE e = "equal"
    <3>1. n_active[c] \in {0, 1}
      BY <1>1, <1>2, <2>1 DEF ActiveAt, ExprAt
    <3> QED BY <3>1
  <2>2. CASE e # "equal"
    <3>1. n_active[c] = ActiveOf(e)
      BY <1>1, <1>2, <2>2 DEF ActiveAt, ExprAt
    <3> QED BY <1>2, <2>2, <3>1, ActiveFacts
  <2> QED BY <2>1, <2>2
<1>4. PICK g \in [0 .. n_active[c] -> BuffersOf(schema, dec)] : RunBy(b, c, v, g)
  BY <1>3, RunColumnSteps
<1>5. RunColumn(b, c, v) \in BuffersOf(schema, dec)
  <2>1. RunColumn(b, c, v) = g[n_active[c]]
    BY <1>4 DEF RunBy
  <2>2. n_active[c] \in 0 .. n_active[c]
    BY <1>3
  <2> QED BY <2>1, <2>2
<1>6. ASSUME Fetched(schema, b, c - 1, v) PROVE Fetched(schema, RunColumn(b, c, v), c, v)
  <2>1. CASE e = "equal"
    BY <1>1, <1>3, <1>4, <1>6, <2>1, EqualFetched
  <2>2. CASE e # "equal"
    BY <1>1, <1>4, <1>6, <2>2, OwnFetched
  <2> QED BY <2>1, <2>2
<1> QED BY <1>5, <1>6

\* h goes through the columns.
FetchBy(v, h) ==
  /\ GetChunk(v) = h[Len(schema)]
  /\ h[0] = bufs
  /\ \A c \in 1 .. Len(schema) : h[c] = RunColumn(h[c - 1], c, v)

LEMMA GetChunkSteps ==
  ASSUME Ready, NEW v \in 1 .. NumVectors
  PROVE  \E h \in [0 .. Len(schema) -> BuffersOf(schema, dec)] : FetchBy(v, h)
<1> DEFINE top == Len(schema)
           S == BuffersOf(schema, dec)
           Step(n, x) == RunColumn(x, n, v)
           F == [p \in (1 .. top) \X S |-> Step(p[1], p[2])]
           Eq(g) == g = [c \in 0 .. top |-> IF c = 0 THEN bufs ELSE Step(c, g[c - 1])]
<1>1. top \in Nat /\ bufs \in S
  <2>1. schema \in Schemas /\ bufs \in S
    BY DEF Ready, IInv
  <2> QED BY <2>1, SchemasAssumption
<1>2. F \in [(1 .. top) \X S -> S]
  <2>1. ASSUME NEW n \in 1 .. top, NEW x \in S PROVE Step(n, x) \in S
    BY ColumnFetched
  <2> HIDE DEF Step, S
  <2> QED BY <2>1
<1>3. PICK g \in [0 .. top -> S] : Recursive(top, bufs, F, g)
  <2> HIDE DEF F, S, top
  <2> QED BY <1>1, <1>2, Recursion, Zenon
<1>4. g[0] = bufs /\ \A n \in 1 .. top : g[n] = Step(n, g[n - 1])
  <2>1. g[0] = bufs
    BY <1>3 DEF Recursive
  <2>2. ASSUME NEW n \in 1 .. top PROVE g[n] = Step(n, g[n - 1])
    <3>1. g[n - 1] \in S /\ g[n] = F[<<n, g[n - 1]>>]
      <4>1. n - 1 \in 0 .. top
        BY <1>1
      <4> HIDE DEF F, top, S
      <4>2. g[n] = F[<<n, g[n - 1]>>]
        BY <1>3, Zenon DEF Recursive
      <4> QED BY <4>1, <4>2
    <3>2. F[<<n, g[n - 1]>>] = Step(n, g[n - 1])
      <4> HIDE DEF Step, S
      <4> QED BY <3>1
    <3> QED BY <3>1, <3>2
  <2> QED BY <2>1, <2>2
<1>5. Eq(g)
  <2> HIDE DEF Step, S, F
  <2> QED BY <1>1, <1>4
<1>6. GetChunk(v) = (CHOOSE h : Eq(h))[top]
  BY Zenon DEF GetChunk
<1> DEFINE k == CHOOSE h : Eq(h)
<1>7. Eq(k)
  <2> HIDE DEF Eq
  <2> QED BY <1>5, Zenon
<1> HIDE DEF k
<1>8. k[0] = bufs /\ \A n \in 1 .. top : k[n] = Step(n, k[n - 1])
  <2> HIDE DEF Step
  <2>1. 0 \in 0 .. top /\ \A n \in 1 .. top : n \in 0 .. top /\ n # 0
    BY <1>1
  <2> QED BY <2>1, <1>7
<1>9. StepsIn(S, top, bufs, F, k)
  <2> SUFFICES ASSUME NEW n \in 1 .. top, k[n - 1] \in S PROVE k[n] = F[<<n, k[n - 1]>>]
    BY <1>8, Zenon DEF StepsIn
  <2> HIDE DEF Step, S
  <2> QED BY <1>8
<1>10. \A n \in 0 .. top : k[n] \in S
  <2> HIDE DEF F, S, top, Eq
  <2> QED BY <1>1, <1>2, <1>9, RecursionTyped, Zenon
<1>11. k \in [0 .. top -> S]
  <2> HIDE DEF Step, S
  <2> QED BY <1>7, <1>10
<1>12. FetchBy(v, k)
  <2> HIDE DEF Eq
  <2> QED BY <1>6, <1>8, Zenon DEF FetchBy, k
<1> QED BY <1>11, <1>12, Zenon

\* Whatever the buffers held, they hold vector v of every column afterwards.
LEMMA ChunkFetched ==
  ASSUME Ready, NEW v \in 1 .. NumVectors
  PROVE  GetChunk(v) \in BuffersOf(schema, dec) /\ Fetched(schema, GetChunk(v), Len(schema), v)
<1>1. schema \in Schemas /\ Len(schema) \in Nat
  <2>1. schema \in Schemas
    BY DEF Ready, IInv
  <2> QED BY <2>1, SchemasAssumption
<1>2. PICK h \in [0 .. Len(schema) -> BuffersOf(schema, dec)] : FetchBy(v, h)
  BY GetChunkSteps
<1>3. /\ GetChunk(v) = h[Len(schema)]
      /\ \A c \in 1 .. Len(schema) : h[c] = RunColumn(h[c - 1], c, v)
  BY <1>2 DEF FetchBy
<1> DEFINE S == {n \in Nat : n <= Len(schema) => Fetched(schema, h[n], n, v)}
<1>4. 0 \in S
  BY DEF Fetched
<1>5. ASSUME NEW n \in Nat, n \in S PROVE n + 1 \in S
  <2> SUFFICES ASSUME n + 1 <= Len(schema) PROVE Fetched(schema, h[n + 1], n + 1, v)
    OBVIOUS
  <2>1. PICK c : c = n + 1
    OBVIOUS
  <2>2. c \in 1 .. Len(schema) /\ c - 1 = n /\ n \in 0 .. Len(schema)
    BY <1>1, <2>1
  <2>3. h[n] \in BuffersOf(schema, dec) /\ Fetched(schema, h[n], c - 1, v)
    BY <1>2, <1>5, <2>2
  <2>4. Fetched(schema, RunColumn(h[n], c, v), c, v)
    BY <2>2, <2>3, ColumnFetched
  <2>5. h[c] = RunColumn(h[n], c, v)
    BY <1>3, <2>2
  <2> QED BY <2>1, <2>4, <2>5
<1>6. Fetched(schema, h[Len(schema)], Len(schema), v)
  <2>1. Nat \subseteq S
    <3> HIDE DEF S
    <3> QED BY <1>4, <1>5, Successors
  <2> QED BY <1>1, <2>1
<1>7. h[Len(schema)] \in BuffersOf(schema, dec)
  BY <1>1
<1> QED BY <1>3, <1>6, <1>7

-----------------------------------------------------------------------------
(* Handing a vector over *)

\* The root of the model is the root of the schema.
LEMMA RootColumnIs ==
  ASSUME schema \in Schemas
  PROVE  RootColumn = RootsOf(schema)
BY Zenon DEF RootColumn, RootsOf, Cols

\* What the last operator of a column of its own reads.
LEMMA LastOwn ==
  ASSUME NEW e \in Expressions \ {"fsst"}, e # "equal"
  PROVE  /\ OwnLen(e) \in Nat \ {0}
         /\ OwnOp(e, OwnLen(e)) \notin {"rsum", "scan", "shared", "first_column"}
         /\ (OwnOp(e, OwnLen(e)) \in {"unffor", "slpatch"} => PackedOf(e) = <<>>)
         /\ (OwnOp(e, OwnLen(e)) = "unffor" => e \notin Patchable)
         /\ (OwnOp(e, OwnLen(e)) = "transpose" => e = "delta")
         /\ (OwnOp(e, OwnLen(e)) \in {"rle_map", "rle_map_str"} => e \in RleExprs)
         /\ (OwnOp(e, OwnLen(e)) = "fsst" => e \in FsstDeltas)
         /\ (OwnOp(e, OwnLen(e)) \in BehindFirst => e \in Dictionaries)
         /\ (OwnOp(e, OwnLen(e)) \in {"transpose", "rle_map", "rle_map_str", "fsst"} =>
               OwnLen(e) - 1 \in 1 .. OwnLen(e) /\ OwnOp(e, OwnLen(e) - 1) = "rsum")
<1>1. DecodersShaped(e) /\ LastShaped(e)
  BY RowOf
<1>2. PICK L, op : L = Len(DecChains[e]) /\ op = DecChains[e][L]
  OBVIOUS
<1>3. L \in Nat \ {0} /\ (e \in External => L = 2 /\ DecChains[e][2] = e)
  BY <1>1, <1>2 DEF DecodersShaped
<1>4. /\ op \notin {"rsum", "scan", "first_column"}
      /\ op = "shared" => e = "equal"
      /\ (op \in {"unffor", "slpatch"} => PackedOf(e) = <<>>)
      /\ (op = "unffor" => e \notin Patchable)
      /\ (op = "transpose" => e = "delta")
      /\ (op \in {"rle_map", "rle_map_str"} => e \in RleExprs)
      /\ (op = "fsst" => e \in FsstDeltas)
  BY <1>1, <1>2 DEF LastShaped
<1>5. L \in 1 .. L
  BY <1>3
<1>6. op \in {"transpose", "rle_map", "rle_map_str", "fsst"} => L > 2 /\ DecChains[e][L - 1] = "rsum"
  BY <1>1, <1>2, <1>5 DEF DecodersShaped
<1>7. op \in BehindFirst => e \in Dictionaries
  <2>1. op \in {"dict", "dict_str", "fsst_dict"} => e \in Dictionaries
    BY <1>1, <1>2, <1>5 DEF DecodersShaped
  <2> QED BY <2>1 DEF BehindFirst
<1>8. OwnOp(e, OwnLen(e)) = op /\ OwnLen(e) \in Nat \ {0}
  <2>1. CASE e \in External
    <3>1. OwnLen(e) = 1 /\ OwnOp(e, 1) = DecChains[e][2]
      BY <2>1 DEF OwnLen, OwnOp, PlaceOf
    <3> QED BY <1>2, <1>3, <2>1, <3>1
  <2>2. CASE e \notin External
    <3>1. OwnLen(e) = L /\ OwnOp(e, L) = DecChains[e][L]
      BY <1>2, <2>2 DEF OwnLen, OwnOp, PlaceOf
    <3> QED BY <1>2, <1>3, <3>1
  <2> QED BY <2>1, <2>2
<1>9. op \in {"transpose", "rle_map", "rle_map_str", "fsst"} =>
        OwnLen(e) - 1 \in 1 .. OwnLen(e) /\ OwnOp(e, OwnLen(e) - 1) = "rsum"
  <2> SUFFICES ASSUME op \in {"transpose", "rle_map", "rle_map_str", "fsst"}
               PROVE  OwnLen(e) - 1 \in 1 .. OwnLen(e) /\ OwnOp(e, OwnLen(e) - 1) = "rsum"
    OBVIOUS
  <2>1. e \notin External
    BY <1>3, <1>6
  <2>2. OwnLen(e) = L /\ \A k : OwnOp(e, k) = DecChains[e][k]
    BY <1>2, <2>1 DEF OwnLen, OwnOp, PlaceOf
  <2> QED BY <1>3, <1>6, <2>2
<1> QED BY <1>4, <1>7, <1>8, <1>9

\* What the tables say of the operators that read a buffer when they hand over.
LEMMA ReadTables ==
  /\ TransposedOf("delta") = <<"transpose">>
  /\ \A e \in RleExprs : TransposedOf(e) = <<"runs", "transpose">>
  /\ \A e \in FsstDeltas : TransposedOf(e) = <<"offsets", "transpose">>
  /\ \A e \in OwnDicts : PackedOf(e) = <<"index">>
<1>1. /\ "delta" \notin RleExprs \cup FsstDeltas \cup OwnDicts
      /\ \A e \in RleExprs : e # "delta" /\ e \notin FsstDeltas /\ e \notin OwnDicts
      /\ \A e \in FsstDeltas : e # "delta" /\ e \notin RleExprs /\ e \notin OwnDicts
      /\ \A e \in OwnDicts : e # "delta" /\ e \notin RleExprs /\ e \notin FsstDeltas
  BY DEF RleExprs, FsstDeltas, OwnDicts, Dictionaries, External
<1> QED BY <1>1, Zenon DEF TransposedOf, PackedOf

\* The last operator of a column hands over the vector.
LEMMA OwnMaterialized ==
  ASSUME Ready, NEW c \in 1 .. Len(schema), NEW e, e = schema[c].expr, e # "equal",
         NEW v \in 1 .. NumVectors, NEW b, Fetched(schema, b, Len(schema), v)
  PROVE  Materialized(<<c, OwnLen(e)>>, v, b) = TermOf(c, v, <<>>)
<1>1. /\ schema \in Schemas /\ e \in Expressions \ {"fsst"} /\ e = ExprAt(schema, c)
      /\ \A j \in 1 .. OwnLen(e) : DecoderRight(schema, c, j, dec[c][j])
  BY ReadyFacts DEF ExprAt
<1>2. PICK n, op, o, read : /\ n = OwnLen(e) /\ op = OwnOp(e, n) /\ o = dec[c][n]
                            /\ read = TermOf(c, v, FoundBy(e, op))
  OBVIOUS
<1>3. /\ n \in Nat \ {0} /\ op \notin {"rsum", "scan", "shared", "first_column"}
      /\ (op \in {"unffor", "slpatch"} => PackedOf(e) = <<>>)
      /\ (op = "unffor" => e \notin Patchable)
      /\ (op = "transpose" => e = "delta")
      /\ (op \in {"rle_map", "rle_map_str"} => e \in RleExprs)
      /\ (op = "fsst" => e \in FsstDeltas)
      /\ (op \in BehindFirst => e \in Dictionaries)
      /\ (op \in {"transpose", "rle_map", "rle_map_str", "fsst"} =>
            n - 1 \in 1 .. OwnLen(e) /\ OwnOp(e, n - 1) = "rsum")
  BY <1>1, <1>2, LastOwn
<1>4. n \in 1 .. OwnLen(e)
  BY <1>2, <1>3
<1>5. o.op = op /\ o.from = FromOf(schema, c, n)
  BY <1>1, <1>2, <1>4 DEF DecoderRight
<1>6. Assembled(c, o, v) = read
  BY <1>2, <1>4, AssembledRight
<1>7. PICK r : r = <<c, n>>
  OBVIOUS
<1>8. r[1] = c /\ r[2] = n /\ Op(r) = o
  BY <1>2, <1>7 DEF Op
<1>9. \A j \in 1 .. OwnLen(e) : OwnOp(e, j) \in Holders => b[c][j] = TermOf(c, v, HeldBy(e, OwnOp(e, j)))
  <2>1. ColumnHeld(schema, b, c, v)
    BY Zenon DEF Fetched, ColumnHeld
  <2> QED BY <1>1, <2>1, Zenon DEF ColumnHeld, Held, TermOf
<1>10. op \notin {"unffor", "slpatch", "rsum"} => read = TermOf(c, v, <<>>)
  BY <1>2 DEF FoundBy
<1>11. /\ {"unffor", "alp", "alp_rd", "frequency", "frequency_str", "rsum"} \subseteq Holders
       /\ BehindFirst = {"dict", "dict_str", "fsst_dict"}
  BY DEF Holders, ActiveOps, BehindFirst
<1>12. HeldBy(e, "unffor") = PackedOf(e) /\ HeldBy(e, "rsum") = TransposedOf(e)
  BY DEF HeldBy
<1>13. <<c, n - 1>> # <<0, 0>> /\ <<c, 1>> # <<0, 0>>
  OBVIOUS
<1>14. CASE op \in {"unffor", "alp", "alp_rd", "frequency", "frequency_str"}
  <2>1. Materialized(r, v, b) = b[r[1]][r[2]]
    <3>1. /\ o.op \in {"unffor", "alp", "alp_rd", "frequency", "frequency_str"}
          /\ o.op \notin {"slpatch", "transpose", "rle_map", "rle_map_str", "fsst"} \cup BehindFirst
      BY <1>5, <1>11, <1>14
    <3> QED BY <1>8, <3>1, Zenon DEF Materialized
  <2>2. b[c][n] = TermOf(c, v, HeldBy(e, op))
    BY <1>2, <1>4, <1>9, <1>11, <1>14
  <2>3. HeldBy(e, op) = <<>>
    BY <1>3, <1>14 DEF HeldBy
  <2> QED BY <1>2, <1>7, <1>8, <2>1, <2>2, <2>3
<1>15. CASE op = "slpatch"
  <2>1. o.from = <<c, 1>>
    <3>1. op \notin {"transpose", "rle_map", "rle_map_str", "fsst"} \cup BehindFirst
      BY <1>11, <1>15
    <3> QED BY <1>1, <1>2, <1>5, <1>15, <3>1, Zenon DEF FromOf
  <2>2. Materialized(r, v, b) = b[o.from[1]][o.from[2]]
    <3>1. /\ o.op = "slpatch" /\ o.op \notin {"unffor", "alp", "alp_rd", "frequency", "frequency_str"}
          /\ o.op \notin {"transpose", "rle_map", "rle_map_str", "fsst"} \cup BehindFirst
      BY <1>5, <1>11, <1>15
    <3>2. o.from # <<0, 0>>
      BY <1>13, <2>1
    <3> QED BY <1>8, <3>1, <3>2, Zenon DEF Materialized
  <2>3. o.from[1] = c /\ o.from[2] = 1
    BY <2>1
  <2>4. 1 \in 1 .. OwnLen(e) /\ OwnOp(e, 1) = "unffor"
    <3>1. OwnOp(e, 1) = "unffor"
      BY <1>1, <1>2, <1>4, <1>15, ActiveFacts
    <3> QED BY <1>2, <1>3, <3>1
  <2>5. b[c][1] = TermOf(c, v, PackedOf(e))
    BY <1>9, <1>11, <1>12, <2>4
  <2> QED BY <1>2, <1>3, <1>7, <1>15, <2>2, <2>3, <2>5
<1>16. ASSUME op \in {"transpose", "rle_map", "rle_map_str", "fsst"}
       PROVE  /\ o.from # <<0, 0>>
              /\ b[o.from[1]][o.from[2]] = TermOf(c, v, TransposedOf(e))
  <2>1. o.from = <<c, n - 1>>
    <3>1. op \notin {"slpatch", "rsum"} \cup BehindFirst
      BY <1>11, <1>16
    <3> QED BY <1>1, <1>2, <1>5, <1>16, <3>1, Zenon DEF FromOf
  <2>2. PICK k : k = n - 1
    OBVIOUS
  <2>3. k \in 1 .. OwnLen(e) /\ OwnOp(e, k) = "rsum"
    BY <1>3, <1>16, <2>2
  <2>4. b[c][k] = TermOf(c, v, TransposedOf(e))
    BY <1>9, <1>11, <1>12, <2>3
  <2>5. o.from = <<c, k>>
    BY <2>1, <2>2
  <2> QED BY <1>13, <2>1, <2>4, <2>5
<1>17. CASE op = "transpose"
  <2>1. PICK x : x = b[o.from[1]][o.from[2]]
    OBVIOUS
  <2>2. Materialized(r, v, b) = IF x.by = <<"transpose">> THEN [x EXCEPT !.by = <<>>] ELSE Junk
    <3>1. /\ o.op = "transpose" /\ o.op \notin {"unffor", "alp", "alp_rd", "frequency", "frequency_str"}
          /\ o.op \notin {"slpatch", "rle_map", "rle_map_str", "fsst"} \cup BehindFirst
      BY <1>5, <1>11, <1>17
    <3>2. o.from # <<0, 0>>
      BY <1>16, <1>17
    <3> QED BY <1>8, <2>1, <3>1, <3>2, Zenon DEF Materialized
  <2>3. x = [col |-> c, vec |-> v, by |-> <<"transpose">>]
    <3>1. x = TermOf(c, v, TransposedOf(e)) /\ TransposedOf(e) = <<"transpose">>
      BY <1>3, <1>16, <1>17, <2>1, ReadTables
    <3> QED BY <3>1, Zenon DEF TermOf
  <2>4. PICK p, q : p = <<"transpose">> /\ q = <<>>
    OBVIOUS
  <2>5. x = [col |-> c, vec |-> v, by |-> p]
    BY <2>3, <2>4, Zenon
  <2>6. x.by = p /\ [x EXCEPT !.by = q] = [col |-> c, vec |-> v, by |-> q]
    BY <2>5
  <2>7. Materialized(r, v, b) = [x EXCEPT !.by = q]
    BY <2>2, <2>4, <2>6, Zenon
  <2> QED BY <1>2, <1>7, <2>4, <2>6, <2>7, Zenon DEF TermOf
<1>18. CASE op \in {"rle_map", "rle_map_str"}
  <2>1. PICK x : x = b[o.from[1]][o.from[2]]
    OBVIOUS
  <2>2. Materialized(r, v, b) =
          IF read = TermOf(c, v, <<>>) /\ x = TermOf(c, v, <<"runs", "transpose">>) THEN read ELSE Junk
    <3>1. /\ o.op \in {"rle_map", "rle_map_str"}
          /\ o.op \notin {"unffor", "alp", "alp_rd", "frequency", "frequency_str"}
          /\ o.op # "slpatch" /\ o.op # "transpose" /\ o.op # "fsst" /\ o.op \notin BehindFirst
      BY <1>5, <1>11, <1>18
    <3>2. o.from # <<0, 0>>
      BY <1>16, <1>18
    <3> QED BY <1>6, <1>8, <2>1, <3>1, <3>2, Zenon DEF Materialized, TermOf
  <2>3. TransposedOf(e) = <<"runs", "transpose">>
    BY <1>3, <1>18, ReadTables
  <2>4. x = TermOf(c, v, TransposedOf(e))
    BY <1>16, <1>18, <2>1
  <2>5. read = TermOf(c, v, <<>>)
    BY <1>10, <1>18
  <2> QED BY <1>2, <1>7, <2>2, <2>3, <2>4, <2>5, Zenon
<1>19. CASE op = "fsst"
  <2>1. PICK x : x = b[o.from[1]][o.from[2]]
    OBVIOUS
  <2>2. Materialized(r, v, b) =
          IF read = TermOf(c, v, <<>>) /\ x = TermOf(c, v, <<"offsets", "transpose">>) THEN read ELSE Junk
    <3>1. /\ o.op = "fsst"
          /\ o.op \notin {"unffor", "alp", "alp_rd", "frequency", "frequency_str"}
          /\ o.op # "slpatch" /\ o.op # "transpose" /\ o.op \notin {"rle_map", "rle_map_str"}
          /\ o.op \notin BehindFirst
      BY <1>5, <1>11, <1>19
    <3>2. o.from # <<0, 0>>
      BY <1>16, <1>19
    <3> QED BY <1>6, <1>8, <2>1, <3>1, <3>2, Zenon DEF Materialized, TermOf
  <2>3. TransposedOf(e) = <<"offsets", "transpose">>
    BY <1>3, <1>19, ReadTables
  <2>4. x = TermOf(c, v, TransposedOf(e))
    BY <1>16, <1>19, <2>1
  <2>5. read = TermOf(c, v, <<>>)
    BY <1>10, <1>19
  <2> QED BY <1>2, <1>7, <2>2, <2>3, <2>4, <2>5, Zenon
<1>20. CASE op \in BehindFirst
  <2>1. PICK x, a : x = b[o.from[1]][o.from[2]] /\ a = RootsOf(schema)[c]
    OBVIOUS
  <2>2. o.from = <<a, 1>>
    <3>1. op \notin {"slpatch", "rsum"} /\ op \notin {"transpose", "rle_map", "rle_map_str", "fsst"}
      BY <1>11, <1>20
    <3> QED BY <1>1, <1>2, <1>5, <1>20, <2>1, <3>1, Zenon DEF FromOf
  <2>3. o.from # <<0, 0>> /\ x = b[a][1]
    BY <2>1, <2>2
  <2>4. Materialized(r, v, b) =
          IF read = TermOf(c, v, <<>>) /\ x = TermOf(a, v, <<"index">>) THEN read ELSE Junk
    <3>1. /\ o.op \in BehindFirst
          /\ o.op \notin {"unffor", "alp", "alp_rd", "frequency", "frequency_str"}
          /\ o.op # "slpatch" /\ o.op # "transpose" /\ o.op \notin {"rle_map", "rle_map_str"}
          /\ o.op # "fsst"
      BY <1>5, <1>11, <1>20
    <3>2. RootColumn[c] = a
      BY <1>1, <2>1, RootColumnIs
    <3> QED BY <1>6, <1>8, <2>1, <2>3, <3>1, <3>2, Zenon DEF Materialized, TermOf
  <2>5. a \in 1 .. Len(schema) /\ ExprAt(schema, a) \in OwnDicts
    <3>1. a \in 1 .. c /\ schema[a].expr \in OwnDicts
      BY <1>1, <1>3, <1>20, <2>1, RootsFacts DEF ExprAt
    <3>2. Len(schema) \in Nat
      BY <1>1, SchemasAssumption
    <3> QED BY <3>1, <3>2 DEF ExprAt
  <2>6. PICK ea : ea = ExprAt(schema, a)
    OBVIOUS
  <2>7. ea \in Expressions \ {"fsst"} /\ ea \in OwnDicts
    BY <1>1, <2>5, <2>6, SchemaFacts DEF ExprAt
  <2>8. 1 \in 1 .. OwnLen(ea) /\ OwnOp(ea, 1) = "unffor"
    <3>1. DecodersShaped(ea)
      BY <2>7, RowOf
    <3>2. 1 \in 1 .. Len(DecChains[ea]) /\ Len(DecChains[ea]) \in Nat
      BY <3>1 DEF DecodersShaped
    <3>3. DecChains[ea][1] = "unffor"
      BY <2>7, <3>1, <3>2 DEF DecodersShaped
    <3>4. ea \notin External /\ ea # "equal"
      BY <2>7 DEF OwnDicts, Dictionaries, External
    <3> QED BY <3>2, <3>3, <3>4 DEF OwnLen, OwnOp, PlaceOf
  <2>9. b[a][1] = TermOf(a, v, HeldBy(ea, "unffor"))
    <3>1. ColumnHeld(schema, b, a, v)
      BY <2>5, Zenon DEF Fetched, ColumnHeld
    <3>2. "unffor" \in Holders
      BY <1>11
    <3> QED BY <2>6, <2>8, <3>1, <3>2, Zenon DEF ColumnHeld, Held, TermOf
  <2>10. HeldBy(ea, "unffor") = <<"index">>
    <3>1. HeldBy(ea, "unffor") = PackedOf(ea)
      BY DEF HeldBy
    <3> QED BY <2>7, <3>1, ReadTables
  <2>11. read = TermOf(c, v, <<>>)
    BY <1>10, <1>11, <1>20
  <2> QED BY <1>2, <1>7, <2>3, <2>4, <2>9, <2>10, <2>11, Zenon
<1>21. CASE op \notin {"unffor", "alp", "alp_rd", "frequency", "frequency_str", "slpatch", "transpose",
                       "rle_map", "rle_map_str", "fsst"} \cup BehindFirst
  <2>1. Materialized(r, v, b) = read
    BY <1>5, <1>6, <1>8, <1>21, Zenon DEF Materialized
  <2>2. read = TermOf(c, v, <<>>)
    BY <1>3, <1>10, <1>21
  <2> QED BY <1>2, <1>7, <2>1, <2>2
<1> QED BY <1>14, <1>15, <1>17, <1>18, <1>19, <1>20, <1>21

\* Every column hands over the vector of the column it stands for.
LEMMA MaterializedRight ==
  ASSUME Ready, NEW c \in 1 .. Len(schema), NEW v \in 1 .. NumVectors, NEW b,
         Fetched(schema, b, Len(schema), v)
  PROVE  Materialized(Last(ops[c]), v, b) = TermOf(OriginalOf(schema, c), v, <<>>)
<1>1. PICK e, L : e = schema[c].expr /\ L = Len(DecChains[e])
  OBVIOUS
<1>2. /\ schema \in Schemas /\ Len(schema) \in Nat \ {0} /\ e \in Expressions \ {"fsst"}
      /\ Len(ops[c]) = L /\ ops[c] = [k \in 1 .. L |-> RefOf(schema, c, k)]
  BY <1>1, ReadyFacts
<1>3. L \in Nat \ {0} /\ (e = "equal" => DecChains[e] = <<"shared">>)
  <2>1. DecodersShaped(e)
    BY <1>2, RowOf
  <2> QED BY <1>1, <2>1 DEF DecodersShaped
<1>4. Last(ops[c]) = RefOf(schema, c, L)
  BY <1>2, <1>3 DEF Last
<1>5. CASE e # "equal"
  <2>1. Last(ops[c]) = <<c, OwnLen(e)>>
    <3>1. ExprAt(schema, c) = e
      BY <1>1 DEF ExprAt
    <3>2. RefOf(schema, c, Len(DecChains[e])) = <<c, OwnLen(e)>>
      BY <1>2, <1>5, <3>1, LastRef
    <3> QED BY <1>1, <1>4, <3>2
  <2>2. Materialized(<<c, OwnLen(e)>>, v, b) = TermOf(c, v, <<>>)
    BY <1>1, <1>5, OwnMaterialized
  <2>3. OriginalOf(schema, c) = c
    BY <1>1, <1>5 DEF OriginalOf, ExprAt
  <2> QED BY <2>1, <2>2, <2>3
<1>6. CASE e = "equal"
  <2>1. PICK d, ed : d = schema[c].of /\ ed = schema[d].expr
    OBVIOUS
  <2>2. d \in 1 .. Len(schema) /\ ed # "equal"
    <3>1. schema[c].expr = "equal"
      BY <1>1, <1>6
    <3>2. schema[c].of \in 0 .. c - 1 /\ schema[schema[c].of].expr # "equal"
      BY <1>2, <3>1, SchemaFacts, Zenon
    <3>3. schema[c].of # 0
      BY <1>2, <3>1, SchemaFacts
    <3> QED BY <1>2, <2>1, <3>2, <3>3
  <2>3. RefOf(schema, c, L) = <<d, OwnLen(ed)>>
    <3>1. ExprAt(schema, c) = "equal" /\ ExprAt(schema, schema[c].of) = ed /\ "equal" \notin External
      BY <1>1, <1>6, <2>1 DEF ExprAt, External
    <3> QED BY <2>1, <3>1, Zenon DEF RefOf
  <2>4. Materialized(<<d, OwnLen(ed)>>, v, b) = TermOf(d, v, <<>>)
    BY <2>1, <2>2, OwnMaterialized
  <2>5. OriginalOf(schema, c) = d
    BY <1>1, <1>6, <2>1 DEF OriginalOf, ExprAt
  <2> QED BY <1>4, <2>3, <2>4, <2>5
<1> QED BY <1>5, <1>6

-----------------------------------------------------------------------------
(* The steps of a reader *)

\* What holds of an open rowgroup.
LEMMA ReadIs ==
  ASSUME IInv, phase = "read"
  PROVE  /\ Ready /\ schema \in Schemas /\ Len(schema) \in Nat \ {0} /\ NumVectors \in Nat \ {0}
         /\ chunk \in 0 .. NumVectors /\ next_vec \in 0 .. NumVectors
         /\ OutRight(schema, next_vec, out)
<1>1. schema \in Schemas /\ chunk \in 0 .. NumVectors /\ next_vec \in 0 .. NumVectors
      /\ OutRight(schema, next_vec, out)
  BY DEF IInv
<1>2. Len(schema) \in Nat \ {0}
  BY <1>1, SchemasAssumption
<1> QED BY <1>1, <1>2, NumVectorsAssumption DEF Ready

\* The invariant speaks of the reader through its buffers, the vectors it is at
\* and what it has handed over.
LEMMA ReaderMoved ==
  ASSUME IInv, phase = "read",
         UNCHANGED <<schema, phase, col, state, encVars, decVars>>,
         bufs' \in BuffersOf(schema, dec), chunk' \in 0 .. NumVectors, next_vec' \in 0 .. NumVectors,
         chunk' # 0 => Fetched(schema, bufs', Len(schema), chunk'),
         OutRight(schema, next_vec', out')
  PROVE  IInv'
<1>1. /\ schema' = schema /\ phase' = phase /\ col' = col /\ state' = state /\ enc' = enc
      /\ segs' = segs /\ vec_idx' = vec_idx /\ file' = file /\ tokens' = tokens /\ dec' = dec
      /\ ops' = ops /\ n_active' = n_active
  BY DEF encVars, decVars
<1>2. /\ schema \in Schemas
      /\ phase \in {"encode", "decode", "read"} /\ col \in 1 .. Len(schema)
      /\ enc = <<>> /\ segs = <<>> /\ vec_idx = 0 /\ state = Fresh
      /\ TokensRight(schema, phase, col, Len(enc), tokens)
      /\ FileRight(schema, phase, col, file)
      /\ ExpressionsRight(schema, phase, col, ops, dec, n_active)
  BY DEF IInv
<1>3. phase # "encode" /\ phase # "decode"
  OBVIOUS
<1> QED BY <1>1, <1>2, <1>3, Zenon DEF IInv

\* Any vector may be fetched.
LEMMA ChunkStep == ASSUME NEW v \in Vectors, IInv, GetChunkAt(v) PROVE IInv'
<1>1. /\ phase = "read" /\ bufs' = GetChunk(v) /\ chunk' = v
      /\ UNCHANGED <<schema, phase, col, state, encVars, decVars>>
      /\ next_vec' = next_vec /\ out' = out
  BY DEF GetChunkAt
<1>2. v \in 1 .. NumVectors
  BY DEF Vectors
<1>3. /\ Ready /\ NumVectors \in Nat \ {0} /\ next_vec \in 0 .. NumVectors
      /\ OutRight(schema, next_vec, out)
  BY <1>1, ReadIs
<1>4. GetChunk(v) \in BuffersOf(schema, dec) /\ Fetched(schema, GetChunk(v), Len(schema), v)
  BY <1>2, <1>3, ChunkFetched
<1>5. chunk' \in 0 .. NumVectors
  BY <1>1, <1>2, <1>3
<1>6. chunk' # 0 => Fetched(schema, bufs', Len(schema), chunk')
  BY <1>1, <1>4
<1> QED BY <1>1, <1>3, <1>4, <1>5, <1>6, ReaderMoved

\* A materialization begins with nothing.
LEMMA StartStep == IInv /\ StartMaterialize => IInv'
<1> SUFFICES ASSUME IInv, StartMaterialize PROVE IInv'
  OBVIOUS
<1>1. /\ phase = "read" /\ next_vec' = 1 /\ out' = [c \in 1 .. Len(schema) |-> <<>>]
      /\ UNCHANGED <<schema, phase, col, state, encVars, decVars>>
      /\ bufs' = bufs /\ chunk' = chunk
  BY DEF StartMaterialize, Cols
<1>2. Ready /\ NumVectors \in Nat \ {0} /\ chunk \in 0 .. NumVectors
  BY <1>1, ReadIs
<1>3. bufs \in BuffersOf(schema, dec) /\ (chunk # 0 => Fetched(schema, bufs, Len(schema), chunk))
  BY DEF IInv
<1>4. OutRight(schema, 1, out')
  <2>1. \A c \in 1 .. Len(schema) : out'[c] = <<>>
    BY <1>1
  <2>2. /\ Len(<<>>) \in 0 .. NumVectors /\ Len(<<>>) = 1 - 1
        /\ \A c : <<>> = [v \in 1 .. Len(<<>>) |-> [col |-> OriginalOf(schema, c), vec |-> v, by |-> <<>>]]
    BY <1>2
  <2>3. out' = [c \in 1 .. Len(schema) |-> out'[c]]
    BY <1>1
  <2> QED BY <2>1, <2>2, <2>3 DEF OutRight
<1>5. next_vec' \in 0 .. NumVectors
  BY <1>1, <1>2
<1> QED BY <1>1, <1>2, <1>3, <1>4, <1>5, ReaderMoved

\* One vector more of each column has been handed over.
LEMMA OutLonger ==
  ASSUME NEW s, NEW v \in 1 .. NumVectors, NEW o, OutRight(s, v, o), NEW y,
         y = [c \in 1 .. Len(s) |-> Append(o[c], TermOf(OriginalOf(s, c), v, <<>>))],
         NEW nv, nv = 0 \/ nv = v + 1
  PROVE  OutRight(s, nv, y)
<1> SUFFICES ASSUME NEW c \in 1 .. Len(s)
             PROVE  /\ Len(y[c]) \in 0 .. NumVectors /\ (nv # 0 => Len(y[c]) = nv - 1)
                    /\ y[c] = [w \in 1 .. Len(y[c]) |-> [col |-> OriginalOf(s, c), vec |-> w, by |-> <<>>]]
  BY DEF OutRight
<1> DEFINE T(w) == TermOf(OriginalOf(s, c), w, <<>>)
<1>1. PICK q, n : q = o[c] /\ n = v - 1
  OBVIOUS
<1>2. n \in Nat /\ v = n + 1 /\ v \in 0 .. NumVectors /\ v \in Nat
  BY <1>1, NumVectorsAssumption
<1>3. Len(q) = n /\ q = [w \in 1 .. n |-> T(w)]
  <2>1. Len(q) = n
    BY <1>1 DEF OutRight
  <2>2. q = [w \in 1 .. Len(q) |-> T(w)]
    BY <1>1, Zenon DEF OutRight, TermOf
  <2> QED BY <2>1, <2>2
<1> HIDE DEF T
<1>4. PICK t : t = [w \in 1 .. v |-> T(w)]
  OBVIOUS
<1>5. Sequential(q) /\ Sequential(t) /\ Len(t) = Len(q) + 1
  BY <1>2, <1>3, <1>4 DEF Sequential
<1>6. (\A w \in 1 .. Len(q) : t[w] = q[w]) /\ t[Len(q) + 1] = T(v)
  BY <1>2, <1>3, <1>4
<1>7. Append(q, T(v)) = t
  BY <1>5, <1>6, AppendIs
<1>8. y[c] = t
  BY <1>1, <1>7 DEF T
<1>9. Len(t) = v /\ Len(t) \in 0 .. NumVectors
  BY <1>2, <1>3, <1>5
<1>10. nv # 0 => Len(t) = nv - 1
  BY <1>2, <1>9
<1>11. t = [w \in 1 .. Len(t) |-> [col |-> OriginalOf(s, c), vec |-> w, by |-> <<>>]]
  BY <1>4, <1>9 DEF T, TermOf
<1> QED BY <1>8, <1>9, <1>10, <1>11

\* The loop of a materialization.
LEMMA MaterializeStep == IInv /\ MaterializeVector => IInv'
<1> SUFFICES ASSUME IInv, MaterializeVector PROVE IInv'
  OBVIOUS
<1>1. PICK v, b : v = next_vec /\ b = GetChunk(v)
  OBVIOUS
<1>2. /\ phase = "read" /\ v # 0 /\ bufs' = b /\ chunk' = v /\ next_vec' = NextVec
      /\ UNCHANGED <<schema, phase, col, state, encVars, decVars>>
      /\ out' = [c \in 1 .. Len(schema) |-> Append(out[c], Materialized(Last(ops[c]), v, bufs'))]
  BY <1>1 DEF MaterializeVector, Cols
<1>3. Ready /\ NumVectors \in Nat \ {0} /\ v \in 0 .. NumVectors /\ OutRight(schema, v, out)
  BY <1>1, <1>2, ReadIs
<1>4. v \in 1 .. NumVectors /\ v \in Nat \ {0}
  BY <1>2, <1>3
<1>5. b \in BuffersOf(schema, dec) /\ Fetched(schema, b, Len(schema), v)
  BY <1>1, <1>3, <1>4, ChunkFetched
<1>6. out' = [c \in 1 .. Len(schema) |-> Append(out[c], TermOf(OriginalOf(schema, c), v, <<>>))]
  <2>1. \A c \in 1 .. Len(schema) :
          Materialized(Last(ops[c]), v, b) = TermOf(OriginalOf(schema, c), v, <<>>)
    BY <1>3, <1>4, <1>5, MaterializedRight
  <2>2. out' = [c \in 1 .. Len(schema) |-> Append(out[c], Materialized(Last(ops[c]), v, b))]
    BY <1>2, Zenon
  <2> QED BY <2>1, <2>2
<1>7. next_vec' \in 0 .. NumVectors /\ (next_vec' = 0 \/ next_vec' = v + 1)
  <2>1. next_vec' = IF v = NumVectors THEN 0 ELSE v + 1
    BY <1>1, <1>2 DEF NextVec
  <2> QED BY <1>3, <1>4, <2>1
<1>8. OutRight(schema, next_vec', out')
  <2>1. PICK y, nv : y = out' /\ nv = next_vec'
    OBVIOUS
  <2>2. OutRight(schema, nv, y)
    <3>1. /\ y = [c \in 1 .. Len(schema) |-> Append(out[c], TermOf(OriginalOf(schema, c), v, <<>>))]
          /\ nv = 0 \/ nv = v + 1
      BY <1>6, <1>7, <2>1
    <3> QED BY <1>3, <1>4, <3>1, OutLonger
  <2> QED BY <2>1, <2>2
<1>9. chunk' \in 0 .. NumVectors
  BY <1>2, <1>3
<1>10. bufs' \in BuffersOf(schema, dec) /\ (chunk' # 0 => Fetched(schema, bufs', Len(schema), chunk'))
  BY <1>2, <1>5
<1> QED BY <1>2, <1>7, <1>8, <1>9, <1>10, ReaderMoved

-----------------------------------------------------------------------------
(* The invariant is one *)

\* Nothing has been built yet.
LEMMA InitStep == Init => IInv
<1> SUFFICES ASSUME Init PROVE IInv
  OBVIOUS
<1>1. PICK s : s = schema
  OBVIOUS
<1>2. s \in Schemas /\ Len(s) \in Nat \ {0} /\ NumVectors \in Nat \ {0}
  <2>1. s \in Schemas
    BY <1>1 DEF Init
  <2> QED BY <2>1, SchemasAssumption, NumVectorsAssumption
<1>3. /\ phase = "encode" /\ col = 1 /\ state = Fresh /\ enc = <<>> /\ segs = <<>> /\ vec_idx = 0
      /\ file = [c \in 1 .. Len(s) |-> <<>>]
      /\ tokens = [c \in 1 .. Len(s) |-> WizardTokens(s[c])]
      /\ dec = [c \in 1 .. Len(s) |-> <<>>] /\ ops = [c \in 1 .. Len(s) |-> <<>>]
      /\ n_active = [c \in 1 .. Len(s) |-> 0] /\ bufs = [c \in 1 .. Len(s) |-> <<>>]
      /\ chunk = 0 /\ next_vec = 0 /\ out = [c \in 1 .. Len(s) |-> <<>>]
  BY <1>1 DEF Init, Cols
<1>4. Len(<<>>) = 0 /\ 1 \in 1 .. Len(s)
  BY <1>2
<1>5. \A c \in 1 .. Len(s) :
        /\ ExprAt(s, c) \in Expressions \ {"fsst"} /\ s[c].of \in Nat
        /\ Len(DecChains[ExprAt(s, c)]) \in Nat /\ Len(EncChains[ExprAt(s, c)]) \in Nat
  <2> SUFFICES ASSUME NEW c \in 1 .. Len(s)
               PROVE  /\ ExprAt(s, c) \in Expressions \ {"fsst"} /\ s[c].of \in Nat
                      /\ Len(DecChains[ExprAt(s, c)]) \in Nat /\ Len(EncChains[ExprAt(s, c)]) \in Nat
    OBVIOUS
  <2>1. ExprAt(s, c) \in Expressions \ {"fsst"} /\ s[c].of \in Nat
    BY <1>2, SchemaFacts DEF ExprAt
  <2>2. DecodersShaped(ExprAt(s, c)) /\ EncodersCounted(ExprAt(s, c))
    BY <2>1, RowOf
  <2> QED BY <2>1, <2>2 DEF DecodersShaped, EncodersCounted
<1>6. EncoderRight(s, 1, <<>>, Fresh, 0, <<>>)
  <2>1. PICK e : e = ExprAt(s, 1)
    OBVIOUS
  <2>2. Len(<<>>) \in 0 .. Len(EncChains[e]) /\ <<>> = [k \in 1 .. Len(<<>>) |-> EncOp(e, k, Len(<<>>))]
    BY <1>4, <1>5, <2>1
  <2>3. CursorRight(e, Len(<<>>), Fresh.cur_operator)
    BY <1>4 DEF CursorRight, Fresh
  <2>4. Fresh = [cur_operator |-> Fresh.cur_operator,
                 cur_operand  |-> IF e \in Literal THEN 0 ELSE CountAt(e, Len(<<>>))]
    <3>1. CountAt(e, Len(<<>>)) = 0
      BY <1>4 DEF CountAt
    <3>2. (IF e \in Literal THEN 0 ELSE CountAt(e, Len(<<>>))) = 0
      BY <3>1
    <3> QED BY <3>2 DEF Fresh
  <2>5. SegsRight(s, 1, 0, <<>>) /\ 0 \in 0 .. NumVectors
    BY <1>2 DEF SegsRight
  <2> QED BY <2>1, <2>2, <2>3, <2>4, <2>5, Zenon DEF EncoderRight
<1>7. TokensRight(s, "encode", 1, 0, tokens)
  <2>1. tokens = [c \in 1 .. Len(s) |-> tokens[c]]
    BY <1>3
  <2>2. ASSUME NEW c \in 1 .. Len(s) PROVE tokens[c] = TokensOf(s[c], TokenCount(s, "encode", 1, 0, c))
    <3>1. TokenCount(s, "encode", 1, 0, c) = 0
      BY DEF TokenCount, CountAt
    <3>2. tokens[c] = WizardTokens(s[c])
      BY <1>3
    <3>3. PICK of : of = s[c].of
      OBVIOUS
    <3>4. of \in Nat
      BY <1>5, <3>3
    <3>5. TokensOf(s[c], 0) = [j \in 1 .. Before(s[c]) |-> of - 1]
      <4>1. Before(s[c]) \in Nat /\ Before(s[c]) + 0 = Before(s[c])
        BY DEF Before
      <4> QED BY <3>3, <4>1 DEF TokensOf
    <3>6. CASE of = 0
      <4>1. Before(s[c]) = 0 /\ WizardTokens(s[c]) = <<>>
        BY <3>3, <3>6 DEF Before, WizardTokens
      <4>2. [j \in 1 .. 0 |-> of - 1] = <<>>
        OBVIOUS
      <4> QED BY <3>1, <3>2, <3>5, <4>1, <4>2
    <3>7. CASE of # 0
      <4>1. Before(s[c]) = 1 /\ WizardTokens(s[c]) = <<of - 1>>
        BY <3>3, <3>7 DEF Before, WizardTokens
      <4>2. [j \in 1 .. 1 |-> of - 1] = <<of - 1>>
        BY <3>4
      <4> QED BY <3>1, <3>2, <3>5, <4>1, <4>2
    <3> QED BY <3>6, <3>7
  <2> QED BY <2>1, <2>2 DEF TokensRight
<1>8. FileRight(s, "encode", 1, file)
  <2>1. file = [c \in 1 .. Len(s) |-> file[c]]
    BY <1>3
  <2>2. \A c \in 1 .. Len(s) : ~ ("encode" # "encode" \/ c < 1)
    OBVIOUS
  <2> QED BY <2>1, <2>2 DEF FileRight
<1>9. ExpressionsRight(s, "encode", 1, ops, dec, n_active)
  <2>1. ops = [c \in 1 .. Len(s) |-> ops[c]] /\ dec = [c \in 1 .. Len(s) |-> dec[c]]
        /\ n_active = [c \in 1 .. Len(s) |-> n_active[c]]
    BY <1>3
  <2>2. ASSUME NEW c \in 1 .. Len(s)
        PROVE  ExpressionRight(s, c, FALSE, <<>>, <<>>, 0)
    <3>1. Len(<<>>) \in 0 .. Len(DecChains[ExprAt(s, c)]) /\ <<>> = [k \in 1 .. Len(<<>>) |-> RefOf(s, c, k)]
      BY <1>4, <1>5
    <3>2. DecodersRight(s, c, Len(<<>>), <<>>)
      <4>1. OwnAt(ExprAt(s, c), 0) = 0
        BY DEF OwnAt
      <4>2. Len(<<>>) = OwnAt(ExprAt(s, c), Len(<<>>)) /\ <<>> = [j \in 1 .. Len(<<>>) |-> <<>>[j]]
            /\ 1 .. Len(<<>>) = {}
        BY <1>4, <4>1
      <4> QED BY <4>2 DEF DecodersRight
    <3> QED BY <3>1, <3>2, Zenon DEF ExpressionRight
  <2>3. ("encode" = "read") = FALSE /\ ("encode" = "decode") = FALSE
    OBVIOUS
  <2>4. \A c \in 1 .. Len(s) :
          /\ ExpressionRight(s, c, "encode" = "read" \/ ("encode" = "decode" /\ c < 1), ops[c], dec[c], n_active[c])
          /\ ops[c] = <<>>
    <3> SUFFICES ASSUME NEW c \in 1 .. Len(s)
                 PROVE  /\ ExpressionRight(s, c, "encode" = "read" \/ ("encode" = "decode" /\ c < 1),
                                           ops[c], dec[c], n_active[c])
                        /\ ops[c] = <<>>
      OBVIOUS
    <3>1. ops[c] = <<>> /\ dec[c] = <<>> /\ n_active[c] = 0
      BY <1>3
    <3>2. ("encode" = "read" \/ ("encode" = "decode" /\ c < 1)) = FALSE
      OBVIOUS
    <3> QED BY <2>2, <3>1, <3>2, Zenon
  <2> QED BY <2>1, <2>4, Zenon DEF ExpressionsRight
<1>10. bufs \in BuffersOf(s, dec)
  <2>1. PICK T : T = Terms(s)
    OBVIOUS
  <2>2. bufs \in [1 .. Len(s) -> Seq(T)]
    BY <1>3
  <2>3. \A c \in 1 .. Len(s) : Len(bufs[c]) = Len(dec[c])
    BY <1>3
  <2> QED BY <2>1, <2>2, <2>3 DEF BuffersOf
<1>11. OutRight(s, 0, out)
  <2>1. \A c \in 1 .. Len(s) : out[c] = <<>>
    BY <1>3
  <2>2. /\ Len(<<>>) \in 0 .. NumVectors
        /\ \A c : <<>> = [v \in 1 .. Len(<<>>) |-> [col |-> OriginalOf(s, c), vec |-> v, by |-> <<>>]]
    BY <1>2
  <2>3. out = [c \in 1 .. Len(s) |-> out[c]]
    BY <1>3
  <2> QED BY <2>1, <2>2, <2>3 DEF OutRight
<1>12. 0 \in 0 .. NumVectors
  BY <1>2
<1>13. phase # "decode" /\ phase # "read" /\ Len(enc) = 0
  BY <1>3
<1> QED BY <1>1, <1>2, <1>3, <1>4, <1>6, <1>7, <1>8, <1>9, <1>10, <1>11, <1>12, <1>13, Zenon DEF IInv

\* Nothing happens.
LEMMA StutterStep == IInv /\ UNCHANGED vars => IInv'
<1> SUFFICES ASSUME IInv, UNCHANGED vars PROVE IInv'
  OBVIOUS
<1>1. /\ schema' = schema /\ phase' = phase /\ col' = col /\ state' = state /\ enc' = enc
      /\ segs' = segs /\ vec_idx' = vec_idx /\ file' = file /\ tokens' = tokens /\ dec' = dec
      /\ ops' = ops /\ n_active' = n_active /\ bufs' = bufs /\ chunk' = chunk
      /\ next_vec' = next_vec /\ out' = out
  BY DEF vars, encVars, decVars, readVars
<1> QED BY <1>1, Zenon DEF IInv

LEMMA Inductive == IInv /\ [Next]_vars => IInv'
<1> SUFFICES ASSUME IInv, [Next]_vars PROVE IInv'
  OBVIOUS
<1>1. CASE ConstructEncoder
  BY <1>1, EncodeStep
<1>2. CASE ExecuteVector
  BY <1>2, ExecuteStep
<1>3. CASE FinalizeAndFlush
  BY <1>3, FlushStep
<1>4. CASE ConstructDecoder
  BY <1>4, DecodeStep
<1>5. CASE NextExpression
  BY <1>5, ExpressionStep
<1>6. CASE \E v \in Vectors : GetChunkAt(v)
  BY <1>6, ChunkStep
<1>7. CASE StartMaterialize
  BY <1>7, StartStep
<1>8. CASE MaterializeVector
  BY <1>8, MaterializeStep
<1>9. CASE UNCHANGED vars
  BY <1>9, StutterStep
<1> QED BY <1>1, <1>2, <1>3, <1>4, <1>5, <1>6, <1>7, <1>8, <1>9 DEF Next

\* The columns are encoded and read along the tables.
THEOREM Along == Spec => []IInv
BY InitStep, Inductive, PTL DEF Spec

-----------------------------------------------------------------------------
(* Theorems *)

\* Nothing is missing from a visitor: for every choice whose token has a decoder
\* (SchemasAssumption) there is an encoder as well, and each constructor finds an
\* overload for the operator its input comes from, also when that is in another
\* column.
THEOREM Reachable == Spec => []NoUnreachable
<1>1. IInv => NoUnreachable
  BY DEF IInv, NoUnreachable
<1> QED BY <1>1, Along, PTL

\* The operand tokens of a column are numbers, as many as its operators have put
\* down, and count its segments.
LEMMA TokensAre ==
  ASSUME IInv, NEW c \in 1 .. Len(schema), NEW n, n = TokenCount(schema, phase, col, Len(enc), c)
  PROVE  /\ n \in Nat /\ tokens[c] = TokensOf(schema[c], n) /\ tokens[c] \in Seq(Nat)
         /\ Before(schema[c]) \in {0, 1} /\ Len(tokens[c]) = Before(schema[c]) + n
<1>1. schema \in Schemas /\ TokensRight(schema, phase, col, Len(enc), tokens) /\ col \in 1 .. Len(schema)
      /\ (phase = "encode" => Len(enc) \in 0 .. Len(EncChains[ExprAt(schema, col)]))
  <2>1. phase = "encode" => EncoderRight(schema, col, enc, state, vec_idx, segs)
    BY DEF IInv
  <2> QED BY <2>1 DEF IInv, EncoderRight
<1>2. PICK e, k : e = ExprAt(schema, c) /\ k = Len(enc)
  OBVIOUS
<1>3. e \in Expressions \ {"fsst"} /\ schema[c].of \in Nat
  BY <1>1, <1>2, SchemaFacts DEF ExprAt
<1>4. Len(EncChains[e]) \in Nat /\ \A i \in 0 .. Len(EncChains[e]) : CountAt(e, i) \in Nat
  <2>1. EncodersCounted(e)
    BY <1>3, RowOf
  <2>2. Len(EncChains[e]) \in Nat /\ \A i \in 1 .. Len(EncChains[e]) : CountAt(e, i) \in Nat
    BY <2>1 DEF EncodersCounted
  <2>3. CountAt(e, 0) = 0
    BY DEF CountAt
  <2> QED BY <2>2, <2>3
<1>5. n \in Nat
  <2>1. n \in {CountAt(e, Len(EncChains[e])), 0} \/ (phase = "encode" /\ c = col /\ n = CountAt(e, k))
    <3>1. CASE phase # "encode" \/ c < col
      <4>1. ~ (phase = "encode" /\ c = col)
        BY <1>1, <3>1
      <4> QED BY <1>2, <3>1, <4>1, Zenon DEF TokenCount
    <3>2. CASE phase = "encode" /\ c = col
      <4>1. ~ (phase # "encode" \/ c < col)
        BY <1>1, <3>2
      <4> QED BY <1>2, <3>2, <4>1, Zenon DEF TokenCount
    <3>3. CASE ~ (phase # "encode" \/ c < col) /\ ~ (phase = "encode" /\ c = col)
      BY <3>3, Zenon DEF TokenCount
    <3> QED BY <3>1, <3>2, <3>3
  <2> QED BY <1>1, <1>2, <1>4, <2>1
<1>6. tokens[c] = TokensOf(schema[c], n)
  BY <1>1 DEF TokensRight
<1>7. Before(schema[c]) \in {0, 1} /\ (Before(schema[c]) = 1 => schema[c].of # 0)
  BY DEF Before
<1>8. PICK b, of, m : b = Before(schema[c]) /\ of = schema[c].of /\ m = b + n
  OBVIOUS
<1>9. tokens[c] = [j \in 1 .. m |-> IF j <= b THEN of - 1 ELSE j - 1 - b]
  BY <1>6, <1>8 DEF TokensOf
<1>10. m \in Nat /\ b \in Nat
  BY <1>5, <1>7, <1>8
<1>11. \A j \in 1 .. m : (IF j <= b THEN of - 1 ELSE j - 1 - b) \in Nat
  <2>1. of \in Nat /\ (b = 1 => of # 0) /\ b \in {0, 1}
    BY <1>3, <1>7, <1>8
  <2> QED BY <1>10, <2>1
<1>12. tokens[c] \in [1 .. m -> Nat]
  BY <1>9, <1>11
<1>13. tokens[c] \in Seq(Nat) /\ Len(tokens[c]) = m
  BY <1>10, <1>12
<1> QED BY <1>5, <1>6, <1>7, <1>8, <1>13

\* The cursors of the column at hand.
LEMMA CursorsAre ==
  ASSUME IInv
  PROVE  state.cur_operator \in 0 .. 2 /\ state.cur_operand \in -1 .. Len(tokens[col])
<1>1. schema \in Schemas /\ col \in 1 .. Len(schema) /\ phase \in {"encode", "decode", "read"}
  BY DEF IInv
<1>2. PICK e, n, b : /\ e = ExprAt(schema, col) /\ n = TokenCount(schema, phase, col, Len(enc), col)
                     /\ b = Before(schema[col])
  OBVIOUS
<1>3. n \in Nat /\ b \in {0, 1} /\ Len(tokens[col]) = b + n
  BY <1>1, <1>2, TokensAre
<1>4. e \in Expressions \ {"fsst"} /\ Len(schema) \in Nat /\ col \in Nat
  BY <1>1, <1>2, SchemaFacts DEF ExprAt
<1>5. CASE phase = "encode"
  <2>1. EncoderRight(schema, col, enc, state, vec_idx, segs)
    BY <1>5 DEF IInv
  <2>2. /\ CursorRight(e, Len(enc), state.cur_operator)
        /\ state = [cur_operator |-> state.cur_operator,
                    cur_operand  |-> IF e \in Literal THEN 0 ELSE CountAt(e, Len(enc))]
    BY <1>2, <2>1, Zenon DEF EncoderRight
  <2>3. PICK x, y : x = state.cur_operator /\ y = IF e \in Literal THEN 0 ELSE CountAt(e, Len(enc))
    OBVIOUS
  <2>4. state = [cur_operator |-> x, cur_operand |-> y]
    BY <2>2, <2>3, Zenon
  <2>5. n = CountAt(e, Len(enc))
    <3>1. ~ (phase # "encode" \/ col < col)
      BY <1>4, <1>5
    <3> QED BY <1>2, <1>5, <3>1, Zenon DEF TokenCount
  <2>6. y \in {0, n}
    BY <2>3, <2>5
  <2>7. x \in 0 .. 2
    BY <2>2, <2>3 DEF CursorRight
  <2> QED BY <1>3, <2>4, <2>6, <2>7
<1>6. CASE phase = "decode"
  <2>1. PICK m : m = Len(ops[col])
    OBVIOUS
  <2>2. state = DecoderState(schema, col, m)
    BY <1>6, <2>1 DEF IInv
  <2>3. PICK y : y = IF m = 0 THEN 0 ELSE LeftAt(e, m)
    OBVIOUS
  <2>4. state = [cur_operator |-> 0, cur_operand |-> y]
    BY <1>2, <2>2, <2>3, Zenon DEF DecoderState
  <2>5. n = CountAt(e, Len(EncChains[e]))
    <3>1. phase # "encode"
      BY <1>6
    <3>2. ~ (phase = "encode" /\ col = col)
      BY <1>6
    <3> QED BY <1>2, <3>1, <3>2, Zenon DEF TokenCount
  <2>6. m \in 0 .. Len(DecChains[e])
    <3>1. ExpressionsRight(schema, phase, col, ops, dec, n_active)
      BY DEF IInv
    <3>2. Len(ops[col]) \in 0 .. Len(DecChains[ExprAt(schema, col)])
      BY <1>1, <3>1 DEF ExpressionsRight, ExpressionRight
    <3> QED BY <1>2, <2>1, <3>2
  <2>7. LeftAt(e, m) \in (0 - 1) .. n
    <3>1. DecodersCounted(e)
      BY <1>4, RowOf
    <3> QED BY <2>5, <2>6, <3>1 DEF DecodersCounted
  <2>8. y \in -1 .. b + n
    BY <1>3, <2>3, <2>7
  <2> QED BY <1>3, <2>4, <2>8
<1>7. CASE phase = "read"
  <2>1. state = [cur_operator |-> 0, cur_operand |-> 0]
    BY <1>7 DEF IInv, Fresh
  <2> QED BY <1>3, <2>1
<1> QED BY <1>1, <1>5, <1>6, <1>7

\* The active operators are operators of the column.
LEMMA ActiveAtMost ==
  ASSUME IInv, NEW c \in 1 .. Len(schema)
  PROVE  n_active[c] \in 0 .. Len(ops[c])
<1>1. schema \in Schemas /\ ExpressionsRight(schema, phase, col, ops, dec, n_active)
  BY DEF IInv
<1>2. PICK complete \in BOOLEAN : ExpressionRight(schema, c, complete, ops[c], dec[c], n_active[c])
  <2>1. ExpressionRight(schema, c, phase = "read" \/ (phase = "decode" /\ c < col), ops[c], dec[c], n_active[c])
    BY <1>1, Zenon DEF ExpressionsRight
  <2>2. (phase = "read" \/ (phase = "decode" /\ c < col)) \in BOOLEAN
    OBVIOUS
  <2> QED BY <2>1, <2>2, Zenon
<1>3. PICK e, L : e = ExprAt(schema, c) /\ L = Len(ops[c])
  OBVIOUS
<1>4. e \in Expressions \ {"fsst"}
  BY <1>1, <1>3, SchemaFacts DEF ExprAt
<1>5. /\ L \in 0 .. Len(DecChains[e]) /\ (complete => L = Len(DecChains[e]))
      /\ n_active[c] = IF complete THEN ActiveAt(schema, c) ELSE 0
  BY <1>2, <1>3 DEF ExpressionRight
<1>6. Len(DecChains[e]) \in Nat \ {0} /\ ActiveOf(e) \in 0 .. Len(DecChains[e])
  <2>1. DecodersShaped(e)
    BY <1>4, RowOf
  <2> QED BY <2>1 DEF DecodersShaped
<1>7. ActiveAt(schema, c) \in {0, 1, ActiveOf(e)}
  BY <1>3 DEF ActiveAt
<1> QED BY <1>3, <1>5, <1>6, <1>7

\* Whatever the rowgroup, every variable keeps its type; the operand cursor stays
\* within the tokens of the column.
THEOREM Typing == Spec => []TypeOK
<1>1. IInv => TypeOK
  <2> SUFFICES ASSUME IInv PROVE TypeOK
    OBVIOUS
  <2>1. /\ schema \in Schemas /\ phase \in {"encode", "decode", "read"} /\ col \in 1 .. Len(schema)
        /\ bufs \in BuffersOf(schema, dec) /\ chunk \in 0 .. NumVectors /\ next_vec \in 0 .. NumVectors
        /\ OutRight(schema, next_vec, out)
    BY DEF IInv
  <2>2. schema \in Seq(Choice) /\ Len(schema) \in Nat /\ NumVectors \in Nat
    BY <2>1, SchemasAssumption, NumVectorsAssumption
  <2>3. vec_idx \in 0 .. NumVectors
    <3>1. phase = "encode" => EncoderRight(schema, col, enc, state, vec_idx, segs)
      BY DEF IInv
    <3>2. phase # "encode" => vec_idx = 0
      BY DEF IInv
    <3> QED BY <2>2, <3>1, <3>2 DEF EncoderRight
  <2>4. state.cur_operator \in 0 .. 2 /\ state.cur_operand \in -1 .. Len(tokens[col])
    BY CursorsAre
  <2>5. ASSUME NEW c \in 1 .. Len(schema)
        PROVE  /\ tokens[c] \in Seq(Nat) /\ n_active[c] \in 0 .. Len(ops[c])
               /\ bufs[c] \in Seq(Term) /\ Len(bufs[c]) = Len(dec[c])
    <3>1. tokens[c] \in Seq(Nat)
      BY TokensAre
    <3>2. n_active[c] \in 0 .. Len(ops[c])
      BY ActiveAtMost
    <3>3. bufs[c] \in Seq(Term) /\ Len(bufs[c]) = Len(dec[c])
      BY <2>1 DEF BuffersOf, Terms, Term
    <3> QED BY <3>1, <3>2, <3>3
  <2>6. ASSUME NEW c \in 1 .. Len(schema) PROVE out[c] \in Seq(Term)
    <3>1. PICK n, x : n = Len(out[c]) /\ x = OriginalOf(schema, c)
      OBVIOUS
    <3>2. x \in 0 .. Len(schema)
      <4>1. schema[c].of \in 0 .. c - 1
        BY <2>1, SchemaFacts
      <4> QED BY <2>2, <3>1, <4>1 DEF OriginalOf
    <3>3. n \in 0 .. NumVectors /\ out[c] = [v \in 1 .. n |-> [col |-> x, vec |-> v, by |-> <<>>]]
      BY <2>1, <3>1 DEF OutRight
    <3>4. <<>> \in Seq(Forms) /\ \A v \in 1 .. n : v \in 0 .. NumVectors
      BY <2>2, <3>3
    <3>5. \A v \in 1 .. n : [col |-> x, vec |-> v, by |-> <<>>] \in Term
      BY <3>2, <3>4 DEF Term
    <3> DEFINE T == Term
    <3>6. out[c] \in [1 .. n -> T]
      BY <3>3, <3>5
    <3> HIDE DEF T
    <3>7. n \in Nat
      BY <2>2, <3>3
    <3>8. out[c] \in Seq(T)
      BY <3>6, <3>7
    <3> QED BY <3>8 DEF T
  <2> QED BY <2>1, <2>2, <2>3, <2>4, <2>5, <2>6, Zenon DEF TypeOK, Cols
<1> QED BY <1>1, Along, PTL

\* The tokens a column's operators put down are the places of its segments in the
\* file, in order: FinalizeAndFlush writes one segment for each of them, and the
\* offsets of a compressed column leave no token when the next operator takes over
\* the segment.
THEOREM Tokens == Spec => []TokensNameSegments
<1>1. IInv => TokensNameSegments
  <2> SUFFICES ASSUME IInv, NEW c \in 1 .. Len(schema), phase \in {"decode", "read"},
                      SubSeq(tokens[c], Len(WizardTokens(schema[c])) + 1, Len(tokens[c])) # <<>>
               PROVE  SubSeq(tokens[c], Len(WizardTokens(schema[c])) + 1, Len(tokens[c]))
                        = [k \in DOMAIN file[c] |-> k - 1]
    BY DEF TokensNameSegments, Cols
  <2>1. PICK e, n, b, t : /\ e = ExprAt(schema, c) /\ n = TokenCount(schema, phase, col, Len(enc), c)
                          /\ b = Before(schema[c]) /\ t = tokens[c]
    OBVIOUS
  <2>2. schema \in Schemas /\ FileRight(schema, phase, col, file)
    BY DEF IInv
  <2>3. n \in Nat /\ t = TokensOf(schema[c], n) /\ t \in Seq(Nat) /\ b \in {0, 1} /\ Len(t) = b + n
    BY <2>1, TokensAre
  <2>4. Len(WizardTokens(schema[c])) = b
    <3>1. PICK x : x = schema[c].of - 1
      OBVIOUS
    <3>2. Len(<<>>) = 0 /\ Len(<<x>>) = 1
      OBVIOUS
    <3>3. WizardTokens(schema[c]) = IF schema[c].of = 0 THEN <<>> ELSE <<x>>
      BY <3>1, Zenon DEF WizardTokens
    <3>4. b = IF schema[c].of = 0 THEN 0 ELSE 1
      BY <2>1 DEF Before
    <3> QED BY <3>2, <3>3, <3>4
  <2>5. PICK own : own = SubSeq(t, b + 1, Len(t))
    OBVIOUS
  <2>6. Len(own) = n /\ own = [j \in 1 .. n |-> t[b + j]]
    BY <2>3, <2>5
  <2>7. \A j \in 1 .. n : t[b + j] = j - 1
    <3>1. PICK m, of : m = b + n /\ of = schema[c].of
      OBVIOUS
    <3>2. t = [j \in 1 .. m |-> IF j <= b THEN of - 1 ELSE j - 1 - b]
      BY <2>1, <2>3, <3>1 DEF TokensOf
    <3> QED BY <2>3, <3>1, <3>2
  <2>8. own = [j \in 1 .. n |-> j - 1]
    BY <2>6, <2>7
  <2>9. own # <<>>
    BY <2>1, <2>4, <2>5
  <2>10. n # 0
    <3>1. [j \in 1 .. 0 |-> j - 1] = <<>>
      OBVIOUS
    <3> QED BY <2>8, <2>9, <3>1
  <2>11. n = Len(Roles[e])
    <3>1. n = CountAt(e, Len(EncChains[e]))
      <4>1. phase # "encode" /\ ~ (phase = "encode" /\ c = col)
        OBVIOUS
      <4> QED BY <2>1, <4>1, Zenon DEF TokenCount
    <3>2. OwnCounted(e)
      BY <2>1, <2>2, SchemaFacts, RowOf DEF ExprAt
    <3> QED BY <2>10, <3>1, <3>2 DEF OwnCounted
  <2>12. DOMAIN file[c] = 1 .. Len(Roles[e])
    <3>1. file[c] = FileOf(schema, c)
      BY <2>2 DEF FileRight
    <3> QED BY <2>1, <3>1 DEF FileOf
  <2>13. own = [k \in DOMAIN file[c] |-> k - 1]
    BY <2>8, <2>11, <2>12
  <2> QED BY <2>1, <2>4, <2>5, <2>13, Zenon
<1> QED BY <1>1, Along, PTL

\* What an operator holds has its exceptions in it.
LEMMA HeldWhole ==
  ASSUME NEW e, NEW op
  PROVE  "holes" \notin ToSet(HeldBy(e, op))
<1>1. /\ "holes" \notin ToSet(<<>>) /\ "holes" \notin ToSet(<<"index">>)
      /\ "holes" \notin ToSet(<<"transpose">>) /\ "holes" \notin ToSet(<<"transpose", "delta">>)
      /\ "holes" \notin ToSet(<<"runs", "transpose">>)
      /\ "holes" \notin ToSet(<<"offsets", "transpose">>)
      /\ "holes" \notin ToSet(<<"runs", "transpose", "delta">>)
      /\ "holes" \notin ToSet(<<"offsets", "transpose", "delta">>)
  BY DEF ToSet
<1>2. PackedOf(e) \in {<<"transpose", "delta">>, <<"runs", "transpose", "delta">>,
                       <<"offsets", "transpose", "delta">>, <<"index">>, <<>>}
  <2>1. /\ "delta" \notin RleExprs \cup FsstDeltas \cup OwnDicts
        /\ \A x \in RleExprs : x \notin FsstDeltas /\ x \notin OwnDicts
        /\ \A x \in FsstDeltas : x \notin OwnDicts
    BY DEF RleExprs, FsstDeltas, OwnDicts, Dictionaries, External
  <2>2. CASE e = "delta"
    BY <2>1, <2>2, Zenon DEF PackedOf
  <2>3. CASE e \in RleExprs
    BY <2>1, <2>3, Zenon DEF PackedOf
  <2>4. CASE e \in FsstDeltas
    BY <2>1, <2>4, Zenon DEF PackedOf
  <2>5. CASE e \in OwnDicts
    BY <2>1, <2>5, Zenon DEF PackedOf
  <2>6. CASE e # "delta" /\ e \notin RleExprs /\ e \notin FsstDeltas /\ e \notin OwnDicts
    BY <2>6, Zenon DEF PackedOf
  <2> QED BY <2>2, <2>3, <2>4, <2>5, <2>6
<1>3. TransposedOf(e) \in {<<"transpose">>, <<"runs", "transpose">>, <<"offsets", "transpose">>, <<>>}
  <2>1. /\ "delta" \notin RleExprs \cup FsstDeltas
        /\ \A x \in RleExprs : x \notin FsstDeltas
    BY DEF RleExprs, FsstDeltas
  <2>2. CASE e = "delta"
    BY <2>1, <2>2, Zenon DEF TransposedOf
  <2>3. CASE e \in RleExprs
    BY <2>1, <2>3, Zenon DEF TransposedOf
  <2>4. CASE e \in FsstDeltas
    BY <2>1, <2>4, Zenon DEF TransposedOf
  <2>5. CASE e # "delta" /\ e \notin RleExprs /\ e \notin FsstDeltas
    BY <2>5, Zenon DEF TransposedOf
  <2> QED BY <2>2, <2>3, <2>4, <2>5
<1>4. HeldBy(e, op) \in {PackedOf(e), TransposedOf(e), <<>>}
  BY DEF HeldBy
<1> QED BY <1>1, <1>2, <1>3, <1>4, Zenon

\* Whatever chunk was fetched before, get_chunk(v) leaves vector v in the buffer of
\* every active operator, patched: also in the buffer another column reads, and in
\* the one an equal column runs again.
THEOREM Current == Spec => []ChunkIsCurrent
<1>1. IInv => ChunkIsCurrent
  <2> SUFFICES ASSUME IInv, phase = "read", chunk # 0, NEW c \in 1 .. Len(schema),
                      NEW k \in DOMAIN dec[c],
                      dec[c][k].op \in {"unffor", "scan", "rsum", "alp", "alp_rd", "frequency", "frequency_str"}
               PROVE  bufs[c][k].vec = chunk /\ "holes" \notin ToSet(bufs[c][k].by)
    BY DEF ChunkIsCurrent, Cols
  <2>1. PICK e : e = schema[c].expr
    OBVIOUS
  <2>2. Ready /\ Fetched(schema, bufs, Len(schema), chunk)
    BY DEF Ready, IInv
  <2>3. /\ dec[c] = [j \in 1 .. OwnLen(e) |-> dec[c][j]]
        /\ \A j \in 1 .. OwnLen(e) : DecoderRight(schema, c, j, dec[c][j])
    BY <2>1, <2>2, ReadyFacts
  <2>4. k \in 1 .. OwnLen(e) /\ dec[c][k].op = OwnOp(e, k)
    <3>1. DOMAIN dec[c] = 1 .. OwnLen(e)
      BY <2>3
    <3>2. k \in 1 .. OwnLen(e)
      BY <3>1
    <3> QED BY <2>1, <2>3, <3>2 DEF DecoderRight, ExprAt
  <2>5. OwnOp(e, k) \in Holders
    BY <2>4 DEF Holders, ActiveOps
  <2>6. ColumnHeld(schema, bufs, c, chunk)
    BY <2>2, Zenon DEF Fetched, ColumnHeld
  <2>7. bufs[c][k] = Held(schema, c, k, chunk)
    BY <2>1, <2>4, <2>5, <2>6 DEF ColumnHeld, ExprAt
  <2>8. bufs[c][k].vec = chunk /\ bufs[c][k].by = HeldBy(e, OwnOp(e, k))
    BY <2>1, <2>7 DEF Held, ExprAt
  <2> QED BY <2>8, HeldWhole
<1> QED BY <1>1, Along, PTL

\* What RowgroupReader materializes is what was encoded, for every rowgroup the
\* wizard leaves, every number of vectors and every order of fetches before.
THEOREM Delivered == Spec => []RoundTrip
<1>1. IInv => RoundTrip
  <2> SUFFICES ASSUME IInv, NEW c \in 1 .. Len(schema), NEW v \in DOMAIN out[c]
               PROVE  out[c][v] = [col |-> Original(c), vec |-> v, by |-> <<>>]
    BY DEF RoundTrip, Cols
  <2>1. out[c] = [w \in 1 .. Len(out[c]) |-> [col |-> OriginalOf(schema, c), vec |-> w, by |-> <<>>]]
    BY DEF IInv, OutRight
  <2>2. OriginalOf(schema, c) = Original(c)
    BY DEF OriginalOf, Original, ExprAt
  <2>3. PICK q, x : q = out[c] /\ x = OriginalOf(schema, c)
    OBVIOUS
  <2>4. q = [w \in 1 .. Len(q) |-> [col |-> x, vec |-> w, by |-> <<>>]] /\ v \in DOMAIN q
    BY <2>1, <2>3
  <2>5. q[v] = [col |-> x, vec |-> v, by |-> <<>>]
    BY <2>4
  <2> QED BY <2>2, <2>3, <2>5
<1> QED BY <1>1, Along, PTL
=============================================================================
