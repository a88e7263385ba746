--------------------------- MODULE MCOperatorKernels ---------------------------
(***************************************************************************)
(* Vectors of four values of three bits in two lanes.  One vector of every *)
(* four numbers, for what depends on the width; two vectors, the last one  *)
(* partial, of a few numbers or strings with nulls, and three vectors of   *)
(* two values, for what depends on positions.                              *)
(***************************************************************************)
EXTENDS OperatorKernels

CONSTANT NULL

MCNullText == <<7, 7>>

Columns(exprs, rowsSet, tables) ==
  {[expr |-> e, rows |-> r, table |-> t] : e \in exprs, r \in rowsSet, t \in tables}

WidthInputs == Columns({"FFOR", "FFOR_SLPATCH", "DELTA"}, [1 .. 4 -> -4 .. 3], {{}})

NullInputs ==
  Columns(NumericExprs, [1 .. 4 -> {-4, 1, 3, NULL}] \cup [1 .. 5 -> {-4, 3, NULL}], {{}})

StringRows == [1 .. 4 -> {<<>>, <<1>>, <<1, 2>>, NULL}] \cup [1 .. 5 -> {<<1>>, <<1, 2>>, NULL}]

\* A column whose strings are all equal is not given to FSST.
Varying(rowsSet) ==
  {r \in rowsSet : Cardinality({r[i] : i \in DOMAIN r} \ {NULL}) > 1}

StringInputs ==
  Columns(StringExprs \ {"STR_FSST", "STR_FSST_DICT"}, StringRows, {{}})
    \cup Columns({"STR_FSST", "STR_FSST_DICT"}, Varying(StringRows), {{1}, {1, 2}})

\* Runs across vectors.
RunInputs ==
  Columns({"CROSS_RLE", "RLE_SLPATCH"}, [1 .. 9 -> {1, 2}], {{}})
    \cup Columns({"STR_CROSS_RLE"}, [1 .. 9 -> {<<>>, <<1, 2>>}], {{}})

MCInputs == WidthInputs \cup NullInputs \cup StringInputs \cup RunInputs
=============================================================================
