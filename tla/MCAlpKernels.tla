----------------------------- MODULE MCAlpKernels -----------------------------
(***************************************************************************)
(* Vectors of four values, of which two are sampled.  One vector of all    *)
(* combinations of values that need one exponent or another, or none; five *)
(* or seven vectors, of which every second of the first five is sampled,   *)
(* of a few shapes that favour different combinations; for ALP-RD three    *)
(* vectors of shapes with different left parts.                            *)
(***************************************************************************)
EXTENDS AlpKernels

CONSTANTS NULL, NAN, NEGZERO

\* Decimals of base 3 with four digits behind the point: 81 is one.
Huge == 81 * 127

DoubleUpper == 126
FloatUpper  == 500

Zeros    == [i \in 0 .. 3 |-> 0]
Identity == [i \in 0 .. 3 |-> i]

Columns(exprs, cellsSet, uppers, builds, tmps) ==
  {[expr |-> e, cells |-> r, upper |-> u, build |-> b, tmp |-> t] :
     e \in exprs, r \in cellsSet, u \in uppers, b \in builds, t \in tmps}

\* One vector, whole or partial.
VectorInputs ==
  Columns({"GALP"}, [1 .. 4 -> {0, 27, 81, 1, NAN, NEGZERO, NULL}], {DoubleUpper, FloatUpper}, {"x86"}, {Zeros})
    \cup Columns({"ALP"}, [1 .. 4 -> {81, 243, Huge, NEGZERO}], {DoubleUpper, FloatUpper}, Builds, {Zeros, Identity})
    \cup Columns({"ALP"}, [1 .. 3 -> {54, 81, 1, NULL}], {DoubleUpper}, {"avx512"}, {Identity})

Shapes == {<<81, 162, 81, 162>>, <<27, 81, 54, 1>>, <<9, NAN, 18, 81>>, <<3, 27, 6, 3>>, <<1, NULL, NEGZERO, 1>>}

\* Of seven vectors the last is behind those that are sampled.
ShapeInputs ==
  Columns({"ALP"},
          {a \o b \o c \o d \o e : a, b, c, d, e \in Shapes}
            \cup {a \o b \o c \o b \o d \o b \o e : a, b, c, d, e \in Shapes},
          {DoubleUpper}, {"avx512"}, {Identity})

RdShapes == {<<0, 1, 2, 3>>, <<0, 8, 31, 9>>, <<8, 0, 8, 16>>, <<16, 31, 24, 31>>, <<31, 0, 20, NULL>>}

RdInputs == Columns({"ALP_RD"}, {a \o b \o c : a, b, c \in RdShapes}, {DoubleUpper}, {"x86"}, {Zeros})

MCInputs == VectorInputs \cup ShapeInputs \cup RdInputs

\* Columns of values that no combination encodes.
RandomInputs == Columns({"ALP"}, [1 .. 8 -> {1, 2, Huge}], {DoubleUpper}, {"x86"}, {Zeros})
=============================================================================
