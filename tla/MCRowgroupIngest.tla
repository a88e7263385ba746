--------------------------- MODULE MCRowgroupIngest ---------------------------
(* Widths of 1, 2, 3 and 4 bits: -1 .. 0, -2 .. 1, -4 .. 3 and -8 .. 7. *)
EXTENDS RowgroupIngest

MCH == <<1, 2, 4, 8>>

MCNullText == -1

\* A cell of each kind of type at each boundary of the casts.  A numeral needs 32
\* bits, so that it is not made smaller when it is prepared again; 19 is 3 behind a
\* zero.
MCCells ==
  [t \in DataTypes |->
     CASE t = "BOOLEAN" -> {0, 1}
       [] t = "UINT8"   -> {0, 1, Null}
       [] t = "INT8"    -> {-1, 0, Null}
       [] t = "INT16"   -> {-2, 1, Null}
       [] t = "INT32"   -> {-4, -3, 3}
       [] t \in {"INT64", "DECIMAL", "TIMESTAMP"} -> {-8, -2, 0, 1, 4, 7, Null}
       [] t = "DATE"    -> {-4, 1, 3}
       [] t = "UINT32"  -> {0, 2, 7}
       [] t = "UINT64"  -> {0, 7, 15}
       [] t \in Floating -> {-3, -2, 0, 4, 6, Null}
       [] t = "FLS_STR" -> {-3, -2, 3, 19, Null}]

MCSchemas == {<<s, t>> : s \in {"INT8", "INT64", "DOUBLE"}, t \in {"UINT8", "INT16", "INT32", "FLOAT", "UINT32"}}
             \cup {<<"FLS_STR", "BOOLEAN">>, <<"DOUBLE", "FLS_STR">>}

Schema(t) == {[c \in Cols |-> t]}
Measures == Schema("DOUBLE")
=============================================================================
