------------------------------- MODULE MCWizard -------------------------------
(* Widths of 1, 2, 3 and 4 bits, so that a dictionary of 2 keys has indexes of  *)
(* "UINT8" and one of 4 indexes of "UINT16".                                    *)
EXTENDS Wizard

MCH == <<1, 2, 4, 8>>
MCNullText == -1

CellsOf(given) == [t \in DataTypes |-> IF t \in DOMAIN given THEN given[t] ELSE {}]

\* No column that may begin with nulls is given a zero, and the columns that may
\* become EXP_NULL_* are of different types.
MCCells ==
  CellsOf([INT64 |-> {-2, 1, Null}, INT32 |-> {-4, 3, Null}, DOUBLE |-> {-3, 5, Null},
           FLOAT |-> {-3, 4, Null}, FLS_STR |-> {-3, -2, Null}, UINT8 |-> {0, 1}])

MCSchemas ==
  {<<"INT64", "INT64", "INT64">>, <<"FLS_STR", "INT64", "FLS_STR">>,
   <<"DOUBLE", "INT32", "INT64">>, <<"FLOAT", "INT64", "UINT8">>}

\* The same measure twice, once with gaps.
Gaps == {<<"DOUBLE", "DOUBLE">>}
GapCells == CellsOf([DOUBLE |-> {3, Null}])
=============================================================================
