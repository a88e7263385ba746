------------------------- MODULE MCExpressionChains -------------------------
(* Rowgroups of one to three columns: every expression on its own, and the   *)
(* expressions that read another column over the columns they can be put on. *)
EXTENDS ExpressionChains

Plain(e) == [expr |-> e, key |-> "any", index |-> "none", of |-> 0]
Dict(e, k, i) == [expr |-> e, key |-> k, index |-> i, of |-> 0]
Over(e, k, i, c) == [expr |-> e, key |-> k, index |-> i, of |-> c]

Singles ==
  {<<Plain(e)>> : e \in Expressions \ (Dictionaries \cup {"equal", "fsst"})}

OwnIndex ==
  {Dict("dict_ffor", k, i) : k \in {"i64", "flt"}, i \in {"u08", "u16"}}
    \cup {Dict("dict_ffor", "i64", "u32"), Dict("dict_ffor_slpatch", "i32", "u16")}

OwnStringIndex ==
  {Dict(e, "str", "u08") : e \in {"dict_str_ffor", "dict_str_ffor_slpatch", "fsst_dict_ffor",
                                  "fsst_dict_ffor_slpatch"}}

\* A column with an index of its own, one that borrows its index, and one that
\* equals the first or borrows through the second.
Borrowing ==
  {<<a, Over(e, "i64", a.index, 1), Over("equal", "any", "none", o)>> :
     a \in OwnIndex \cup OwnStringIndex, e \in External, o \in {1, 2}}
    \cup {<<a, Over(e, "i64", a.index, 1), Over(f, "i64", a.index, 2)>> :
     a \in OwnStringIndex, e \in External, f \in External}

\* A column equal to one of every chain of integers.
Equal ==
  {<<Plain(e), Over("equal", "any", "none", 1), Plain("delta")>> :
     e \in {"uncompressed", "constant", "ffor", "ffor_slpatch", "delta", "rle_slpatch", "alp",
            "alp_rd", "null", "frequency", "cross_rle"}}

MCSchemas == Singles \cup {<<a>> : a \in OwnIndex \cup OwnStringIndex} \cup Borrowing \cup Equal
=============================================================================
