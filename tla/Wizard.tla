-------------------------------- MODULE Wizard --------------------------------
(***************************************************************************)
(* rowgroup_check of the wizard: five passes over the columns of a         *)
(* prepared rowgroup decide with which operator each is encoded.  A pass   *)
(* leaves alone what an earlier one has determined, and a column may come  *)
(* to rest on another one: on its data (EXP_EQUAL) or on the indexes of    *)
(* its dictionary (the EXP_DICT_* without an encoding of their own).  Each *)
(* pass knows some of the types and reaches FLS_UNREACHABLE for the rest.  *)
(***************************************************************************)
EXTENDS RowgroupIngest

CONSTANTS
  NullNum, NullDen,    \* NULLS_THRESHOLD_PERCENTAGE is NullNum / NullDen
  RatioNum, RatioDen,  \* MAX_UNIQUENESS_RATIO_FOR_DICTIONARY_ENCODING
  Junk                 \* what a column decodes to when its index is not one of its own

ASSUME RatiosAssumption ==
  /\ NullNum \in Nat /\ NullDen \in Nat \ {0}
  /\ RatioNum \in Nat /\ RatioDen \in Nat \ {0}
  /\ Junk \notin Int

VARIABLES
  check,  \* the pass that comes next, "spelled" after the last, or "failed"
  rpn     \* RPNT: the operator, the column it rests on and the type of its index

wizardVars == <<stage, declared, tuples, types, cols, check, rpn>>

Determined(op, of, index) == [op |-> op, of |-> of, index |-> index]
Undetermined == Determined("none", 0, "none")

WizardInit ==
  /\ Init
  /\ check = "constant_check"
  /\ rpn = [c \in Cols |-> Undetermined]

\* read_csv and prepare_table, then spell.
Ingest ==
  /\ check = "constant_check"
  /\ IngestNext
  /\ UNCHANGED <<check, rpn>>

IsDetermined(c) == rpn[c] # Undetermined

\* The end of a pass: FLS_UNREACHABLE throws, and nothing is written.
Passed(fails, chosen, next) ==
  /\ check' = IF fails THEN "failed" ELSE next
  /\ rpn' = IF fails THEN rpn ELSE chosen
  /\ UNCHANGED <<stage, declared, tuples, types, cols>>

-----------------------------------------------------------------------------
(* Constants, equal columns and nulls *)

\* Every type has an operator for constants.
ConstantCheck ==
  /\ check = "constant_check" /\ stage = "prepared"
  /\ Passed(FALSE,
            [c \in Cols |-> IF Len(cols[c].keys) = 1 THEN Determined("constant", 0, "none")
                            ELSE Undetermined],
            "equality_check")

\* The alternative of col_pt a column is held in.
Physical(t) == IF t = "BOOLEAN" THEN "UINT8" ELSE t

EqualTo(s) ==
  {f \in 1 .. s - 1 : Physical(types[f]) = Physical(types[s]) /\ cols[f].data = cols[s].data}

\* Mutant: a type is missing from the switch.
HasEqualityNot16 == (Signed \ {"INT16"}) \cup Floating \cup {"FLS_STR"}

HasEquality == Signed \cup Floating \cup {"FLS_STR"}

EqualityCheck ==
  /\ check = "equality_check"
  /\ LET equals == {s \in Cols : ~ IsDetermined(s) /\ EqualTo(s) # {}}
     IN  Passed(\E s \in equals : types[s] \notin HasEquality,
                [c \in Cols |-> IF c \in equals THEN Determined("equal", Min(EqualTo(c)), "none")
                                ELSE rpn[c]],
                "null_check")

HasNull == {"DOUBLE", "FLOAT", "INT16", "INT32"}

NullCheck ==
  /\ check = "null_check"
  /\ LET nulls == {c \in Cols : /\ ~ IsDetermined(c)
                                /\ cols[c].n_nulls * NullDen > NullNum * Len(cols[c].data)}
     IN  Passed(\E c \in nulls : types[c] \notin HasNull,
                [c \in Cols |-> IF c \in nulls THEN Determined("null", 0, "none") ELSE rpn[c]],
                "map_1t1_check")

-----------------------------------------------------------------------------
(* Dictionaries *)

\* A string column may be just at the ratio.
IsGoodForDictionary(c) ==
  LET unique == Len(cols[c].keys) * RatioDen
      most   == RatioNum * Len(cols[c].data)
  IN  IF types[c] = "FLS_STR" THEN unique <= most ELSE unique < most

\* Mutant: the reverse map is not looked at.
IsMap(f, s) ==
  /\ cols[f].null_map_arr = cols[s].null_map_arr
  /\ \A i, j \in 1 .. Len(tuples) :
       ~ cols[f].null_map_arr[i] /\ ~ cols[f].null_map_arr[j] =>
         (cols[f].data[i] = cols[f].data[j] => cols[s].data[i] = cols[s].data[j])

\* Over the rows that are not null.
IsMap1t1(f, s) ==
  /\ cols[f].null_map_arr = cols[s].null_map_arr
  /\ \A i, j \in 1 .. Len(tuples) :
       ~ cols[f].null_map_arr[i] /\ ~ cols[f].null_map_arr[j] =>
         (cols[f].data[i] = cols[f].data[j] <=> cols[s].data[i] = cols[s].data[j])

\* A rowgroup whose last vector was filled in has more values than null_map_arr
\* has entries.  Two typed columns are not mapped then; with a string column
\* among the two the entries are read all the same, and what is found there may
\* differ between the two columns.
PastNullMap(f, s) == Len(cols[f].data) > Len(cols[f].null_map_arr)
IsTyped(c) == types[c] # "FLS_STR"

\* FindBestDataTypeForColumn
IndexType(n) ==
  IF n <= 2 * H[1] THEN "UINT8" ELSE IF n <= 2 * H[2] THEN "UINT16" ELSE "UINT32"

FindBestDataTypeForIndex(f, s) == IndexType(Max({Len(cols[f].keys), Len(cols[s].keys)}))

\* PushExternalDictionaryEncoding
HasExternal(t, index) ==
  \/ t \in {"INT64", "INT32", "DOUBLE", "FLS_STR"}
  \/ t = "INT16" /\ index # "UINT32"
  \/ t \in {"INT8", "UINT8", "FLOAT"} /\ index = "UINT8"

\* Mutant: the first of a pair may itself rest on another column.
SourceOfAny(mapped) ==
  [s \in Cols |->
     LET firsts == {f \in 1 .. s - 1 : ~ IsDetermined(f) /\ IsGoodForDictionary(f) /\ <<f, s>> \in mapped}
     IN  IF IsDetermined(s) \/ firsts = {} THEN 0 ELSE Min(firsts)]

\* The first column of the pair s is found to be the second of, or 0.
SourceOf(mapped) ==
  LET Source[s \in Cols] ==
        LET firsts == {f \in 1 .. s - 1 : /\ ~ IsDetermined(f) /\ Source[f] = 0
                                          /\ IsGoodForDictionary(f) /\ <<f, s>> \in mapped}
        IN  IF IsDetermined(s) \/ firsts = {} THEN 0 ELSE Min(firsts)
  IN  Source

\* The second of a pair takes the type of the index of that pair; the first, for
\* each pair it is the first of, and the last remains.
Map1t1Check ==
  /\ check = "map_1t1_check"
  /\ \E misread \in SUBSET {p \in Cols \X Cols : p[1] < p[2] /\ PastNullMap(p[1], p[2])} :
       LET mapped == {p \in (Cols \X Cols) \ misread :
                        /\ IsMap1t1(p[1], p[2])
                        /\ IsTyped(p[1]) /\ IsTyped(p[2]) => ~ PastNullMap(p[1], p[2])}
           Source     == SourceOf(mapped)
           Seconds(c) == {s \in Cols : Source[s] = c}
       IN  Passed(\E s \in Cols :
                    Source[s] # 0
                      /\ ~ HasExternal(types[s], FindBestDataTypeForIndex(Source[s], s)),
                  [c \in Cols |->
                     IF Source[c] # 0
                     THEN Determined("external", Source[c], FindBestDataTypeForIndex(Source[c], c))
                     ELSE IF Seconds(c) # {}
                     THEN Determined("dictionary", 0, FindBestDataTypeForIndex(c, Max(Seconds(c))))
                     ELSE rpn[c]],
                  "expression_check")

-----------------------------------------------------------------------------
(* Expressions *)

\* get_dict_encoding_pool: the index types it has a pool for, and those whose
\* pool has operators of the column's type.  That of UINT32 for FLOAT has those of
\* DOUBLE.
HasPool(t, index) ==
  CASE t \in {"UINT8", "BOOLEAN"} -> index = "UINT8"
    [] t \in {"INT8", "INT16", "FLOAT"} -> index # "UINT32"
    [] OTHER -> TRUE

HasDictionary(t, index) ==
  HasPool(t, index) /\ t \notin {"UINT8", "BOOLEAN"} /\ (t = "INT8" => index = "UINT8")

\* Mutant: a type that falls through the switch of expression_check_column.
ExpressionCheckNotFloat ==
  /\ check = "expression_check"
  /\ Passed(\E c \in Cols :
              \/ rpn[c].op = "dictionary" /\ ~ HasDictionary(types[c], rpn[c].index)
              \/ ~ IsDetermined(c) /\ ~ HasPool(types[c], IndexType(Len(cols[c].keys))),
            [c \in Cols |-> IF IsDetermined(c) \/ types[c] = "FLOAT" THEN rpn[c]
                            ELSE Determined("own", 0, "none")],
            "spelled")

\* TypedDecide: what TryExpr finds smallest among the operators of the pool.
\* ChooseBestExpr has nothing to choose from when the pool is empty.
ExpressionCheck ==
  /\ check = "expression_check"
  /\ Passed(\E c \in Cols :
              \/ rpn[c].op = "dictionary" /\ ~ HasDictionary(types[c], rpn[c].index)
              \/ ~ IsDetermined(c) /\ ~ HasPool(types[c], IndexType(Len(cols[c].keys))),
            [c \in Cols |-> IF IsDetermined(c) THEN rpn[c] ELSE Determined("own", 0, "none")],
            "spelled")

WizardNext ==
  Ingest \/ ConstantCheck \/ EqualityCheck \/ NullCheck \/ Map1t1Check \/ ExpressionCheck

WizardSpec == WizardInit /\ [][WizardNext]_wizardVars

-----------------------------------------------------------------------------
(* What a reader gets *)

\* The index of row i in the dictionary of a column.
KeyAt(c, i) == CHOOSE k \in DOMAIN cols[c].keys : cols[c].keys[k] = cols[c].data[i]

External(c, i) ==
  LET f == rpn[c].of
  IN  IF rpn[f].op = "dictionary" /\ rpn[f].index = rpn[c].index
         /\ KeyAt(f, i) \in DOMAIN cols[c].keys
      THEN cols[c].keys[KeyAt(f, i)] ELSE Junk

\* EXP_NULL_* stores the values that are not null and leaves zeros between them.
Decoded(c, i) ==
  CASE rpn[c].op = "constant" -> cols[c].keys[1]
    [] rpn[c].op = "null"     -> IF cols[c].null_map_arr[i] THEN 0 ELSE cols[c].data[i]
    [] rpn[c].op = "external" -> External(c, i)
    [] OTHER                  -> cols[c].data[i]

-----------------------------------------------------------------------------
(* Properties *)

Passes == {"constant_check", "equality_check", "null_check", "map_1t1_check", "expression_check"}

\* A column rests on a column exactly when its operator is one that does, has an
\* index type exactly when it has a dictionary, and the last pass leaves none
\* undetermined.
WizardTypeOK ==
  /\ check \in Passes \cup {"spelled", "failed"}
  /\ rpn \in [Cols -> [op    : {"none", "constant", "equal", "null", "dictionary", "external", "own"},
                       of    : 0 .. NumCols,
                       index : {"none", "UINT8", "UINT16", "UINT32"}]]
  /\ \A c \in Cols : /\ rpn[c].of # 0 <=> rpn[c].op \in {"equal", "external"}
                     /\ rpn[c].index # "none" <=> rpn[c].op \in {"dictionary", "external"}
  /\ check = "spelled" => \A c \in Cols : IsDetermined(c)

\* rowgroup_check finds an operator for every column of a prepared rowgroup: no
\* pass takes a column to an operator its type or its index does not have.
NoUnreachable == check # "failed"

\* What a column rests on is before it, so that it is decoded first, and does not
\* rest on another column itself: an index is looked up in a column that has a
\* dictionary of its own.
SourcesStand ==
  \A c \in Cols :
    /\ rpn[c].of < c
    /\ rpn[c].op = "equal" => rpn[rpn[c].of].op # "equal"
    /\ rpn[c].op = "external" => rpn[rpn[c].of].op = "dictionary"

\* Every cell of the table that is not null reads back as it is in memory,
\* whatever its column rests on.
DecodedEqualsOriginal ==
  check = "spelled" =>
    \A c \in Cols : \A i \in 1 .. Len(tuples) :
      ~ cols[c].null_map_arr[i] =>
        Decoded(IF rpn[c].op = "equal" THEN rpn[c].of ELSE c, i) = cols[c].data[i]
=============================================================================
