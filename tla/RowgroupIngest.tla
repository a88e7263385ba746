---------------------------- MODULE RowgroupIngest ----------------------------
(***************************************************************************)
(* A rowgroup in memory: a reader of CSV or JSON lines ingests its tuples  *)
(* and ends it, prepare_rowgroup gathers the statistics, casts each column *)
(* to the smallest type that holds it and numbers its values.              *)
(*                                                                         *)
(* A cell is an integer: the number itself, the scaled or counted number   *)
(* of a decimal, a date or a timestamp, and for FLOAT and DOUBLE, whose    *)
(* cells are counted in halves, twice the number.  A string of digits is   *)
(* the number it stands for and a multiple of 2^64 that says how many      *)
(* zeros lead it; any other string is a negative code.                     *)
(***************************************************************************)
EXTENDS Integers, Sequences, SequencesExt, FiniteSetsExt

CONSTANTS
  Format,      \* "csv" or "jsonl"
  NumCols,     \* columns of the rowgroup
  Schemas,     \* the schemas: the declared type of each column
  Cells,       \* Cells[type]: the cells such a column is given, Null among them or not
  Null,        \* what IsNull recognises
  NullText,    \* the code of the string "NULL"
  VecSz,       \* CFG::VEC_SZ
  Capacity,    \* tuples of a full rowgroup
  H            \* H[1] .. H[4]: 2^7, 2^15, 2^31 and 2^63

Cols == 1 .. NumCols

\* The types TypeLookUp knows and init_logical_columns makes a column for,
\* without those kept as strings byte for byte or nested.
Signed    == {"INT8", "INT16", "INT32", "INT64"}
Floating  == {"FLOAT", "DOUBLE"}
DataTypes == Signed \cup Floating \cup
  {"BOOLEAN", "UINT8", "UINT32", "UINT64", "DECIMAL", "DATE", "TIMESTAMP", "FLS_STR"}

\* Half the numbers a type of integers has: a signed type of that width holds
\* those from -Half(t) on and below Half(t).
Half(t) ==
  CASE t \in {"BOOLEAN", "UINT8", "INT8"}                    -> H[1]
    [] t = "INT16"                                           -> H[2]
    [] t \in {"UINT32", "INT32", "DATE"}                     -> H[3]
    [] t \in {"UINT64", "INT64", "DECIMAL", "TIMESTAMP"}     -> H[4]

\* std::stoll of a string of digits, which drops the zeros that lead it.
Stoll(s) == s % (2 * Half("INT64"))

ASSUME SchemasAssumption ==
  /\ NumCols \in Nat \ {0}
  /\ Schemas \subseteq [Cols -> DataTypes]
  /\ Null \notin Int
  /\ Cells \in [DataTypes -> SUBSET (Int \cup {Null})]

ASSUME SizesAssumption ==
  /\ Format \in {"csv", "jsonl"}
  /\ VecSz \in Nat \ {0} /\ Capacity \in Nat \ {0} /\ Capacity % VecSz = 0
  /\ H \in [1 .. 4 -> Nat \ {0}]
  /\ H[1] < H[2] /\ H[2] < H[3] /\ H[3] < H[4]
  /\ NullText \in Int /\ NullText < 0

\* No string of digits makes std::stoll throw.
ASSUME NumeralsAssumption ==
  \A s \in Cells["FLS_STR"] \ {Null} : s >= 0 => Stoll(s) < Half("INT64")

VARIABLES
  stage,     \* "reading", "read" or "prepared"
  declared,  \* history: the schema
  tuples,    \* history: the tuples of the file
  types,     \* ColumnDescriptorT::data_type
  cols       \* the columns: data, null_map_arr, m_stats.n_nulls and the bimap

ingestVars == <<stage, declared, tuples, types, cols>>

-----------------------------------------------------------------------------
(* Ingestion *)

NewColumn == [data |-> <<>>, null_map_arr |-> <<>>, n_nulls |-> 0, keys |-> <<>>]

Init ==
  /\ stage = "reading"
  /\ declared \in Schemas
  /\ tuples = <<>>
  /\ types = declared
  /\ cols = [c \in Cols |-> NewColumn]

\* last_seen_val: TypedNull or the string "NULL" before the first value.  What
\* has been seen last is what has been stored last.
LastSeen(t, data) ==
  IF data = <<>> THEN IF t = "FLS_STR" THEN NullText ELSE 0 ELSE Last(data)

\* TypedIngest and FLSStringIngest.  Nulls are counted for typed columns only.
Ingested(t, col, cell) ==
  [data         |-> Append(col.data, IF cell = Null THEN LastSeen(t, col.data) ELSE cell),
   null_map_arr |-> Append(col.null_map_arr, cell = Null),
   n_nulls      |-> IF cell = Null /\ t # "FLS_STR" THEN col.n_nulls + 1 ELSE col.n_nulls,
   keys         |-> col.keys]

\* One turn of the loop of CsvReader::Read or JsonReader::Read.
IngestTuple ==
  /\ stage = "reading" /\ Len(tuples) < Capacity
  /\ \E tuple \in [Cols -> UNION {Cells[t] : t \in DataTypes}] :
       /\ \A c \in Cols : tuple[c] \in Cells[types[c]]
       /\ tuples' = Append(tuples, tuple)
       /\ cols' = [c \in Cols |-> Ingested(types[c], cols[c], tuple[c])]
  /\ UNCHANGED <<stage, declared, types>>

\* Mutant: whole vectors are followed by one of fillings.
FillAlways ==
  IF Format = "csv" THEN VecSz - (Len(tuples) % VecSz) ELSE 0

\* Only CsvReader::Read fills the last vector.
HowManyToFill ==
  IF Format = "csv" THEN (VecSz - (Len(tuples) % VecSz)) % VecSz ELSE 0

\* Mutant: the null map is filled in too.
FilledWithNulls(col, n) ==
  [col EXCEPT !.data         = @ \o [i \in 1 .. n |-> Last(@)],
              !.null_map_arr = @ \o [i \in 1 .. n |-> TRUE]]

\* FillMissingValues: the last value is repeated, the null map is not extended.
Filled(col, n) == [col EXCEPT !.data = @ \o [i \in 1 .. n |-> Last(@)]]

\* The rowgroup is full or the file ends.
EndRowgroup ==
  /\ stage = "reading" /\ tuples # <<>>
  /\ cols' = [c \in Cols |-> Filled(cols[c], HowManyToFill)]
  /\ stage' = "read"
  /\ UNCHANGED <<declared, tuples, types>>

-----------------------------------------------------------------------------
(* prepare_rowgroup *)

\* static_cast to a signed type.
ToSigned(t, v) ==
  LET m == 2 * Half(t)
  IN  IF v % m < Half(t) THEN v % m ELSE (v % m) - m

Fits(t, v) == ToSigned(t, v) = v

\* Mutant: only the largest value is looked at.
SmallestOfMax(data) ==
  LET v == ToSigned("INT64", Max(ToSet(data)))
  IN  IF Fits("INT8", v) THEN "INT8" ELSE IF Fits("INT16", v) THEN "INT16"
      ELSE IF Fits("INT32", v) THEN "INT32" ELSE "INT64"

\* getSmallestSignedType of min and max, both taken as int64_t.
SmallestSigned(data) ==
  LET ends == {ToSigned("INT64", Min(ToSet(data))), ToSigned("INT64", Max(ToSet(data)))}
      Holds(t) == \A v \in ends : Fits(t, v)
  IN  IF Holds("INT8") THEN "INT8" ELSE IF Holds("INT16") THEN "INT16"
      ELSE IF Holds("INT32") THEN "INT32" ELSE "INT64"

\* m_stats.is_numeric: no null, and all of digits.
IsNumeric(col) ==
  \A i \in 1 .. Len(col.null_map_arr) : ~ col.null_map_arr[i] /\ col.data[i] >= 0

\* m_stats.is_double_castable, with all cells within 2^53.
IsDoubleCastable(col) ==
  \A i \in 1 .. Len(col.null_map_arr) : col.null_map_arr[i] \/ col.data[i] % 2 = 0

Halved(data) == [i \in DOMAIN data |-> data[i] \div 2]

\* The numbers that are cast.
ToCast(from, data) ==
  CASE from = "DOUBLE"  -> Halved(data)
    [] from = "FLS_STR" -> [i \in DOMAIN data |-> Stoll(data[i])]
    [] OTHER            -> data

\* Mutant: a DOUBLE of whole numbers becomes an INT64, as a DECIMAL does, and is
\* made smaller the next time.
DoubleAsI64(t, col) ==
  CASE t \in {"BOOLEAN", "UINT8", "FLOAT"} -> t
    [] t = "FLS_STR" -> IF IsNumeric(col) THEN "INT32" ELSE t
    [] t = "DOUBLE"  -> IF IsDoubleCastable(col) THEN "INT64" ELSE t
    [] OTHER         -> SmallestSigned(col.data)

\* The type cast chooses.
CastType(t, col) ==
  CASE t \in {"BOOLEAN", "UINT8", "FLOAT"} -> t
    [] t = "FLS_STR" -> IF IsNumeric(col) THEN "INT32" ELSE t
    [] t = "DOUBLE"  -> IF IsDoubleCastable(col) THEN SmallestSigned(Halved(col.data)) ELSE t
    [] OTHER         -> SmallestSigned(col.data)

\* col_cast_visitor: a new column, whose statistics begin anew.
CastColumn(from, to, col) ==
  LET data == ToCast(from, col.data)
  IN  IF from = to THEN col
      ELSE [data         |-> [i \in DOMAIN data |-> ToSigned(to, data[i])],
            null_map_arr |-> col.null_map_arr,
            n_nulls      |-> 0,
            keys         |-> <<>>]

\* The values of data that are not among the keys, in the order in which they
\* appear first, behind the keys.
Extended(keys, data) ==
  LET After[n \in 0 .. Len(data)] ==
        IF n = 0 THEN keys
        ELSE IF data[n] \in ToSet(After[n - 1]) THEN After[n - 1]
        ELSE Append(After[n - 1], data[n])
  IN  After[Len(data)]

\* PopulateBiMap, and GetStatistics for strings: values are numbered in the
\* order in which they appear first, those stored for nulls and filled in too.
Numbered(col) == [col EXCEPT !.keys = Extended(@, col.data)]

\* to_fls calls it for every file it writes, so that a column may be prepared
\* again.
Prepare ==
  /\ stage \in {"read", "prepared"}
  /\ LET to == [c \in Cols |-> CastType(types[c], cols[c])]
     IN  /\ types' = to
         /\ cols' = [c \in Cols |-> Numbered(CastColumn(types[c], to[c], cols[c]))]
  /\ stage' = "prepared"
  /\ UNCHANGED <<declared, tuples>>

IngestNext == IngestTuple \/ EndRowgroup \/ Prepare

IngestSpec == Init /\ [][IngestNext]_ingestVars

-----------------------------------------------------------------------------
(* Properties *)

\* TypedToStr, as the number meant and the notation of the type.  A string prints
\* as it is, and so like a number only if it is the numeral of one.
Printed(t, v) ==
  IF t = "FLS_STR" /\ Stoll(v) # v THEN <<t, v>>
  ELSE <<IF t \in {"DATE", "TIMESTAMP", "DECIMAL", "BOOLEAN"} THEN t ELSE "plain",
         IF t \in Floating THEN v ELSE 2 * v>>

Column ==
  [data : Seq(Int), null_map_arr : Seq(BOOLEAN), n_nulls : Nat, keys : Seq(Int)]

\* A column has a value for each tuple, and one entry of its null map for each
\* tuple whatever has been filled in.
IngestTypeOK ==
  /\ stage \in {"reading", "read", "prepared"}
  /\ declared \in Schemas
  /\ types \in [Cols -> DataTypes]
  /\ tuples \in Seq([Cols -> Int \cup {Null}]) /\ Len(tuples) <= Capacity
  /\ cols \in [Cols -> Column]
  /\ \A c \in Cols : /\ Len(cols[c].null_map_arr) = Len(tuples)
                     /\ Len(cols[c].data) >= Len(tuples)

\* Rowgroup::VecCount
VecCount == (Len(tuples) + VecSz - 1) \div VecSz

\* The encoder, which takes m_n_vec = VecCount() vectors of VEC_SZ values from
\* each column of a rowgroup that has been read, finds them all, and no more are
\* there than it takes.
VectorsComplete ==
  stage # "reading" => \A c \in Cols : Len(cols[c].data) = VecCount * VecSz

\* What a cast leaves of a value: a column of strings that becomes one of numbers
\* loses the zeros that lead its numerals, and nothing else is lost.
Survives(from, to, v) == IF from = "FLS_STR" /\ to # "FLS_STR" THEN Stoll(v) ELSE v

\* A cell that is not null prints, after the cast of its column, as what was
\* ingested, leading zeros of numerals excepted: the type cast chooses from the
\* statistics holds every value, and strings that are cast are numerals.
CastExact ==
  stage = "prepared" =>
    \A c \in Cols : \A i \in 1 .. Len(tuples) :
      tuples[i][c] # Null =>
        Printed(types[c], cols[c].data[i]) =
          Printed(declared[c], Survives(declared[c], types[c], tuples[i][c]))

\* The types a rowgroup is prepared with are final: preparing it again, for the
\* next to_fls of the connection, whose descriptor stays the one of the first,
\* changes no column.
TypesFinal == [][stage = "prepared" => UNCHANGED <<types, cols>>]_ingestVars
=============================================================================
