----------------------------- MODULE WizardProofs -----------------------------
(***************************************************************************)
(* What holds of Wizard for every schema, every file and all thresholds:   *)
(* what a column rests on is before it and stands on its own, and, where   *)
(* nulls are in string columns only, each column reads back and no pass    *)
(* fails for want of an operator.                                          *)
(***************************************************************************)
EXTENDS Wizard, RowgroupIngestProofs

-----------------------------------------------------------------------------
(* The wizard leaves the rowgroup alone *)

\* Reading a file and preparing it is all that happens to the rowgroup.
LEMMA WizardIngests == WizardSpec => IngestSpec
<1>1. WizardInit => Init
  BY DEF WizardInit
<1>2. ASSUME NEW fails, NEW chosen, NEW next, Passed(fails, chosen, next)
      PROVE  UNCHANGED ingestVars
  BY <1>2, Zenon DEF Passed, ingestVars
<1>3. [WizardNext]_wizardVars => [IngestNext]_ingestVars
  <2>1. Ingest => IngestNext
    BY DEF Ingest
  <2>2. ConstantCheck => UNCHANGED ingestVars
    BY <1>2, Zenon DEF ConstantCheck
  <2>3. EqualityCheck => UNCHANGED ingestVars
    BY <1>2, Zenon DEF EqualityCheck
  <2>4. NullCheck => UNCHANGED ingestVars
    BY <1>2, Zenon DEF NullCheck
  <2>5. Map1t1Check => UNCHANGED ingestVars
    BY <1>2, Zenon DEF Map1t1Check
  <2>6. ExpressionCheck => UNCHANGED ingestVars
    BY <1>2, Zenon DEF ExpressionCheck
  <2>7. UNCHANGED wizardVars => UNCHANGED ingestVars
    BY DEF wizardVars, ingestVars
  <2>8. QED
    BY <2>1, <2>2, <2>3, <2>4, <2>5, <2>6, <2>7, Zenon DEF WizardNext
<1>4. QED
  BY <1>1, <1>3, PTL DEF WizardSpec, IngestSpec

-----------------------------------------------------------------------------
(* Least and greatest columns *)

\* Min finds the least element of a set of numbers.
LEMMA MinMember ==
  ASSUME NEW T \in SUBSET Nat, T # {}
  PROVE  Min(T) \in T /\ \A y \in T : Min(T) <= y
<1>1. \E x \in T : \A y \in T : x <= y
  BY LeastElement
<1>2. QED
  BY <1>1, Zenon DEF Min

\* Max finds an element of a set of columns.
LEMMA MaxMember ==
  ASSUME NEW T \in SUBSET Cols, T # {}
  PROVE  Max(T) \in T
<1>1. PICK R : R = {n \in Nat : NumCols - n \in T}
  OBVIOUS
<1>2. NumCols \in Nat /\ \A x \in T : x \in Nat /\ NumCols - x \in Nat /\ NumCols - (NumCols - x) = x
  BY SchemasAssumption DEF Cols
<1>3. \A x \in T : NumCols - x \in R
  BY <1>1, <1>2
<1>4. R \in SUBSET Nat /\ R # {}
  BY <1>1, <1>3
<1>5. PICK n \in R : \A y \in R : n <= y
  BY <1>4, LeastElement
<1>6. n \in Nat /\ NumCols - n \in T
  BY <1>1, <1>5
<1>7. \A y \in T : NumCols - n >= y
  BY <1>2, <1>3, <1>5, <1>6
<1>8. \E x \in T : \A y \in T : x >= y
  BY <1>6, <1>7
<1>9. QED
  BY <1>8, Zenon DEF Max

\* Of two equal numbers either is the greatest.
LEMMA MaxOfOne == \A n \in Nat : Max({n, n}) = n
<1> SUFFICES ASSUME NEW n \in Nat PROVE Max({n, n}) = n
  OBVIOUS
<1>1. \E x \in {n, n} : \A y \in {n, n} : x >= y
  OBVIOUS
<1>2. Max({n, n}) \in {n, n}
  BY <1>1, Zenon DEF Max
<1>3. QED
  BY <1>2

-----------------------------------------------------------------------------
(* The pairs of the one-to-one check *)

\* The columns s may rest on, where Source says what the columns before it do.
Firsts(mapped, Source, s) ==
  {f \in 1 .. s - 1 : /\ ~ IsDetermined(f) /\ Source[f] = 0
                      /\ IsGoodForDictionary(f) /\ <<f, s>> \in mapped}

FirstOf(mapped, Source, s) ==
  IF IsDetermined(s) \/ Firsts(mapped, Source, s) = {} THEN 0 ELSE Min(Firsts(mapped, Source, s))

\* SourceOf is what its equation says, column by column.
LEMMA SourceDef ==
  ASSUME NEW mapped
  PROVE  SourceOf(mapped) = [s \in Cols |-> FirstOf(mapped, SourceOf(mapped), s)]
<1> DEFINE S == {top \in Nat : \E F : F = [s \in 1 .. top |-> FirstOf(mapped, F, s)]}
<1>1. 0 \in S
  <2>1. PICK F : F = [s \in 1 .. 0 |-> 0]
    OBVIOUS
  <2>2. F = [s \in 1 .. 0 |-> FirstOf(mapped, F, s)]
    BY <2>1
  <2>3. QED
    BY <2>2
<1>2. ASSUME NEW top \in Nat, NEW F, F = [s \in 1 .. top |-> FirstOf(mapped, F, s)]
      PROVE  \E G : G = [s \in 1 .. top + 1 |-> FirstOf(mapped, G, s)]
  <2>1. PICK G : G = [s \in 1 .. top + 1 |-> FirstOf(mapped, F, s)]
    OBVIOUS
  <2>2. \A s \in 1 .. top : G[s] = F[s]
    BY <1>2, <2>1
  <2>3. ASSUME NEW s \in 1 .. top + 1
        PROVE  FirstOf(mapped, G, s) = FirstOf(mapped, F, s)
    <3>1. \A f \in 1 .. s - 1 : G[f] = F[f]
      BY <2>2
    <3>2. Firsts(mapped, G, s) = Firsts(mapped, F, s)
      BY <3>1 DEF Firsts
    <3>3. QED
      BY <3>2, Zenon DEF FirstOf
  <2>4. G = [s \in 1 .. top + 1 |-> FirstOf(mapped, G, s)]
    BY <2>1, <2>3
  <2>5. QED
    BY <2>4
<1>3. \A top \in Nat : top \in S => top + 1 \in S
  BY <1>2
<1>4. NumCols \in Nat
  BY SchemasAssumption
<1>5. NumCols \in S
  <2> HIDE DEF S
  <2>1. QED
    BY <1>1, <1>3, <1>4, Successors
<1>6. \E F : F = [s \in Cols |-> FirstOf(mapped, F, s)]
  BY <1>5 DEF Cols
<1>7. SourceOf(mapped) = CHOOSE F : F = [s \in Cols |-> FirstOf(mapped, F, s)]
  BY Zenon DEF SourceOf, FirstOf, Firsts
<1>8. QED
  BY <1>6, <1>7, Zenon

\* A column rests on an undetermined one before it that rests on none.
LEMMA SourceFacts ==
  ASSUME NEW mapped, NEW s \in Cols, NEW f, f = SourceOf(mapped)[s]
  PROVE  /\ f \in 0 .. s - 1
         /\ f # 0 => /\ f \in Cols /\ ~ IsDetermined(s) /\ ~ IsDetermined(f)
                     /\ SourceOf(mapped)[f] = 0 /\ <<f, s>> \in mapped
<1>1. PICK T : T = Firsts(mapped, SourceOf(mapped), s)
  OBVIOUS
<1>2. f = IF IsDetermined(s) \/ T = {} THEN 0 ELSE Min(T)
  <2>1. f = FirstOf(mapped, SourceOf(mapped), s)
    BY SourceDef
  <2>2. QED
    BY <1>1, <2>1, Zenon DEF FirstOf
<1>3. s \in Nat \ {0} /\ 1 .. s - 1 \subseteq Cols /\ 1 .. s - 1 \subseteq Nat
  BY SchemasAssumption DEF Cols
<1>4. T \in SUBSET (1 .. s - 1) /\ T \in SUBSET Nat
  BY <1>1, <1>3 DEF Firsts
<1>5. CASE f = 0
  BY <1>3, <1>5
<1>6. CASE f # 0
  <2>1. ~ IsDetermined(s) /\ T # {} /\ f = Min(T)
    BY <1>2, <1>6
  <2>2. f \in T
    BY <1>4, <2>1, MinMember
  <2>3. f \in 1 .. s - 1 /\ ~ IsDetermined(f) /\ SourceOf(mapped)[f] = 0 /\ <<f, s>> \in mapped
    BY <1>1, <2>2 DEF Firsts
  <2>4. QED
    BY <1>3, <2>1, <2>3
<1>7. QED
  BY <1>5, <1>6

-----------------------------------------------------------------------------
(* What a column rests on *)

\* The operator tokens there are, and that of is used by two kinds of them and an
\* index by two.
Rpn ==
  [op    : {"none", "constant", "equal", "null", "dictionary", "external", "own"},
   of    : 0 .. NumCols,
   index : {"none", "UINT8", "UINT16", "UINT32"}]

RpnOK(r) ==
  /\ r \in Rpn
  /\ r.of # 0 <=> r.op \in {"equal", "external"}
  /\ r.index # "none" <=> r.op \in {"dictionary", "external"}

\* The inductive invariant: what the passes so far can have chosen.
StandInv ==
  /\ check \in Passes \cup {"spelled", "failed"}
  /\ rpn \in [Cols -> Rpn]
  /\ \A c \in Cols : RpnOK(rpn[c])
  /\ check = "constant_check" => \A c \in Cols : rpn[c] = Undetermined
  /\ check = "equality_check" => \A c \in Cols : rpn[c].op \in {"none", "constant"}
  /\ check \in {"null_check", "map_1t1_check"} =>
       \A c \in Cols : rpn[c].op \in {"none", "constant", "equal", "null"}
  /\ check = "spelled" => \A c \in Cols : rpn[c].op # "none"
  /\ SourcesStand

\* The fields of what is determined.
LEMMA DeterminedFields ==
  \A o, f, i : /\ Determined(o, f, i).op = o /\ Determined(o, f, i).of = f
               /\ Determined(o, f, i).index = i
BY DEF Determined

\* What the passes determine is well formed.
LEMMA DeterminedOK ==
  /\ RpnOK(Undetermined)
  /\ \A o \in {"constant", "null", "own"} : RpnOK(Determined(o, 0, "none"))
  /\ \A f \in Cols : RpnOK(Determined("equal", f, "none"))
  /\ \A n : RpnOK(Determined("dictionary", 0, IndexType(n)))
  /\ \A f \in Cols : \A n : RpnOK(Determined("external", f, IndexType(n)))
<1>1. \A n : IndexType(n) \in {"UINT8", "UINT16", "UINT32"}
  BY DEF IndexType
<1>2. 0 \in 0 .. NumCols /\ \A f \in Cols : f \in 0 .. NumCols /\ f # 0
  BY SchemasAssumption DEF Cols
<1>3. QED
  BY <1>1, <1>2 DEF RpnOK, Rpn, Determined, Undetermined

\* A column is undetermined exactly while it has no operator.
LEMMA UndeterminedOp ==
  ASSUME StandInv, NEW c \in Cols
  PROVE  IsDetermined(c) <=> rpn[c].op # "none"
<1>1. RpnOK(rpn[c])
  BY DEF StandInv
<1>2. CASE rpn[c].op = "none"
  <2>1. rpn[c].of = 0 /\ rpn[c].index = "none"
    BY <1>1, <1>2 DEF RpnOK
  <2>2. rpn[c] = [op |-> "none", of |-> 0, index |-> "none"]
    BY <1>1, <1>2, <2>1 DEF RpnOK, Rpn
  <2>3. QED
    BY <1>2, <2>2 DEF IsDetermined, Undetermined, Determined
<1>3. CASE rpn[c].op # "none"
  BY <1>3, DeterminedFields DEF IsDetermined, Undetermined
<1>4. QED
  BY <1>2, <1>3

\* A pass that fails chooses nothing.
LEMMA FailingStands ==
  ASSUME StandInv, check' = "failed", rpn' = rpn
  PROVE  StandInv'
BY DEF StandInv, SourcesStand, Passes

\* The columns and what they can rest on are numbers.
LEMMA ColsNat == NumCols \in Nat /\ Cols \subseteq Nat \ {0} /\ \A c \in Cols : 1 .. c - 1 \subseteq Cols
BY SchemasAssumption DEF Cols

\* Constants rest on nothing.
LEMMA ConstantStands ==
  ASSUME StandInv, ConstantCheck
  PROVE  StandInv'
<1>1. PICK chosen : /\ chosen = [c \in Cols |-> IF Len(cols[c].keys) = 1 THEN Determined("constant", 0, "none")
                                                ELSE Undetermined]
                    /\ rpn' = chosen /\ check' = "equality_check"
  BY DEF ConstantCheck, Passed
<1>2. \A c \in Cols : rpn'[c] = Determined("constant", 0, "none") \/ rpn'[c] = Undetermined
  BY <1>1
<1>3. \A c \in Cols : RpnOK(rpn'[c]) /\ rpn'[c].op \in {"none", "constant"} /\ rpn'[c].of = 0
  BY <1>2, DeterminedOK, DeterminedFields DEF Undetermined
<1>4. rpn' \in [Cols -> Rpn]
  BY <1>1, <1>3 DEF RpnOK
<1>5. SourcesStand'
  BY <1>3, ColsNat DEF SourcesStand
<1>6. QED
  BY <1>1, <1>3, <1>4, <1>5 DEF StandInv, Passes

\* equality_check names the first of equal columns, which names none itself.
LEMMA EqualityStands ==
  ASSUME StandInv, EqualityCheck
  PROVE  StandInv'
<1>1. PICK equals, chosen, fails :
        /\ equals = {s \in Cols : ~ IsDetermined(s) /\ EqualTo(s) # {}}
        /\ chosen = [c \in Cols |-> IF c \in equals THEN Determined("equal", Min(EqualTo(c)), "none")
                                    ELSE rpn[c]]
        /\ fails = (\E s \in equals : types[s] \notin HasEquality)
        /\ Passed(fails, chosen, "null_check")
  BY Zenon DEF EqualityCheck
<1>2. CASE fails
  <2>1. check' = "failed" /\ rpn' = rpn
    BY <1>1, <1>2, Zenon DEF Passed
  <2>2. QED
    BY <2>1, FailingStands
<1>3. CASE ~ fails
  <2>1. check' = "null_check" /\ rpn' = chosen
    BY <1>1, <1>3, Zenon DEF Passed
  <2>2. \A c \in Cols : rpn[c].op \in {"none", "constant"} /\ RpnOK(rpn[c]) /\ rpn[c].of = 0
    <3>1. check = "equality_check"
      BY DEF EqualityCheck
    <3>2. QED
      BY <3>1 DEF StandInv, RpnOK
  <2>3. ASSUME NEW c \in Cols, EqualTo(c) # {}
        PROVE  Min(EqualTo(c)) \in EqualTo(c) /\ EqualTo(c) \subseteq 1 .. c - 1
               /\ \A g \in EqualTo(c) : Min(EqualTo(c)) <= g
    <3>1. EqualTo(c) \subseteq 1 .. c - 1
      BY DEF EqualTo
    <3>2. EqualTo(c) \in SUBSET Nat
      BY <3>1, ColsNat
    <3>3. QED
      BY <2>3, <3>1, <3>2, MinMember
  <2>4. ASSUME NEW c \in Cols, c \in equals
        PROVE  /\ rpn'[c] = Determined("equal", Min(EqualTo(c)), "none")
               /\ Min(EqualTo(c)) \in 1 .. c - 1 /\ Min(EqualTo(c)) \in Cols
    <3>1. EqualTo(c) # {}
      BY <1>1, <2>4
    <3>2. QED
      BY <1>1, <2>1, <2>3, <2>4, <3>1, ColsNat
  <2>5. \A c \in Cols : c \notin equals => rpn'[c] = rpn[c]
    BY <1>1, <2>1
  <2>6. \A c \in Cols : RpnOK(rpn'[c]) /\ rpn'[c].op \in {"none", "constant", "equal", "null"}
    BY <2>2, <2>4, <2>5, DeterminedOK, DeterminedFields
  <2>7. ASSUME NEW c \in Cols, c \in equals PROVE Min(EqualTo(c)) \notin equals
    <3>1. PICK f : f = Min(EqualTo(c))
      OBVIOUS
    <3>2. f \in Cols /\ f \in EqualTo(c) /\ f \in 1 .. c - 1
      BY <1>1, <2>3, <2>4, <2>7, <3>1
    <3>3. SUFFICES ASSUME EqualTo(f) # {} PROVE FALSE
      BY <1>1, <3>1
    <3>4. PICK g : g \in EqualTo(f)
      BY <3>3
    <3>5. /\ g \in 1 .. f - 1 /\ Physical(types[g]) = Physical(types[f]) /\ cols[g].data = cols[f].data
          /\ Physical(types[f]) = Physical(types[c]) /\ cols[f].data = cols[c].data
      BY <3>2, <3>4 DEF EqualTo
    <3>6. g < f /\ g \in 1 .. c - 1
      BY <3>2, <3>5, ColsNat
    <3>7. g \in EqualTo(c)
      BY <3>5, <3>6 DEF EqualTo
    <3>8. f <= g
      BY <1>1, <2>3, <2>7, <3>1, <3>7
    <3>9. QED
      BY <3>2, <3>5, <3>6, <3>8
  <2>8. SourcesStand'
    <3> SUFFICES ASSUME NEW c \in Cols
                 PROVE  /\ rpn'[c].of < c
                        /\ rpn'[c].op = "equal" => rpn'[rpn'[c].of].op # "equal"
                        /\ rpn'[c].op = "external" => rpn'[rpn'[c].of].op = "dictionary"
      BY DEF SourcesStand
    <3>1. CASE c \in equals
      <4>1. PICK f \in Cols : f = Min(EqualTo(c)) /\ f \in 1 .. c - 1
        BY <2>4, <3>1
      <4>2. rpn'[c].of = f /\ rpn'[c].op = "equal"
        BY <2>4, <3>1, <4>1, DeterminedFields
      <4>3. f \notin equals
        BY <2>7, <3>1, <4>1
      <4>4. rpn'[f].op \in {"none", "constant"}
        BY <2>2, <2>5, <4>3
      <4>5. f < c
        BY <4>1, ColsNat
      <4>6. QED
        BY <4>2, <4>4, <4>5
    <3>2. CASE c \notin equals
      BY <2>2, <2>5, <3>2, ColsNat
    <3>3. QED
      BY <3>1, <3>2
  <2>9. rpn' \in [Cols -> Rpn]
    BY <1>1, <2>1, <2>6 DEF RpnOK
  <2>10. QED
    BY <2>1, <2>6, <2>8, <2>9 DEF StandInv, Passes
<1>4. QED
  BY <1>2, <1>3

\* null_check takes undetermined columns only.
LEMMA NullStands ==
  ASSUME StandInv, NullCheck
  PROVE  StandInv'
<1>1. PICK nulls, chosen, fails :
        /\ nulls = {c \in Cols : /\ ~ IsDetermined(c)
                                 /\ cols[c].n_nulls * NullDen > NullNum * Len(cols[c].data)}
        /\ chosen = [c \in Cols |-> IF c \in nulls THEN Determined("null", 0, "none") ELSE rpn[c]]
        /\ fails = (\E c \in nulls : types[c] \notin HasNull)
        /\ Passed(fails, chosen, "map_1t1_check")
  BY Zenon DEF NullCheck
<1>2. CASE fails
  <2>1. check' = "failed" /\ rpn' = rpn
    BY <1>1, <1>2, Zenon DEF Passed
  <2>2. QED
    BY <2>1, FailingStands
<1>3. CASE ~ fails
  <2>1. check' = "map_1t1_check" /\ rpn' = chosen
    BY <1>1, <1>3, Zenon DEF Passed
  <2>2. \A c \in Cols : rpn[c].op \in {"none", "constant", "equal", "null"} /\ RpnOK(rpn[c])
    <3>1. check = "null_check"
      BY DEF NullCheck
    <3>2. QED
      BY <3>1 DEF StandInv
  <2>3. \A c \in Cols : IF c \in nulls THEN rpn'[c] = Determined("null", 0, "none") ELSE rpn'[c] = rpn[c]
    BY <1>1, <2>1
  <2>4. \A c \in Cols : /\ RpnOK(rpn'[c]) /\ rpn'[c].op \in {"none", "constant", "equal", "null"}
                        /\ c \in nulls => rpn'[c].op = "null" /\ rpn'[c].of = 0
    BY <2>2, <2>3, DeterminedOK, DeterminedFields
  <2>5. SourcesStand'
    <3> SUFFICES ASSUME NEW c \in Cols
                 PROVE  /\ rpn'[c].of < c
                        /\ rpn'[c].op = "equal" => rpn'[rpn'[c].of].op # "equal"
                        /\ rpn'[c].op = "external" => rpn'[rpn'[c].of].op = "dictionary"
      BY DEF SourcesStand
    <3>1. CASE c \in nulls
      BY <2>4, <3>1, ColsNat
    <3>2. CASE c \notin nulls
      <4>1. rpn'[c] = rpn[c] /\ rpn[c].of < c /\ rpn[c].op # "external"
        BY <2>2, <2>3, <3>2 DEF StandInv, SourcesStand
      <4>2. ASSUME rpn[c].op = "equal" PROVE rpn'[rpn[c].of].op # "equal"
        <5>1. PICK f : f = rpn[c].of
          OBVIOUS
        <5>2. rpn[f].op # "equal"
          BY <4>2, <5>1 DEF StandInv, SourcesStand
        <5>3. f \in Cols
          <6>1. f \in 0 .. NumCols /\ f # 0
            BY <2>2, <4>2, <5>1 DEF RpnOK, Rpn
          <6>2. QED
            BY <6>1, ColsNat DEF Cols
        <5>4. QED
          BY <2>3, <2>4, <5>1, <5>2, <5>3
      <4>3. QED
        BY <4>1, <4>2
    <3>3. QED
      BY <3>1, <3>2
  <2>6. rpn' \in [Cols -> Rpn]
    BY <1>1, <2>1, <2>4 DEF RpnOK
  <2>7. QED
    BY <2>1, <2>4, <2>5, <2>6 DEF StandInv, Passes
<1>4. QED
  BY <1>2, <1>3

\* What map_1t1_check chooses, where it does not fail.
MapChosen(mapped) ==
  [c \in Cols |->
     IF SourceOf(mapped)[c] # 0
     THEN Determined("external", SourceOf(mapped)[c], FindBestDataTypeForIndex(SourceOf(mapped)[c], c))
     ELSE IF {s \in Cols : SourceOf(mapped)[s] = c} # {}
     THEN Determined("dictionary", 0,
                     FindBestDataTypeForIndex(c, Max({s \in Cols : SourceOf(mapped)[s] = c})))
     ELSE rpn[c]]

\* map_1t1_check fails and changes nothing, or takes columns that are mapped.
LEMMA MapChooses ==
  ASSUME Map1t1Check
  PROVE  \/ check' = "failed" /\ rpn' = rpn
         \/ \E mapped : /\ \A p \in mapped : p \in Cols \X Cols /\ IsMap1t1(p[1], p[2])
                        /\ check' = "expression_check" /\ rpn' = MapChosen(mapped)
<1> DEFINE Mapped(misread) ==
             {p \in (Cols \X Cols) \ misread :
                /\ IsMap1t1(p[1], p[2])
                /\ IsTyped(p[1]) /\ IsTyped(p[2]) => ~ PastNullMap(p[1], p[2])}
           Fails(mapped) ==
             \E s \in Cols : SourceOf(mapped)[s] # 0
               /\ ~ HasExternal(types[s], FindBestDataTypeForIndex(SourceOf(mapped)[s], s))
<1>0. \E misread : Passed(Fails(Mapped(misread)), MapChosen(Mapped(misread)), "expression_check")
  BY DEF Map1t1Check, MapChosen
<1>1. PICK mapped : /\ \E misread : mapped = Mapped(misread)
                    /\ Passed(Fails(mapped), MapChosen(mapped), "expression_check")
  BY <1>0, Zenon
<1>2. \A p \in mapped : p \in Cols \X Cols /\ IsMap1t1(p[1], p[2])
  BY <1>1
<1>3. \/ check' = "failed" /\ rpn' = rpn
      \/ check' = "expression_check" /\ rpn' = MapChosen(mapped)
  BY <1>1, Zenon DEF Passed
<1>4. QED
  BY <1>2, <1>3, Zenon

\* The first column of a pair stays one that has a dictionary of its own: it rests on
\* none, so that it is the first of pairs only.
LEMMA MapStands ==
  ASSUME StandInv, Map1t1Check
  PROVE  StandInv'
<1>1. CASE check' = "failed" /\ rpn' = rpn
  BY <1>1, FailingStands
<1>2. ASSUME NEW mapped, check' = "expression_check", rpn' = MapChosen(mapped)
      PROVE  StandInv'
  <2>1. PICK Source : Source = SourceOf(mapped)
    OBVIOUS
  <2>2. \A c \in Cols :
          /\ Source[c] \in 0 .. c - 1
          /\ Source[c] # 0 => /\ Source[c] \in Cols /\ ~ IsDetermined(c)
                              /\ ~ IsDetermined(Source[c]) /\ Source[Source[c]] = 0
    BY <2>1, SourceFacts
  <2>3. \A c \in Cols : rpn[c].op \in {"none", "constant", "equal", "null"} /\ RpnOK(rpn[c])
    <3>1. check = "map_1t1_check"
      BY DEF Map1t1Check
    <3>2. QED
      BY <3>1 DEF StandInv
  <2>4. \A c \in Cols :
          /\ Source[c] # 0 => \E n : rpn'[c] = Determined("external", Source[c], IndexType(n))
          /\ Source[c] = 0 /\ (\E s \in Cols : Source[s] = c) =>
               \E n : rpn'[c] = Determined("dictionary", 0, IndexType(n))
          /\ Source[c] = 0 /\ ~(\E s \in Cols : Source[s] = c) => rpn'[c] = rpn[c]
    BY <1>2, <2>1 DEF MapChosen, FindBestDataTypeForIndex
  <2>5. \A c \in Cols :
          /\ RpnOK(rpn'[c])
          /\ Source[c] # 0 => rpn'[c].op = "external" /\ rpn'[c].of = Source[c]
          /\ Source[c] = 0 /\ (\E s \in Cols : Source[s] = c) => rpn'[c].op = "dictionary" /\ rpn'[c].of = 0
    <3> SUFFICES ASSUME NEW c \in Cols
                 PROVE  /\ RpnOK(rpn'[c])
                        /\ Source[c] # 0 => rpn'[c].op = "external" /\ rpn'[c].of = Source[c]
                        /\ Source[c] = 0 /\ (\E s \in Cols : Source[s] = c) =>
                             rpn'[c].op = "dictionary" /\ rpn'[c].of = 0
      OBVIOUS
    <3>1. CASE Source[c] # 0
      BY <2>2, <2>4, <3>1, DeterminedOK, DeterminedFields
    <3>2. CASE Source[c] = 0 /\ \E s \in Cols : Source[s] = c
      BY <2>4, <3>2, DeterminedOK, DeterminedFields
    <3>3. CASE Source[c] = 0 /\ ~ \E s \in Cols : Source[s] = c
      BY <2>3, <2>4, <3>3
    <3>4. QED
      BY <3>1, <3>2, <3>3
  <2>6. \A c \in Cols : IsDetermined(c) => rpn'[c] = rpn[c]
    <3> SUFFICES ASSUME NEW c \in Cols, IsDetermined(c) PROVE rpn'[c] = rpn[c]
      OBVIOUS
    <3>1. Source[c] = 0
      BY <2>2
    <3>2. ~ \E s \in Cols : Source[s] = c
      <4> SUFFICES ASSUME NEW s \in Cols, Source[s] = c PROVE FALSE
        OBVIOUS
      <4>1. c # 0
        BY ColsNat
      <4>2. QED
        BY <2>2, <4>1
    <3>3. QED
      BY <2>4, <3>1, <3>2
  <2>7. SourcesStand'
    <3> SUFFICES ASSUME NEW c \in Cols
                 PROVE  /\ rpn'[c].of < c
                        /\ rpn'[c].op = "equal" => rpn'[rpn'[c].of].op # "equal"
                        /\ rpn'[c].op = "external" => rpn'[rpn'[c].of].op = "dictionary"
      BY DEF SourcesStand
    <3>1. CASE Source[c] # 0
      <4>1. PICK f \in Cols : f = Source[c] /\ Source[f] = 0 /\ f \in 0 .. c - 1
        BY <2>2, <3>1
      <4>2. rpn'[c].op = "external" /\ rpn'[c].of = f
        BY <2>5, <3>1, <4>1
      <4>3. rpn'[f].op = "dictionary"
        BY <2>5, <4>1
      <4>4. f < c
        BY <4>1, ColsNat
      <4>5. QED
        BY <4>2, <4>3, <4>4
    <3>2. CASE Source[c] = 0 /\ \E s \in Cols : Source[s] = c
      BY <2>5, <3>2, ColsNat
    <3>3. CASE Source[c] = 0 /\ ~ \E s \in Cols : Source[s] = c
      <4>1. rpn'[c] = rpn[c] /\ rpn[c].of < c /\ rpn[c].op # "external"
        BY <2>3, <2>4, <3>3 DEF StandInv, SourcesStand
      <4>2. ASSUME rpn[c].op = "equal" PROVE rpn'[rpn[c].of].op # "equal"
        <5>1. PICK f : f = rpn[c].of
          OBVIOUS
        <5>2. rpn[f].op # "equal"
          BY <4>2, <5>1 DEF StandInv, SourcesStand
        <5>3. f \in Cols
          <6>1. f \in 0 .. NumCols /\ f # 0
            BY <2>3, <4>2, <5>1 DEF RpnOK, Rpn
          <6>2. QED
            BY <6>1, ColsNat DEF Cols
        <5>4. CASE Source[f] # 0
          BY <2>5, <5>1, <5>3, <5>4
        <5>5. CASE Source[f] = 0 /\ \E s \in Cols : Source[s] = f
          BY <2>5, <5>1, <5>3, <5>5
        <5>6. CASE Source[f] = 0 /\ ~ \E s \in Cols : Source[s] = f
          BY <2>4, <5>1, <5>2, <5>3, <5>6
        <5>7. QED
          BY <5>4, <5>5, <5>6
      <4>3. QED
        BY <4>1, <4>2
    <3>4. QED
      BY <3>1, <3>2, <3>3
  <2>8. rpn' \in [Cols -> Rpn]
    <3>1. rpn' = [c \in Cols |-> rpn'[c]]
      BY <1>2 DEF MapChosen
    <3>2. \A c \in Cols : rpn'[c] \in Rpn
      BY <2>5 DEF RpnOK
    <3>3. QED
      BY <3>1, <3>2
  <2>9. QED
    BY <1>2, <2>5, <2>7, <2>8 DEF StandInv, Passes
<1>3. QED
  BY <1>1, <1>2, MapChooses

\* expression_check gives every column that has none an operator of its own.
LEMMA ExpressionStands ==
  ASSUME StandInv, ExpressionCheck
  PROVE  StandInv'
<1>1. PICK chosen, fails :
        /\ chosen = [c \in Cols |-> IF IsDetermined(c) THEN rpn[c] ELSE Determined("own", 0, "none")]
        /\ fails = (\E c \in Cols :
                      \/ rpn[c].op = "dictionary" /\ ~ HasDictionary(types[c], rpn[c].index)
                      \/ ~ IsDetermined(c) /\ ~ HasPool(types[c], IndexType(Len(cols[c].keys))))
        /\ Passed(fails, chosen, "spelled")
  BY Zenon DEF ExpressionCheck
<1>2. CASE fails
  <2>1. check' = "failed" /\ rpn' = rpn
    BY <1>1, <1>2, Zenon DEF Passed
  <2>2. QED
    BY <2>1, FailingStands
<1>3. CASE ~ fails
  <2>1. check' = "spelled" /\ rpn' = chosen
    BY <1>1, <1>3, Zenon DEF Passed
  <2>2. \A c \in Cols : /\ RpnOK(rpn[c])
                        /\ IF rpn[c].op # "none" THEN rpn'[c] = rpn[c]
                           ELSE rpn'[c] = Determined("own", 0, "none")
    BY <1>1, <2>1, UndeterminedOp DEF StandInv
  <2>3. \A c \in Cols : /\ RpnOK(rpn'[c]) /\ rpn'[c].op # "none"
                        /\ rpn[c].op = "none" => rpn'[c].op = "own" /\ rpn'[c].of = 0
    BY <2>2, DeterminedOK, DeterminedFields
  <2>4. SourcesStand'
    <3> SUFFICES ASSUME NEW c \in Cols
                 PROVE  /\ rpn'[c].of < c
                        /\ rpn'[c].op = "equal" => rpn'[rpn'[c].of].op # "equal"
                        /\ rpn'[c].op = "external" => rpn'[rpn'[c].of].op = "dictionary"
      BY DEF SourcesStand
    <3>1. CASE rpn[c].op = "none"
      BY <2>3, <3>1, ColsNat
    <3>2. CASE rpn[c].op # "none"
      <4>1. rpn'[c] = rpn[c] /\ rpn[c].of < c
        BY <2>2, <3>2 DEF StandInv, SourcesStand
      <4>2. ASSUME rpn[c].op \in {"equal", "external"}
            PROVE  /\ rpn[c].op = "equal" => rpn'[rpn[c].of].op # "equal"
                   /\ rpn[c].op = "external" => rpn'[rpn[c].of].op = "dictionary"
        <5>1. PICK f : f = rpn[c].of
          OBVIOUS
        <5>2. /\ rpn[c].op = "equal" => rpn[f].op # "equal"
              /\ rpn[c].op = "external" => rpn[f].op = "dictionary"
          BY <5>1 DEF StandInv, SourcesStand
        <5>3. f \in Cols
          <6>1. f \in 0 .. NumCols /\ f # 0
            BY <2>2, <4>2, <5>1 DEF RpnOK, Rpn
          <6>2. QED
            BY <6>1, ColsNat DEF Cols
        <5>4. QED
          BY <2>2, <2>3, <5>1, <5>2, <5>3
      <4>3. QED
        BY <4>1, <4>2
    <3>3. QED
      BY <3>1, <3>2
  <2>5. rpn' \in [Cols -> Rpn]
    BY <1>1, <2>1, <2>3 DEF RpnOK
  <2>6. QED
    BY <2>1, <2>3, <2>4, <2>5 DEF StandInv, Passes
<1>4. QED
  BY <1>2, <1>3

\* Every pass keeps the invariant.
LEMMA StandAlways == WizardSpec => []StandInv
<1>1. WizardInit => StandInv
  <2> SUFFICES ASSUME WizardInit PROVE StandInv
    OBVIOUS
  <2>1. \A c \in Cols : rpn[c] = Undetermined /\ RpnOK(rpn[c])
    BY DeterminedOK DEF WizardInit
  <2>2. \A c \in Cols : rpn[c].op = "none" /\ rpn[c].of = 0
    BY <2>1, DeterminedFields DEF Undetermined
  <2>3. rpn \in [Cols -> Rpn] /\ check = "constant_check"
    BY <2>1 DEF WizardInit, RpnOK
  <2>4. SourcesStand
    BY <2>2, ColsNat DEF SourcesStand
  <2>5. QED
    BY <2>1, <2>2, <2>3, <2>4 DEF StandInv, Passes
<1>2. StandInv /\ [WizardNext]_wizardVars => StandInv'
  <2>1. StandInv /\ (Ingest \/ UNCHANGED wizardVars) => StandInv'
    <3>1. Ingest \/ UNCHANGED wizardVars => UNCHANGED <<check, rpn>>
      BY DEF Ingest, wizardVars
    <3>2. StandInv /\ UNCHANGED <<check, rpn>> => StandInv'
      BY DEF StandInv, SourcesStand
    <3>3. QED
      BY <3>1, <3>2
  <2>2. QED
    BY <2>1, ConstantStands, EqualityStands, NullStands, MapStands, ExpressionStands DEF WizardNext
<1>3. QED
  BY <1>1, <1>2, PTL DEF WizardSpec

\* The tokens the passes leave are well formed, whatever the file, and the last pass
\* leaves no column without an operator.
THEOREM WizardTypesAlwaysOK == WizardSpec => []WizardTypeOK
<1>1. StandInv => WizardTypeOK
  BY UndeterminedOp DEF StandInv, RpnOK, Rpn, WizardTypeOK
<1>2. QED
  BY <1>1, StandAlways, PTL

\* For every file, and whatever is read behind the null maps: what a column rests on
\* is before it, an equal column names one that is encoded, and an index is
\* looked up in a column with a dictionary of its own.
THEOREM SourcesAlwaysStand == WizardSpec => []SourcesStand
<1>1. StandInv => SourcesStand
  BY DEF StandInv
<1>2. QED
  BY <1>1, StandAlways, PTL

-----------------------------------------------------------------------------
(* Dictionaries of columns that go together *)

\* The elements of a sequence.
LEMMA SetOf == \A s \in Seq(Int) : \A x : x \in ToSet(s) <=> \E k \in 1 .. Len(s) : x = s[k]
BY DEF ToSet

\* Values that are equal in the same pairs of rows.
Mirrors(a, b, l) == \A i, j \in 1 .. l : a[i] = a[j] <=> b[i] = b[j]

\* Dictionaries of them whose entries are those of the same rows.
KeysGo(ka, kb, a, b) ==
  /\ ka \in Seq(Int) /\ kb \in Seq(Int) /\ Len(ka) = Len(kb)
  /\ \A k \in 1 .. Len(ka) : \E j \in 1 .. Len(a) : a[j] = ka[k] /\ b[j] = kb[k]

\* Columns that are equal in the same pairs of rows number their values alike.
LEMMA KeysMirror ==
  ASSUME NEW a \in Seq(Int), NEW b \in Seq(Int), Len(a) = Len(b), Mirrors(a, b, Len(a))
  PROVE  KeysGo(Extended(<<>>, a), Extended(<<>>, b), a, b)
<1> SUFFICES ASSUME NEW ka, NEW kb, ka = Extended(<<>>, a), kb = Extended(<<>>, b)
             PROVE  KeysGo(ka, kb, a, b)
  OBVIOUS
<1>1. PICK m \in Nat : m = Len(a) /\ m = Len(b)
  OBVIOUS
<1>2. /\ \A k \in 1 .. m : a[k] \in Int /\ b[k] \in Int
      /\ \A i, j \in 1 .. m : a[i] = a[j] <=> b[i] = b[j]
  BY <1>1 DEF Mirrors
<1>3. PICK f : f = [n \in 0 .. m |-> OneMore(<<>>, a, f, n)] /\ ka = f[m]
  BY <1>1, ExtendedDef
<1>4. PICK g : g = [n \in 0 .. m |-> OneMore(<<>>, b, g, n)] /\ kb = g[m]
  BY <1>1, ExtendedDef
<1> DEFINE Alike(n) ==
             /\ f[n] \in Seq(Int) /\ g[n] \in Seq(Int) /\ Len(f[n]) = Len(g[n])
             /\ \A k \in 1 .. Len(f[n]) : \E j \in 1 .. m : a[j] = f[n][k] /\ b[j] = g[n][k]
           S == {n \in Nat : n <= m => Alike(n)}
<1>5. Alike(0)
  <2>1. f[0] = <<>> /\ g[0] = <<>>
    BY <1>3, <1>4 DEF OneMore
  <2>2. PICK e : e = <<>>
    OBVIOUS
  <2>3. e \in Seq(Int) /\ Len(e) = 0
    BY <2>2
  <2>4. f[0] = e /\ g[0] = e /\ \A k \in 1 .. 0 : FALSE
    BY <2>1, <2>2
  <2>5. QED
    BY <2>3, <2>4
<1>6. ASSUME NEW n \in Nat, Alike(n), NEW p, p = n + 1, p <= m
      PROVE  Alike(p)
  <2>1. p \in 1 .. m /\ p \in 0 .. m /\ p # 0 /\ p - 1 = n /\ a[p] \in Int /\ b[p] \in Int
    <3>1. p \in 1 .. m /\ p \in 0 .. m /\ p # 0 /\ p - 1 = n
      <4>1. m \in Nat /\ n \in Nat /\ p = n + 1 /\ p <= m
        BY <1>6
      <4>2. QED
        BY <4>1
    <3>2. QED
      BY <1>2, <3>1
  <2>2. PICK x, y : x = f[n] /\ y = g[n]
    OBVIOUS
  <2>3. /\ x \in Seq(Int) /\ y \in Seq(Int) /\ Len(x) = Len(y)
        /\ \A k \in 1 .. Len(x) : \E j \in 1 .. m : a[j] = x[k] /\ b[j] = y[k]
    BY <1>6, <2>2
  <2>4. /\ f[p] = IF a[p] \in ToSet(x) THEN x ELSE Append(x, a[p])
        /\ g[p] = IF b[p] \in ToSet(y) THEN y ELSE Append(y, b[p])
    <3>1. f[p] = OneMore(<<>>, a, f, p) /\ g[p] = OneMore(<<>>, b, g, p)
      BY <1>3, <1>4, <2>1
    <3>2. QED
      BY <2>1, <2>2, <3>1, Zenon DEF OneMore
  <2>5. a[p] \in ToSet(x) <=> b[p] \in ToSet(y)
    <3>1. ASSUME NEW k \in 1 .. Len(x) PROVE a[p] = x[k] <=> b[p] = y[k]
      <4>1. PICK j \in 1 .. m : a[j] = x[k] /\ b[j] = y[k]
        BY <2>3
      <4>2. a[p] = a[j] <=> b[p] = b[j]
        BY <1>2, <2>1
      <4>3. QED
        BY <4>1, <4>2
    <3>2. a[p] \in ToSet(x) => b[p] \in ToSet(y)
      <4> SUFFICES ASSUME a[p] \in ToSet(x) PROVE b[p] \in ToSet(y)
        OBVIOUS
      <4>1. PICK k \in DOMAIN x : a[p] = x[k]
        BY Zenon DEF ToSet
      <4>2. k \in 1 .. Len(x)
        BY <2>3, <4>1
      <4>3. b[p] = y[k] /\ k \in 1 .. Len(y)
        BY <2>3, <3>1, <4>1, <4>2
      <4>4. QED
        BY <2>3, <4>3, SetOf
    <3>3. b[p] \in ToSet(y) => a[p] \in ToSet(x)
      <4> SUFFICES ASSUME b[p] \in ToSet(y) PROVE a[p] \in ToSet(x)
        OBVIOUS
      <4>1. PICK k \in DOMAIN y : b[p] = y[k]
        BY Zenon DEF ToSet
      <4>2. k \in 1 .. Len(x) /\ k \in 1 .. Len(y)
        BY <2>3, <4>1
      <4>3. a[p] = x[k]
        BY <3>1, <4>1, <4>2
      <4>4. QED
        BY <2>3, <4>2, <4>3, SetOf
    <3>4. QED
      BY <3>2, <3>3
  <2>6. CASE a[p] \in ToSet(x)
    <3>1. f[p] = x /\ g[p] = y
      BY <2>4, <2>5, <2>6
    <3>2. QED
      BY <2>3, <3>1
  <2>7. CASE a[p] \notin ToSet(x)
    <3>1. PICK u, v : u = Append(x, a[p]) /\ v = Append(y, b[p])
      OBVIOUS
    <3>2. f[p] = u /\ g[p] = v
      BY <2>4, <2>5, <2>7, <3>1
    <3>3. PICK l \in Nat : l = Len(x) /\ l = Len(y)
      BY <2>3
    <3>4. /\ u \in Seq(Int) /\ Len(u) = l + 1 /\ u[l + 1] = a[p]
          /\ \A k \in 1 .. l : u[k] = x[k]
      BY <2>1, <2>3, <3>1, <3>3
    <3>5. /\ v \in Seq(Int) /\ Len(v) = l + 1 /\ v[l + 1] = b[p]
          /\ \A k \in 1 .. l : v[k] = y[k]
      BY <2>1, <2>3, <3>1, <3>3
    <3>6. ASSUME NEW k \in 1 .. l + 1 PROVE \E j \in 1 .. m : a[j] = u[k] /\ b[j] = v[k]
      <4>1. CASE k \in 1 .. l
        <5>1. PICK j \in 1 .. m : a[j] = x[k] /\ b[j] = y[k]
          BY <2>3, <3>3, <4>1
        <5>2. QED
          BY <3>4, <3>5, <4>1, <5>1
      <4>2. CASE k = l + 1
        BY <2>1, <3>4, <3>5, <4>2
      <4>3. k \in 1 .. l \/ k = l + 1
        BY l \in Nat, k \in 1 .. l + 1
      <4>4. QED
        BY <4>1, <4>2, <4>3
    <3>7. QED
      BY <3>2, <3>4, <3>5, <3>6
  <2>8. QED
    BY <2>6, <2>7
<1>7. Nat \subseteq S
  <2> HIDE DEF Alike
  <2>1. 0 \in S
    BY <1>5
  <2>2. \A n \in Nat : n \in S => n + 1 \in S
    <3> SUFFICES ASSUME NEW n \in Nat, n \in S, n + 1 <= m PROVE Alike(n + 1)
      OBVIOUS
    <3>1. Alike(n)
      OBVIOUS
    <3>2. QED
      BY <1>6, <3>1
  <2> HIDE DEF S
  <2>3. QED
    BY <2>1, <2>2, Successors
<1>8. Alike(m)
  <2> HIDE DEF Alike
  <2>1. QED
    BY <1>7
<1>9. QED
  BY <1>1, <1>3, <1>4, <1>8 DEF KeysGo

-----------------------------------------------------------------------------
(* Columns whose nulls do no harm *)

\* The files the theorem about decoding is for: nulls are in string columns only,
\* none of whose strings is what is stored for a leading null.
QuietNulls ==
  \A s \in Schemas : \A c \in Cols :
    Null \in Cells[s[c]] => s[c] = "FLS_STR" /\ NullText \notin Cells["FLS_STR"]

NoNull(col) == \A i \in 1 .. Len(col.null_map_arr) : ~ col.null_map_arr[i]

\* A null repeats the value before it, and a leading one has a value no other row has.
Anchored(col) ==
  \A i \in 1 .. Len(col.null_map_arr) :
    /\ col.null_map_arr[i] => col.data[i] = IF i = 1 THEN NullText ELSE col.data[i - 1]
    /\ ~ col.null_map_arr[i] => col.data[i] # NullText

\* What has been filled in repeats row n.
Repeats(col, n) == \A k \in 1 .. Len(col.data) : k > n => col.data[k] = col.data[n]

\* Ingesting a cell keeps what is said of a column.
LEMMA IngestedQuiet ==
  ASSUME NEW t, NEW col \in Column, NEW n \in Nat, NEW cell \in Int \cup {Null},
         Len(col.data) = n, Len(col.null_map_arr) = n, col.n_nulls = 0, col.keys = <<>>,
         cell = Null => t = "FLS_STR",
         NEW new, new = Ingested(t, col, cell)
  PROVE  /\ new.n_nulls = 0 /\ new.keys = <<>> /\ Repeats(new, n + 1)
         /\ NoNull(col) /\ cell # Null => NoNull(new)
         /\ Anchored(col) /\ t = "FLS_STR" /\ cell # NullText => Anchored(new)
<1>1. PICK e : e = (IF cell = Null THEN LastSeen(t, col.data) ELSE cell)
  OBVIOUS
<1>2. PICK b \in BOOLEAN : b = (cell = Null)
  OBVIOUS
<1>3. /\ new.data = Append(col.data, e) /\ new.null_map_arr = Append(col.null_map_arr, b)
      /\ new.n_nulls = (IF b /\ t # "FLS_STR" THEN col.n_nulls + 1 ELSE col.n_nulls)
      /\ new.keys = col.keys
  BY <1>1, <1>2 DEF Ingested
<1>4. col.data \in Seq(Int) /\ col.null_map_arr \in Seq(BOOLEAN)
  BY ColumnFields
<1>5. e \in Int
  <2>1. LastSeen(t, col.data) \in Int
    BY <1>4, LastType, SizesAssumption DEF LastSeen
  <2>2. QED
    BY <1>1, <2>1
<1>6. /\ new.data \in Seq(Int) /\ Len(new.data) = n + 1 /\ new.data[n + 1] = e
      /\ \A k \in 1 .. n : new.data[k] = col.data[k]
  BY <1>3, <1>4, <1>5
<1>7. /\ Len(new.null_map_arr) = n + 1 /\ new.null_map_arr[n + 1] = b
      /\ \A k \in 1 .. n : new.null_map_arr[k] = col.null_map_arr[k]
  BY <1>2, <1>3, <1>4
<1>8. \A k \in 1 .. n + 1 : ~(k > n + 1) /\ (k \in 1 .. n \/ k = n + 1)
  OBVIOUS
<1>9. new.n_nulls = 0 /\ new.keys = <<>>
  BY <1>2, <1>3
<1>10. Repeats(new, n + 1)
  BY <1>6, <1>8 DEF Repeats
<1>11. ASSUME NoNull(col), cell # Null PROVE NoNull(new)
  BY <1>2, <1>7, <1>8, <1>11 DEF NoNull
<1>12. ASSUME Anchored(col), t = "FLS_STR", cell # NullText PROVE Anchored(new)
  <2> SUFFICES ASSUME NEW i \in 1 .. n + 1
               PROVE  /\ new.null_map_arr[i] =>
                           new.data[i] = IF i = 1 THEN NullText ELSE new.data[i - 1]
                      /\ ~ new.null_map_arr[i] => new.data[i] # NullText
    BY <1>7 DEF Anchored
  <2>1. CASE i \in 1 .. n
    <3>1. /\ col.null_map_arr[i] => col.data[i] = IF i = 1 THEN NullText ELSE col.data[i - 1]
          /\ ~ col.null_map_arr[i] => col.data[i] # NullText
      BY <1>12, <2>1 DEF Anchored
    <3>2. new.data[i] = col.data[i] /\ new.null_map_arr[i] = col.null_map_arr[i]
      BY <1>6, <1>7, <2>1
    <3>3. i # 1 => i - 1 \in 1 .. n
      BY <2>1
    <3>4. i # 1 => new.data[i - 1] = col.data[i - 1]
      BY <1>6, <3>3
    <3>5. QED
      BY <3>1, <3>2, <3>4
  <2>2. CASE i = n + 1
    <3>1. new.data[i] = e /\ new.null_map_arr[i] = b
      BY <1>6, <1>7, <2>2
    <3>2. CASE b
      <4>1. e = LastSeen(t, col.data)
        BY <1>1, <1>2, <3>2
      <4>2. CASE n = 0
        <5>1. col.data = <<>>
          BY <1>4, <4>2
        <5>2. e = NullText
          BY <1>12, <4>1, <5>1 DEF LastSeen
        <5>3. QED
          BY <2>2, <3>1, <3>2, <4>2, <5>2
      <4>3. CASE n # 0
        <5>1. col.data # <<>> /\ i # 1 /\ i - 1 = n /\ n \in 1 .. n
          BY <1>4, <2>2, <4>3
        <5>2. e = col.data[n]
          BY <1>4, <4>1, <5>1, LastType DEF LastSeen
        <5>3. new.data[i - 1] = col.data[n]
          BY <1>6, <5>1
        <5>4. QED
          BY <3>1, <3>2, <5>1, <5>2, <5>3
      <4>4. QED
        BY <4>2, <4>3
    <3>3. CASE ~ b
      <4>1. e = cell
        BY <1>1, <1>2, <3>3
      <4>2. QED
        BY <1>12, <3>1, <3>3, <4>1
    <3>4. QED
      BY <3>2, <3>3
  <2>3. QED
    BY <1>8, <2>1, <2>2
<1>13. QED
  BY <1>9, <1>10, <1>11, <1>12

\* Filling the last vector keeps it.
LEMMA FilledQuiet ==
  ASSUME NEW col \in Column, NEW n \in Nat \ {0}, NEW f \in Nat,
         Len(col.data) = n, Len(col.null_map_arr) = n, col.n_nulls = 0, col.keys = <<>>,
         NEW new, new = Filled(col, f)
  PROVE  /\ new.n_nulls = 0 /\ new.keys = <<>> /\ Repeats(new, n)
         /\ NoNull(col) => NoNull(new)
         /\ Anchored(col) => Anchored(new)
<1>1. Len(col.data) # 0
  OBVIOUS
<1>2. Repeated(new, col, n, f)
  BY <1>1, FilledData, Zenon
<1>3. new.null_map_arr = col.null_map_arr /\ new.n_nulls = 0 /\ new.keys = <<>>
  BY <1>2 DEF Repeated
<1>4. Repeats(new, n)
  <2>1. n \in 1 .. n
    OBVIOUS
  <2>2. QED
    BY <1>2, <2>1 DEF Repeated, Repeats
<1>5. NoNull(col) => NoNull(new)
  BY <1>3 DEF NoNull
<1>6. ASSUME Anchored(col) PROVE Anchored(new)
  <2> SUFFICES ASSUME NEW i \in 1 .. n
               PROVE  /\ new.null_map_arr[i] =>
                           new.data[i] = IF i = 1 THEN NullText ELSE new.data[i - 1]
                      /\ ~ new.null_map_arr[i] => new.data[i] # NullText
    BY <1>3 DEF Anchored
  <2>1. new.data[i] = col.data[i]
    BY <1>2 DEF Repeated
  <2>2. ASSUME i # 1 PROVE new.data[i - 1] = col.data[i - 1]
    <3>1. i - 1 \in 1 .. n
      BY <2>2
    <3>2. QED
      BY <1>2, <3>1 DEF Repeated
  <2>3. /\ col.null_map_arr[i] => col.data[i] = IF i = 1 THEN NullText ELSE col.data[i - 1]
        /\ ~ col.null_map_arr[i] => col.data[i] # NullText
    BY <1>6 DEF Anchored
  <2>4. QED
    BY <1>3, <2>1, <2>2, <2>3
<1>7. QED
  BY <1>3, <1>4, <1>5, <1>6

\* What is said of a prepared column of type t, whose rows behind n are filled in.
Quiet(t, col, n) ==
  /\ col.n_nulls = 0 /\ Repeats(col, n)
  /\ NoNull(col) \/ (t = "FLS_STR" /\ Anchored(col))

\* Preparing a column keeps it and numbers the values, for the first time and again.
LEMMA PrepareQuiet ==
  ASSUME NEW t \in DataTypes, NEW col \in Column, NEW n \in Nat \ {0}, n <= Len(col.data),
         Quiet(t, col, n), col.keys = <<>> \/ col.keys = Extended(<<>>, col.data),
         NEW to, to = CastType(t, col), NEW new, new = Numbered(CastColumn(t, to, col))
  PROVE  Quiet(to, new, n) /\ new.keys = Extended(<<>>, new.data)
<1>1. <<>> \in Seq(Int) /\ col.data \in Seq(Int)
  BY ColumnFields
<1>2. CASE to = t
  <2>1. new = Numbered(col)
    BY <1>2 DEF CastColumn
  <2>2. PICK k : k = Extended(col.keys, col.data)
    OBVIOUS
  <2>3. new = [data |-> col.data, null_map_arr |-> col.null_map_arr,
               n_nulls |-> col.n_nulls, keys |-> k]
    BY <2>1, <2>2, KeysUpdate, ColumnFields, Zenon DEF Numbered
  <2>4. k = Extended(<<>>, col.data)
    <3>1. CASE col.keys = <<>>
      BY <2>2, <3>1
    <3>2. CASE col.keys = Extended(<<>>, col.data)
      <4>1. col.keys \in Seq(Int) /\ \A i \in 1 .. Len(col.data) : col.data[i] \in ToSet(col.keys)
        <5>1. /\ Extended(<<>>, col.data) \in Seq(Int)
              /\ \A i \in 1 .. Len(col.data) : col.data[i] \in ToSet(Extended(<<>>, col.data))
          BY <1>1, ExtendedFacts
        <5>2. QED
          BY <3>2, <5>1, Zenon
      <4>2. k = col.keys
        BY <1>1, <2>2, <4>1, ExtendedFacts
      <4>3. QED
        BY <3>2, <4>2
    <3>3. QED
      BY <3>1, <3>2
  <2>5. new.data = col.data /\ new.null_map_arr = col.null_map_arr /\ new.n_nulls = col.n_nulls
        /\ new.keys = k
    BY <2>3
  <2>6. QED
    BY <1>2, <2>4, <2>5, SMTT(30) DEF Quiet, Repeats, NoNull, Anchored
<1>3. CASE to # t
  <2>1. to \in Signed
    BY <1>3, CastTypeSigned
  <2>2. PICK d, mid : /\ d = ToCast(t, col.data)
                      /\ mid = CastColumn(t, to, col)
    OBVIOUS
  <2>3. /\ mid \in Column /\ d \in Seq(Int) /\ Len(d) = Len(col.data)
        /\ Len(mid.data) = Len(d)
        /\ \A k \in 1 .. Len(d) : mid.data[k] = ToSigned(to, d[k])
        /\ mid.null_map_arr = col.null_map_arr
    BY <1>3, <2>1, <2>2, CastValues, SMTT(30)
  <2>4. mid.n_nulls = 0 /\ mid.keys = <<>>
    BY <1>3, <2>2 DEF CastColumn
  <2>5. new = [data |-> mid.data, null_map_arr |-> mid.null_map_arr,
               n_nulls |-> mid.n_nulls, keys |-> Extended(<<>>, mid.data)]
    <3>1. new = Numbered(mid) /\ IsColumn(mid)
      BY <2>2, <2>3, ColumnFields
    <3>2. PICK k : k = Extended(mid.keys, mid.data)
      OBVIOUS
    <3>3. new = [data |-> mid.data, null_map_arr |-> mid.null_map_arr,
                 n_nulls |-> mid.n_nulls, keys |-> k]
      BY <3>1, <3>2, KeysUpdate, Zenon DEF Numbered
    <3>4. k = Extended(<<>>, mid.data)
      BY <2>4, <3>2
    <3>5. QED
      BY <3>3, <3>4
  <2>6. /\ new.data = mid.data /\ new.null_map_arr = col.null_map_arr /\ new.n_nulls = 0
        /\ new.keys = Extended(<<>>, new.data)
    BY <2>3, <2>4, <2>5
  <2>7. NoNull(col)
    <3>1. CASE t = "FLS_STR"
      <4>1. IsNumeric(col)
        BY <1>3, <3>1 DEF CastType
      <4>2. QED
        BY <4>1 DEF IsNumeric, NoNull
    <3>2. CASE t # "FLS_STR"
      BY <3>2 DEF Quiet
    <3>3. QED
      BY <3>1, <3>2
  <2>8. NoNull(new)
    BY <2>6, <2>7 DEF NoNull
  <2>9. Repeats(new, n)
    <3> SUFFICES ASSUME NEW k \in 1 .. Len(d), k > n PROVE mid.data[k] = mid.data[n]
      BY <2>3, <2>6 DEF Repeats
    <3>1. Len(d) \in Nat /\ n \in 1 .. Len(d)
      BY <1>1, <2>3
    <3>2. col.data[k] = col.data[n]
      BY <2>3 DEF Quiet, Repeats
    <3>3. d[k] = d[n]
      <4>1. k \in 1 .. Len(col.data) /\ n \in 1 .. Len(col.data)
        BY <2>3, <3>1
      <4>2. CASE t = "DOUBLE"
        <5>1. \A j \in 1 .. Len(col.data) : d[j] = col.data[j] \div 2
          BY <1>1, <2>2, <4>2, ToCastType
        <5>2. QED
          BY <3>2, <4>1, <5>1
      <4>3. CASE t = "FLS_STR"
        <5>1. \A j \in 1 .. Len(col.data) : d[j] = Stoll(col.data[j])
          BY <1>1, <2>2, <4>3, ToCastType
        <5>2. QED
          BY <3>2, <4>1, <5>1
      <4>4. CASE t \notin {"DOUBLE", "FLS_STR"}
        BY <1>1, <2>2, <3>2, <4>4, ToCastType
      <4>5. QED
        BY <4>2, <4>3, <4>4
    <3>4. QED
      BY <2>3, <3>1, <3>3
  <2>10. QED
    BY <2>6, <2>8, <2>9 DEF Quiet
<1>4. QED
  BY <1>2, <1>3

\* What is said of a column of the declared type t while the file is read.
Fresh(t, col, n) ==
  /\ col.n_nulls = 0 /\ col.keys = <<>> /\ Repeats(col, n)
  /\ Null \notin Cells[t] => NoNull(col)
  /\ Null \in Cells[t] => Anchored(col)

\* The inductive invariant of files whose nulls do no harm.
QuietInv ==
  /\ stage # "prepared" =>
       types = declared /\ \A c \in Cols : Fresh(declared[c], cols[c], Len(tuples))
  /\ stage = "prepared" =>
       \A c \in Cols : /\ Quiet(types[c], cols[c], Len(tuples))
                       /\ cols[c].keys = Extended(<<>>, cols[c].data)

\* Ingesting a tuple keeps it.
LEMMA TupleQuiet ==
  ASSUME QuietNulls, IInv, TypeInv, QuietInv, IngestTuple
  PROVE  QuietInv'
<1>1. PICK tuple \in [Cols -> UNION {Cells[t] : t \in DataTypes}] :
        /\ \A c \in Cols : tuple[c] \in Cells[types[c]]
        /\ tuples' = Append(tuples, tuple)
        /\ cols' = [c \in Cols |-> Ingested(types[c], cols[c], tuple[c])]
  BY DEF IngestTuple
<1>2. /\ stage = "reading" /\ stage' = stage /\ types' = types /\ declared' = declared
      /\ types = declared /\ declared \in Schemas /\ declared \in [Cols -> DataTypes]
  BY DEF IngestTuple, QuietInv, TypeInv
<1>3. Len(tuples) \in Nat /\ Len(tuples') = Len(tuples) + 1
  <2>1. tuples \in Seq([Cols -> Int \cup {Null}])
    BY DEF TypeInv
  <2>2. QED
    BY <1>1, <2>1
<1>4. PICK n \in Nat : n = Len(tuples)
  BY <1>3
<1>5. ASSUME NEW c \in Cols
      PROVE  Fresh(declared[c], Ingested(declared[c], cols[c], tuple[c]), n + 1)
  <2>1. Fresh(declared[c], cols[c], n)
    BY <1>2, <1>4 DEF QuietInv
  <2>2. Len(cols[c].data) = n /\ Len(cols[c].null_map_arr) = n
    BY <1>2, <1>4 DEF IInv, Sized
  <2>3. /\ Null \in Cells[declared[c]] => declared[c] = "FLS_STR" /\ NullText \notin Cells["FLS_STR"]
        /\ tuple[c] \in Cells[declared[c]]
    BY <1>1, <1>2 DEF QuietNulls
  <2>4. cols[c] \in Column /\ tuple[c] \in Int \cup {Null}
    BY <1>2, <2>3, SchemasAssumption DEF TypeInv
  <2>5. /\ tuple[c] = Null => declared[c] = "FLS_STR"
        /\ Null \notin Cells[declared[c]] => tuple[c] # Null
        /\ Null \in Cells[declared[c]] => tuple[c] # NullText
    BY <2>3
  <2>6. PICK new : new = Ingested(declared[c], cols[c], tuple[c])
    OBVIOUS
  <2>7. cols[c].n_nulls = 0 /\ cols[c].keys = <<>>
    BY <2>1 DEF Fresh
  <2>8. /\ new.n_nulls = 0 /\ new.keys = <<>> /\ Repeats(new, n + 1)
        /\ NoNull(cols[c]) /\ tuple[c] # Null => NoNull(new)
        /\ Anchored(cols[c]) /\ declared[c] = "FLS_STR" /\ tuple[c] # NullText => Anchored(new)
    <3>1. PICK t : t = declared[c]
      OBVIOUS
    <3>2. PICK col \in Column : col = cols[c]
      BY <2>4
    <3>3. PICK cell \in Int \cup {Null} : cell = tuple[c]
      BY <2>4
    <3>4. /\ Len(col.data) = n /\ Len(col.null_map_arr) = n /\ col.n_nulls = 0 /\ col.keys = <<>>
          /\ cell = Null => t = "FLS_STR"
          /\ new = Ingested(t, col, cell)
      BY <2>2, <2>5, <2>6, <2>7, <3>1, <3>2, <3>3
    <3>5. /\ new.n_nulls = 0 /\ new.keys = <<>> /\ Repeats(new, n + 1)
          /\ NoNull(col) /\ cell # Null => NoNull(new)
          /\ Anchored(col) /\ t = "FLS_STR" /\ cell # NullText => Anchored(new)
      BY <3>4, IngestedQuiet
    <3>6. QED
      BY <3>1, <3>2, <3>3, <3>5
  <2>9. QED
    BY <2>1, <2>3, <2>5, <2>6, <2>8 DEF Fresh
<1>6. \A c \in Cols : cols'[c] = Ingested(declared[c], cols[c], tuple[c])
  BY <1>1, <1>2
<1>7. \A c \in Cols : Fresh(declared'[c], cols'[c], Len(tuples'))
  BY <1>2, <1>3, <1>4, <1>5, <1>6
<1>8. stage' # "prepared" /\ types' = declared'
  BY <1>2
<1>9. QED
  BY <1>7, <1>8 DEF QuietInv, Fresh, Repeats, NoNull, Anchored

\* Ending the rowgroup keeps it.
LEMMA EndQuiet ==
  ASSUME IInv, TypeInv, QuietInv, EndRowgroup
  PROVE  QuietInv'
<1>1. /\ stage = "reading" /\ stage' = "read" /\ types' = types /\ declared' = declared
      /\ types = declared /\ tuples' = tuples /\ tuples # <<>>
      /\ cols' = [c \in Cols |-> Filled(cols[c], HowManyToFill)]
  BY DEF EndRowgroup, QuietInv
<1>2. PICK f \in Nat : f = HowManyToFill
  BY HowManyType DEF IInv
<1>3. Len(tuples) \in Nat \ {0}
  BY <1>1 DEF TypeInv
<1>4. PICK n \in Nat \ {0} : n = Len(tuples)
  BY <1>3
<1>5. ASSUME NEW c \in Cols
      PROVE  Fresh(declared[c], Filled(cols[c], f), n)
  <2>1. Fresh(declared[c], cols[c], n)
    BY <1>1, <1>4 DEF QuietInv
  <2>2. Len(cols[c].data) = n /\ Len(cols[c].null_map_arr) = n
    BY <1>1, <1>4 DEF IInv, Sized
  <2>3. cols[c] \in Column
    BY DEF TypeInv
  <2>4. PICK new : new = Filled(cols[c], f)
    OBVIOUS
  <2>5. cols[c].n_nulls = 0 /\ cols[c].keys = <<>>
    BY <2>1 DEF Fresh
  <2>6. /\ new.n_nulls = 0 /\ new.keys = <<>> /\ Repeats(new, n)
        /\ NoNull(cols[c]) => NoNull(new)
        /\ Anchored(cols[c]) => Anchored(new)
    BY <2>2, <2>3, <2>4, <2>5, FilledQuiet
  <2>7. QED
    BY <2>1, <2>4, <2>6 DEF Fresh
<1>6. \A c \in Cols : cols'[c] = Filled(cols[c], f)
  BY <1>1, <1>2
<1>7. \A c \in Cols : Fresh(declared'[c], cols'[c], Len(tuples'))
  BY <1>1, <1>4, <1>5, <1>6
<1>8. stage' # "prepared" /\ types' = declared'
  BY <1>1
<1>9. QED
  BY <1>7, <1>8 DEF QuietInv, Fresh, Repeats, NoNull, Anchored

\* Preparing the rowgroup establishes the part about prepared columns, and keeps it.
LEMMA PrepareKeepsQuiet ==
  ASSUME QuietNulls, IInv, TypeInv, QuietInv, Prepare
  PROVE  QuietInv'
<1>1. PICK to : /\ to = [c \in Cols |-> CastType(types[c], cols[c])]
                /\ types' = to
                /\ cols' = [c \in Cols |-> Numbered(CastColumn(types[c], to[c], cols[c]))]
  BY DEF Prepare
<1>2. stage \in {"read", "prepared"} /\ stage' = "prepared" /\ tuples' = tuples
  BY DEF Prepare
<1>3. Len(tuples) \in Nat \ {0} /\ HowManyToFill \in Nat
  BY <1>2, HowManyType DEF TypeInv, IInv
<1>4. PICK n \in Nat \ {0} : n = Len(tuples)
  BY <1>3
<1>5. ASSUME NEW c \in Cols
      PROVE  /\ Quiet(types'[c], cols'[c], n)
             /\ cols'[c].keys = Extended(<<>>, cols'[c].data)
  <2>1. types[c] \in DataTypes /\ cols[c] \in Column
    BY DEF TypeInv
  <2>2. n <= Len(cols[c].data)
    <3>1. Len(cols[c].data) = Len(tuples) + HowManyToFill
      BY <1>2 DEF IInv, Sized
    <3>2. QED
      BY <1>3, <1>4, <3>1
  <2>3. /\ Quiet(types[c], cols[c], n)
        /\ cols[c].keys = <<>> \/ cols[c].keys = Extended(<<>>, cols[c].data)
    <3>1. CASE stage = "prepared"
      BY <1>4, <3>1 DEF QuietInv
    <3>2. CASE stage # "prepared"
      <4>1. Fresh(types[c], cols[c], n)
        BY <1>4, <3>2 DEF QuietInv
      <4>2. Null \in Cells[types[c]] => types[c] = "FLS_STR"
        <5>1. types = declared /\ declared \in Schemas
          BY <3>2 DEF QuietInv, TypeInv
        <5>2. QED
          BY <5>1 DEF QuietNulls
      <4>3. QED
        BY <4>1, <4>2 DEF Fresh, Quiet
    <3>3. QED
      BY <3>1, <3>2
  <2>4. /\ types'[c] = CastType(types[c], cols[c])
        /\ cols'[c] = Numbered(CastColumn(types[c], types'[c], cols[c]))
    BY <1>1
  <2>5. PICK to1, new : to1 = types'[c] /\ new = cols'[c]
    OBVIOUS
  <2>6. Quiet(to1, new, n) /\ new.keys = Extended(<<>>, new.data)
    BY <2>1, <2>2, <2>3, <2>4, <2>5, PrepareQuiet
  <2>7. QED
    BY <2>5, <2>6
<1>6. QED
  BY <1>2, <1>4, <1>5 DEF QuietInv, Quiet, Repeats, NoNull, Anchored

\* In such files a null is either not there or a string that repeats the one before.
LEMMA QuietAlways ==
  ASSUME QuietNulls
  PROVE  IngestSpec => []QuietInv
<1>1. Init => QuietInv
  <2> SUFFICES ASSUME Init PROVE QuietInv
    OBVIOUS
  <2>1. stage = "reading" /\ types = declared
    BY DEF Init
  <2>2. ASSUME NEW c \in Cols PROVE Fresh(declared[c], cols[c], Len(tuples))
    <3>1. cols[c] = NewColumn
      BY DEF Init
    <3>2. /\ cols[c].data = <<>> /\ cols[c].null_map_arr = <<>>
          /\ cols[c].n_nulls = 0 /\ cols[c].keys = <<>>
      BY <3>1 DEF NewColumn
    <3>3. \A k \in 1 .. Len(<<>>) : FALSE
      OBVIOUS
    <3>4. QED
      BY <3>2, <3>3 DEF Fresh, Repeats, NoNull, Anchored
  <2>3. QED
    BY <2>1, <2>2 DEF QuietInv
<1>2. IInv /\ TypeInv /\ QuietInv /\ [IngestNext]_ingestVars => QuietInv'
  <2>1. QuietInv /\ UNCHANGED ingestVars => QuietInv'
    BY DEF ingestVars, QuietInv, Fresh, Quiet, Repeats, NoNull, Anchored
  <2>2. QED
    BY <2>1, TupleQuiet, EndQuiet, PrepareKeepsQuiet DEF IngestNext
<1>3. QED
  BY <1>1, <1>2, IInvAlways, TypeInvAlways, PTL DEF IngestSpec

-----------------------------------------------------------------------------
(* Columns that go together everywhere *)

\* Values behind the first n of l repeat that one.
RepeatsBy(data, n, l) == \A k \in 1 .. l : k > n => data[k] = data[n]

\* Values that are equal in the same pairs of rows where there is no null.
MirrorsBy(a, b, m, n) ==
  \A i, j \in 1 .. n : ~ m[i] /\ ~ m[j] => (a[i] = a[j] <=> b[i] = b[j])

\* Anchored, of values and a null map.
AnchoredBy(data, m, n) ==
  \A i \in 1 .. n : /\ m[i] => data[i] = IF i = 1 THEN NullText ELSE data[i - 1]
                    /\ ~ m[i] => data[i] # NullText

\* Values that are mapped one to one where there is no null are so in every row: a
\* null takes the value of the row before it in both, a leading one a value no
\* other row has, and what is filled in that of the last row.
LEMMA MirrorsEverywhere ==
  ASSUME NEW a, NEW b, NEW m, NEW l \in Nat, NEW n \in Nat, n # 0, n <= l,
         RepeatsBy(a, n, l), RepeatsBy(b, n, l), MirrorsBy(a, b, m, n),
         (\A i \in 1 .. n : ~ m[i]) \/ (AnchoredBy(a, m, n) /\ AnchoredBy(b, m, n))
  PROVE  Mirrors(a, b, l)
<1>0. /\ \A k \in 1 .. l : k > n => a[k] = a[n] /\ b[k] = b[n]
      /\ \A i, j \in 1 .. n : ~ m[i] /\ ~ m[j] => (a[i] = a[j] <=> b[i] = b[j])
  BY DEF RepeatsBy, MirrorsBy
<1> SUFFICES \A i, j \in 1 .. l : a[i] = a[j] <=> b[i] = b[j]
  BY DEF Mirrors
<1>1. n \in 1 .. n /\ \A k \in 1 .. l : k \in 1 .. n \/ k > n
  OBVIOUS
<1>2. CASE \A i \in 1 .. n : ~ m[i]
  <2>1. \A k \in 1 .. l : \E j \in 1 .. n : a[k] = a[j] /\ b[k] = b[j]
    BY <1>0, <1>1
  <2>2. \A i, j \in 1 .. n : a[i] = a[j] <=> b[i] = b[j]
    BY <1>0, <1>2
  <2>3. ASSUME NEW i \in 1 .. l, NEW j \in 1 .. l PROVE a[i] = a[j] <=> b[i] = b[j]
    <3>1. PICK p \in 1 .. n : a[i] = a[p] /\ b[i] = b[p]
      BY <2>1
    <3>2. PICK q \in 1 .. n : a[j] = a[q] /\ b[j] = b[q]
      BY <2>1
    <3>3. QED
      BY <2>2, <3>1, <3>2
  <2>4. QED
    BY <2>3
<1>3. CASE AnchoredBy(a, m, n) /\ AnchoredBy(b, m, n)
  <2> DEFINE Found(k) == \E j \in 1 .. n : ~ m[j] /\ a[k] = a[j] /\ b[k] = b[j]
             Rests(k) == (a[k] = NullText /\ b[k] = NullText) \/ Found(k)
             S == {k \in Nat : k \in 1 .. n => Rests(k)}
  <2>1. ASSUME NEW k \in Nat, k \in S, k + 1 \in 1 .. n PROVE Rests(k + 1)
    <3>1. PICK p \in 1 .. n : p = k + 1
      BY <2>1
    <3>2. CASE ~ m[p]
      BY <3>1, <3>2
    <3>3. CASE m[p] /\ p = 1
      <4>1. a[p] = NullText /\ b[p] = NullText
        BY <1>3, <3>3 DEF AnchoredBy
      <4>2. QED
        BY <3>1, <4>1
    <3>4. CASE m[p] /\ p # 1
      <4>1. k \in 1 .. n /\ p - 1 = k
        BY <3>1, <3>4
      <4>2. a[p] = a[k] /\ b[p] = b[k]
        BY <1>3, <3>4, <4>1 DEF AnchoredBy
      <4>3. Rests(k)
        BY <2>1, <4>1
      <4>4. QED
        BY <3>1, <4>2, <4>3
    <3>5. QED
      BY <3>2, <3>3, <3>4
  <2>2. Nat \subseteq S
    <3>1. 0 \in S
      OBVIOUS
    <3> HIDE DEF Rests
    <3>2. \A k \in Nat : k \in S => k + 1 \in S
      BY <2>1
    <3> HIDE DEF S
    <3>3. QED
      BY <3>1, <3>2, Successors
  <2>3. \A k \in 1 .. n : Rests(k)
    <3> HIDE DEF Rests
    <3>1. QED
      BY <2>2
  <2>4. ASSUME NEW k \in 1 .. l PROVE Rests(k)
    <3>1. CASE k \in 1 .. n
      <4> HIDE DEF Rests
      <4>1. QED
        BY <2>3, <3>1
    <3>2. CASE k > n
      <4>1. a[k] = a[n] /\ b[k] = b[n]
        BY <1>0, <3>2
      <4>2. Rests(n)
        BY <1>1, <2>3
      <4>3. QED
        BY <4>1, <4>2
    <3>3. QED
      BY <1>1, <3>1, <3>2
  <2> HIDE DEF S
  <2>5. ASSUME NEW i \in 1 .. l, NEW j \in 1 .. l PROVE a[i] = a[j] <=> b[i] = b[j]
    <3>1. CASE Found(i) /\ Found(j)
      <4>1. PICK p \in 1 .. n : ~ m[p] /\ a[i] = a[p] /\ b[i] = b[p]
        BY <3>1
      <4>2. PICK q \in 1 .. n : ~ m[q] /\ a[j] = a[q] /\ b[j] = b[q]
        BY <3>1
      <4>3. QED
        BY <1>0, <4>1, <4>2
    <3>2. \A k \in 1 .. l : Found(k) => a[k] # NullText /\ b[k] # NullText
      BY <1>3 DEF AnchoredBy
    <3>3. CASE ~ (Found(i) /\ Found(j))
      <4>1. Rests(i) /\ Rests(j)
        BY <2>4
      <4> HIDE DEF Found
      <4>2. QED
        BY <3>2, <3>3, <4>1
    <3>4. QED
      BY <3>1, <3>3
  <2>6. QED
    BY <2>5
<1>4. QED
  BY <1>2, <1>3

\* Columns that are equal in the same pairs of rows.
Twins(f, s) ==
  /\ Len(cols[f].data) = Len(cols[s].data)
  /\ Mirrors(cols[f].data, cols[s].data, Len(cols[f].data))

\* The columns the one-to-one check takes together are, in files whose nulls do no harm.
LEMMA MapTwins ==
  ASSUME IInv, TypeInv, QuietInv, stage = "prepared",
         NEW f \in Cols, NEW s \in Cols, IsMap1t1(f, s)
  PROVE  Twins(f, s)
<1>1. Len(tuples) \in Nat \ {0} /\ HowManyToFill \in Nat
  BY HowManyType DEF TypeInv, IInv
<1>2. PICK n \in Nat \ {0} : n = Len(tuples)
  BY <1>1
<1>3. PICK l \in Nat : l = Len(tuples) + HowManyToFill
  BY <1>1
<1>4. cols[f] \in Column /\ cols[s] \in Column
  BY DEF TypeInv
<1>5. /\ Len(cols[f].data) = l /\ Len(cols[s].data) = l
      /\ Len(cols[f].null_map_arr) = n /\ Len(cols[s].null_map_arr) = n
  BY <1>2, <1>3 DEF IInv, Sized
<1>6. PICK a \in Seq(Int) : a = cols[f].data
  BY <1>4, ColumnFields
<1>7. PICK b \in Seq(Int) : b = cols[s].data
  BY <1>4, ColumnFields
<1>8. PICK m : m = cols[f].null_map_arr /\ m = cols[s].null_map_arr
  BY DEF IsMap1t1
<1>9. n <= l /\ n # 0 /\ n \in Nat
  BY <1>1, <1>2, <1>3, <1>5, <1>6, <1>7
<1>10. RepeatsBy(a, n, l) /\ RepeatsBy(b, n, l)
  BY <1>2, <1>5, <1>6, <1>7 DEF QuietInv, Quiet, Repeats, RepeatsBy
<1>11. MirrorsBy(a, b, m, n)
  <2>1. MirrorsBy(cols[f].data, cols[s].data, cols[f].null_map_arr, Len(tuples))
    BY Zenon DEF IsMap1t1, MirrorsBy
  <2>2. QED
    BY <1>2, <1>6, <1>7, <1>8, <2>1, Zenon
<1>12. (\A i \in 1 .. n : ~ m[i]) \/ (AnchoredBy(a, m, n) /\ AnchoredBy(b, m, n))
  <2>1. \A c \in Cols : NoNull(cols[c]) \/ Anchored(cols[c])
    BY DEF QuietInv, Quiet
  <2>2. CASE NoNull(cols[f]) \/ NoNull(cols[s])
    BY <1>5, <1>8, <2>2 DEF NoNull
  <2>3. CASE Anchored(cols[f]) /\ Anchored(cols[s])
    BY <1>5, <1>6, <1>7, <1>8, <2>3 DEF Anchored, AnchoredBy
  <2>4. QED
    BY <2>1, <2>2, <2>3
<1>13. Mirrors(a, b, l)
  BY <1>9, <1>10, <1>11, <1>12, MirrorsEverywhere, Zenon
<1>14. QED
  BY <1>5, <1>6, <1>7, <1>13 DEF Twins

\* The dictionaries of columns that go together are as long, and an index into the
\* one finds in the other the value of its row.
LEMMA TwinKeys ==
  ASSUME TypeInv, QuietInv, stage = "prepared", NEW f \in Cols, NEW s \in Cols, Twins(f, s)
  PROVE  /\ Len(cols[f].keys) \in Nat /\ Len(cols[f].keys) = Len(cols[s].keys)
         /\ \A i \in 1 .. Len(cols[f].data) :
              /\ KeyAt(f, i) \in DOMAIN cols[s].keys
              /\ cols[s].keys[KeyAt(f, i)] = cols[s].data[i]
<1>1. cols[f] \in Column /\ cols[s] \in Column
  BY DEF TypeInv
<1>2. PICK a \in Seq(Int) : a = cols[f].data
  BY <1>1, ColumnFields
<1>3. PICK b \in Seq(Int) : b = cols[s].data
  BY <1>1, ColumnFields
<1>4. PICK ka, kb : ka = cols[f].keys /\ kb = cols[s].keys
  OBVIOUS
<1>5. ka = Extended(<<>>, a) /\ kb = Extended(<<>>, b)
  BY <1>2, <1>3, <1>4 DEF QuietInv
<1>6. Len(a) = Len(b) /\ Mirrors(a, b, Len(a))
  BY <1>2, <1>3 DEF Twins
<1>7. /\ ka \in Seq(Int) /\ kb \in Seq(Int) /\ Len(ka) = Len(kb)
      /\ \A k \in 1 .. Len(ka) : \E j \in 1 .. Len(a) : a[j] = ka[k] /\ b[j] = kb[k]
  <2>1. KeysGo(ka, kb, a, b)
    BY <1>5, <1>6, KeysMirror, Zenon
  <2>2. QED
    BY <2>1 DEF KeysGo
<1>8. ASSUME NEW i \in 1 .. Len(a)
      PROVE  KeyAt(f, i) \in DOMAIN kb /\ kb[KeyAt(f, i)] = b[i]
  <2>1. \E k \in DOMAIN ka : ka[k] = a[i]
    <3>1. <<>> \in Seq(Int)
      OBVIOUS
    <3>2. a[i] \in ToSet(ka)
      BY <1>5, <3>1, ExtendedFacts
    <3>3. QED
      BY <3>2 DEF ToSet
  <2>2. PICK k : k = KeyAt(f, i)
    OBVIOUS
  <2>3. k = CHOOSE x \in DOMAIN ka : ka[x] = a[i]
    BY <1>2, <1>4, <2>2, Zenon DEF KeyAt
  <2>4. k \in DOMAIN ka /\ ka[k] = a[i]
    BY <2>1, <2>3, Zenon
  <2>5. k \in 1 .. Len(ka) /\ k \in DOMAIN kb
    BY <1>7, <2>4
  <2>6. PICK j \in 1 .. Len(a) : a[j] = ka[k] /\ b[j] = kb[k]
    BY <1>7, <2>5
  <2>7. b[j] = b[i]
    BY <1>6, <2>4, <2>6 DEF Mirrors
  <2>8. QED
    BY <2>2, <2>5, <2>6, <2>7
<1>9. QED
  BY <1>2, <1>3, <1>4, <1>7, <1>8, SMTT(30)

-----------------------------------------------------------------------------
(* What is written reads back *)

\* What the operator r says of the column c.
Faithful(r, c) ==
  /\ r.op # "null"
  /\ r.op = "constant" => Len(cols[c].keys) = 1
  /\ r.op = "equal" => cols[r.of].data = cols[c].data
  /\ r.op = "external" => Twins(r.of, c)
  /\ r.op \in {"external", "dictionary"} => r.index = IndexType(Len(cols[c].keys))

\* The inductive invariant: the passes run on a prepared rowgroup, and what they
\* have chosen is true of the columns.
DecodeInv ==
  /\ check # "constant_check" => stage = "prepared"
  /\ \A c \in Cols : Faithful(rpn[c], c)

\* What is said of tokens is said of the columns that stay as they are.
LEMMA PassDecodes ==
  ASSUME stage = "prepared", stage' = stage, cols' = cols, \A c \in Cols : Faithful(rpn'[c], c)
  PROVE  DecodeInv'
BY DEF DecodeInv, Faithful, Twins

\* A pass leaves the rowgroup alone.
LEMMA PassedLeaves ==
  ASSUME NEW fails, NEW chosen, NEW next, Passed(fails, chosen, next)
  PROVE  /\ stage' = stage /\ cols' = cols
         /\ rpn' = rpn \/ rpn' = chosen
BY Zenon DEF Passed

\* Undetermined columns and those with an operator of their own are encoded as they are.
LEMMA PlainFaithful ==
  \A c : Faithful(Undetermined, c) /\ Faithful(Determined("own", 0, "none"), c)
BY DeterminedFields DEF Faithful, Undetermined

\* A column is constant when it has one value.
LEMMA ConstantDecodes ==
  ASSUME DecodeInv, ConstantCheck
  PROVE  DecodeInv'
<1>1. PICK chosen : /\ chosen = [c \in Cols |-> IF Len(cols[c].keys) = 1 THEN Determined("constant", 0, "none")
                                                ELSE Undetermined]
                    /\ Passed(FALSE, chosen, "equality_check")
  BY Zenon DEF ConstantCheck
<1>2. stage' = stage /\ cols' = cols /\ stage = "prepared" /\ (rpn' = rpn \/ rpn' = chosen)
  BY <1>1, PassedLeaves, Zenon DEF ConstantCheck
<1>3. \A c \in Cols : Faithful(chosen[c], c)
  <2> SUFFICES ASSUME NEW c \in Cols PROVE Faithful(chosen[c], c)
    OBVIOUS
  <2>1. CASE Len(cols[c].keys) = 1
    BY <1>1, <2>1, DeterminedFields DEF Faithful
  <2>2. CASE Len(cols[c].keys) # 1
    BY <1>1, <2>2, PlainFaithful
  <2>3. QED
    BY <2>1, <2>2
<1>4. \A c \in Cols : Faithful(rpn'[c], c)
  BY <1>2, <1>3 DEF DecodeInv
<1>5. QED
  BY <1>2, <1>4, PassDecodes

\* equality_check compares all values.
LEMMA EqualityDecodes ==
  ASSUME DecodeInv, EqualityCheck
  PROVE  DecodeInv'
<1>1. PICK equals, chosen, fails :
        /\ equals = {s \in Cols : ~ IsDetermined(s) /\ EqualTo(s) # {}}
        /\ chosen = [c \in Cols |-> IF c \in equals THEN Determined("equal", Min(EqualTo(c)), "none")
                                    ELSE rpn[c]]
        /\ Passed(fails, chosen, "null_check")
  BY Zenon DEF EqualityCheck
<1>2. stage' = stage /\ cols' = cols /\ (rpn' = rpn \/ rpn' = chosen)
  BY <1>1, PassedLeaves, Zenon
<1>3. stage = "prepared"
  BY DEF EqualityCheck, DecodeInv
<1>4. \A c \in Cols : Faithful(chosen[c], c)
  <2> SUFFICES ASSUME NEW c \in Cols PROVE Faithful(chosen[c], c)
    OBVIOUS
  <2>1. CASE c \in equals
    <3>1. EqualTo(c) # {} /\ EqualTo(c) \subseteq 1 .. c - 1 /\ 1 .. c - 1 \subseteq Nat
      BY <1>1, <2>1, ColsNat DEF EqualTo
    <3>2. PICK f : f = Min(EqualTo(c)) /\ f \in EqualTo(c)
      BY <3>1, MinMember
    <3>3. cols[f].data = cols[c].data
      BY <3>2 DEF EqualTo
    <3>4. chosen[c] = Determined("equal", f, "none")
      BY <1>1, <2>1, <3>2
    <3>5. QED
      BY <3>3, <3>4, DeterminedFields DEF Faithful
  <2>2. CASE c \notin equals
    BY <1>1, <2>2 DEF DecodeInv
  <2>3. QED
    BY <2>1, <2>2
<1>5. \A c \in Cols : Faithful(rpn'[c], c)
  BY <1>2, <1>4 DEF DecodeInv
<1>6. QED
  BY <1>2, <1>3, <1>5, PassDecodes

\* Nulls that are not counted take no column to EXP_NULL.
LEMMA NullDecodes ==
  ASSUME TypeInv, QuietInv, DecodeInv, NullCheck
  PROVE  DecodeInv'
<1>1. PICK nulls, chosen, fails :
        /\ nulls = {c \in Cols : /\ ~ IsDetermined(c)
                                 /\ cols[c].n_nulls * NullDen > NullNum * Len(cols[c].data)}
        /\ chosen = [c \in Cols |-> IF c \in nulls THEN Determined("null", 0, "none") ELSE rpn[c]]
        /\ Passed(fails, chosen, "map_1t1_check")
  BY Zenon DEF NullCheck
<1>2. stage' = stage /\ cols' = cols /\ (rpn' = rpn \/ rpn' = chosen)
  BY <1>1, PassedLeaves, Zenon
<1>3. stage = "prepared"
  BY DEF NullCheck, DecodeInv
<1>4. \A c \in Cols : c \notin nulls
  <2> SUFFICES ASSUME NEW c \in Cols PROVE ~ (cols[c].n_nulls * NullDen > NullNum * Len(cols[c].data))
    BY <1>1
  <2>1. cols[c].n_nulls = 0
    BY <1>3 DEF QuietInv, Quiet
  <2>2. PICK l \in Nat : l = Len(cols[c].data)
    BY ColumnFields DEF TypeInv
  <2>3. NullDen \in Nat /\ NullNum \in Nat
    BY RatiosAssumption
  <2>4. NullNum * l >= 0 /\ 0 * NullDen = 0 /\ NullNum * l \in Int
    BY <2>3, Z3
  <2>5. QED
    BY <2>1, <2>2, <2>4
<1>5. \A c \in Cols : Faithful(chosen[c], c)
  BY <1>1, <1>4 DEF DecodeInv
<1>6. \A c \in Cols : Faithful(rpn'[c], c)
  BY <1>2, <1>5 DEF DecodeInv
<1>7. QED
  BY <1>2, <1>3, <1>6, PassDecodes

\* The second column of a pair and the first have dictionaries of one length, so that
\* the type chosen for the pair is that of either.
LEMMA TwinIndex ==
  ASSUME TypeInv, QuietInv, stage = "prepared", NEW f \in Cols, NEW s \in Cols, Twins(f, s)
  PROVE  /\ FindBestDataTypeForIndex(f, s) = IndexType(Len(cols[s].keys))
         /\ FindBestDataTypeForIndex(f, s) = IndexType(Len(cols[f].keys))
<1>1. PICK n \in Nat : n = Len(cols[f].keys) /\ n = Len(cols[s].keys)
  BY TwinKeys
<1>2. Max({n, n}) = n
  BY MaxOfOne
<1>3. FindBestDataTypeForIndex(f, s) = IndexType(Max({n, n}))
  BY <1>1, Zenon DEF FindBestDataTypeForIndex
<1>4. QED
  BY <1>1, <1>2, <1>3

\* A column that rests on another one is its twin, and the first of several pairs
\* takes one type of index from all of them.
LEMMA MapDecodes ==
  ASSUME IInv, TypeInv, QuietInv, StandInv, DecodeInv, Map1t1Check
  PROVE  DecodeInv'
<1>1. stage = "prepared"
  BY DEF Map1t1Check, DecodeInv
<1>2. stage' = stage /\ cols' = cols
  BY PassedLeaves, Zenon DEF Map1t1Check
<1>3. CASE rpn' = rpn
  BY <1>1, <1>2, <1>3, PassDecodes DEF DecodeInv
<1>4. ASSUME NEW mapped, \A p \in mapped : p \in Cols \X Cols /\ IsMap1t1(p[1], p[2]),
             rpn' = MapChosen(mapped)
      PROVE  DecodeInv'
  <2>1. PICK Source : Source = SourceOf(mapped)
    OBVIOUS
  <2>2. ASSUME NEW s \in Cols, NEW f, f = Source[s], f # 0
        PROVE  /\ f \in Cols /\ Twins(f, s)
               /\ FindBestDataTypeForIndex(f, s) = IndexType(Len(cols[s].keys))
               /\ FindBestDataTypeForIndex(f, s) = IndexType(Len(cols[f].keys))
    <3>1. f \in Cols /\ <<f, s>> \in mapped
      BY <2>1, <2>2, SourceFacts
    <3>2. IsMap1t1(f, s)
      BY <1>4, <3>1
    <3>3. Twins(f, s)
      BY <1>1, <3>1, <3>2, MapTwins
    <3>4. QED
      BY <1>1, <3>1, <3>3, TwinIndex
  <2>3. ASSUME NEW c \in Cols PROVE Faithful(rpn'[c], c)
    <3>1. CASE Source[c] # 0
      <4>1. PICK f : f = Source[c]
        OBVIOUS
      <4>2. rpn'[c] = Determined("external", f, FindBestDataTypeForIndex(f, c))
        BY <1>4, <2>1, <3>1, <4>1, Zenon DEF MapChosen
      <4>3. Twins(f, c) /\ FindBestDataTypeForIndex(f, c) = IndexType(Len(cols[c].keys))
        BY <2>2, <3>1, <4>1
      <4>4. QED
        BY <4>2, <4>3, DeterminedFields DEF Faithful
    <3>2. CASE Source[c] = 0 /\ {s \in Cols : Source[s] = c} # {}
      <4>1. PICK T : T = {s \in Cols : Source[s] = c}
        OBVIOUS
      <4>2. T \in SUBSET Cols /\ T # {}
        BY <3>2, <4>1
      <4>3. PICK s \in Cols : s = Max(T) /\ Source[s] = c
        BY <4>1, <4>2, MaxMember
      <4>4. rpn'[c] = Determined("dictionary", 0, FindBestDataTypeForIndex(c, s))
        BY <1>4, <2>1, <3>2, <4>1, <4>3, Zenon DEF MapChosen
      <4>5. c # 0
        BY ColsNat
      <4>6. FindBestDataTypeForIndex(c, s) = IndexType(Len(cols[c].keys))
        BY <2>2, <4>3, <4>5
      <4>7. QED
        BY <4>4, <4>6, DeterminedFields DEF Faithful
    <3>3. CASE Source[c] = 0 /\ {s \in Cols : Source[s] = c} = {}
      <4>1. rpn'[c] = rpn[c]
        BY <1>4, <2>1, <3>3, Zenon DEF MapChosen
      <4>2. QED
        BY <4>1 DEF DecodeInv
    <3>4. QED
      BY <3>1, <3>2, <3>3
  <2>4. QED
    BY <1>1, <1>2, <2>3, PassDecodes
<1>5. QED
  BY <1>3, <1>4, MapChooses

\* expression_check changes no column that is determined.
LEMMA ExpressionDecodes ==
  ASSUME DecodeInv, ExpressionCheck
  PROVE  DecodeInv'
<1>1. PICK chosen, fails :
        /\ chosen = [c \in Cols |-> IF IsDetermined(c) THEN rpn[c] ELSE Determined("own", 0, "none")]
        /\ Passed(fails, chosen, "spelled")
  BY Zenon DEF ExpressionCheck
<1>2. stage' = stage /\ cols' = cols /\ (rpn' = rpn \/ rpn' = chosen)
  BY <1>1, PassedLeaves, Zenon
<1>3. stage = "prepared"
  BY DEF ExpressionCheck, DecodeInv
<1>4. \A c \in Cols : Faithful(chosen[c], c)
  BY <1>1, PlainFaithful DEF DecodeInv
<1>5. \A c \in Cols : Faithful(rpn'[c], c)
  BY <1>2, <1>4 DEF DecodeInv
<1>6. QED
  BY <1>2, <1>3, <1>5, PassDecodes

\* Every pass keeps the invariant; while the rowgroup may change, nothing is chosen.
LEMMA DecodeAlways ==
  ASSUME QuietNulls
  PROVE  WizardSpec => []DecodeInv
<1>1. WizardInit => DecodeInv
  BY PlainFaithful DEF WizardInit, DecodeInv
<1>2. IInv /\ TypeInv /\ QuietInv /\ StandInv /\ DecodeInv /\ [WizardNext]_wizardVars => DecodeInv'
  <2> SUFFICES ASSUME IInv, TypeInv, QuietInv, StandInv, DecodeInv, [WizardNext]_wizardVars
               PROVE  DecodeInv'
    OBVIOUS
  <2>1. CASE Ingest
    <3>1. check = "constant_check" /\ check' = check /\ rpn' = rpn
      BY <2>1 DEF Ingest
    <3>2. \A c \in Cols : rpn'[c].op = "none"
      BY <3>1, DeterminedFields DEF StandInv, Undetermined
    <3>3. QED
      BY <3>1, <3>2 DEF DecodeInv, Faithful
  <2>2. CASE UNCHANGED wizardVars
    BY <2>2 DEF wizardVars, DecodeInv, Faithful, Twins
  <2>3. QED
    BY <2>1, <2>2, ConstantDecodes, EqualityDecodes, NullDecodes, MapDecodes, ExpressionDecodes
       DEF WizardNext
<1>3. IngestSpec => []IInv /\ []TypeInv /\ []QuietInv
  BY IInvAlways, TypeInvAlways, QuietAlways, PTL
<1>4. QED
  BY <1>1, <1>2, <1>3, WizardIngests, StandAlways, PTL DEF WizardSpec

\* A column whose operator is faithful reads back.
LEMMA FaithfulDecodes ==
  ASSUME TypeInv, QuietInv, StandInv, DecodeInv, stage = "prepared",
         NEW e \in Cols, NEW i \in 1 .. Len(cols[e].data)
  PROVE  Decoded(e, i) = cols[e].data[i]
<1>1. Faithful(rpn[e], e)
  BY DEF DecodeInv
<1>2. rpn[e].op # "null"
  BY <1>1 DEF Faithful
<1>3. CASE rpn[e].op = "constant"
  <2>1. PICK a \in Seq(Int) : a = cols[e].data
    BY ColumnFields DEF TypeInv
  <2>2. PICK k : k = Extended(<<>>, a) /\ k = cols[e].keys
    BY <2>1 DEF QuietInv
  <2>3. k \in Seq(Int) /\ a[i] \in ToSet(k)
    <3>1. <<>> \in Seq(Int) /\ i \in 1 .. Len(a)
      BY <2>1
    <3>2. /\ Extended(<<>>, a) \in Seq(Int)
          /\ a[i] \in ToSet(Extended(<<>>, a))
      BY <3>1, ExtendedFacts
    <3>3. QED
      BY <2>2, <3>2, Zenon
  <2>4. Len(k) = 1
    BY <1>1, <1>3, <2>2 DEF Faithful
  <2>5. PICK j \in DOMAIN k : a[i] = k[j]
    BY <2>3, Zenon DEF ToSet
  <2>6. j = 1
    BY <2>3, <2>4, <2>5
  <2>7. QED
    BY <1>3, <2>1, <2>2, <2>5, <2>6 DEF Decoded
<1>4. CASE rpn[e].op = "external"
  <2>1. PICK f : f = rpn[e].of
    OBVIOUS
  <2>2. Twins(f, e) /\ rpn[e].index = IndexType(Len(cols[e].keys))
    BY <1>1, <1>4, <2>1 DEF Faithful
  <2>3. f \in Cols /\ rpn[f].op = "dictionary"
    <3>1. RpnOK(rpn[e])
      BY DEF StandInv
    <3>2. f \in 0 .. NumCols /\ f # 0
      BY <1>4, <2>1, <3>1 DEF RpnOK, Rpn
    <3>3. f \in Cols
      BY <3>2, ColsNat DEF Cols
    <3>4. QED
      BY <1>4, <2>1, <3>3 DEF StandInv, SourcesStand
  <2>4. rpn[f].index = IndexType(Len(cols[f].keys))
    BY <2>3 DEF DecodeInv, Faithful
  <2>5. Len(cols[f].data) = Len(cols[e].data)
    BY <2>2 DEF Twins
  <2>6. /\ Len(cols[f].keys) = Len(cols[e].keys)
        /\ KeyAt(f, i) \in DOMAIN cols[e].keys
        /\ cols[e].keys[KeyAt(f, i)] = cols[e].data[i]
    BY <2>2, <2>3, <2>5, TwinKeys
  <2>7. External(e, i) = cols[e].data[i]
    <3>1. rpn[f].index = rpn[e].index
      BY <2>2, <2>4, <2>6
    <3>2. QED
      BY <2>1, <2>3, <2>6, <3>1, Zenon DEF External
  <2>8. QED
    BY <1>4, <2>7 DEF Decoded
<1>5. CASE rpn[e].op \notin {"constant", "null", "external"}
  BY <1>5 DEF Decoded
<1>6. QED
  BY <1>2, <1>3, <1>4, <1>5

\* In every file whose nulls are in string columns, none of which holds the string
\* stored for a leading null, every cell that is not null reads back, whatever column
\* or dictionary the wizard has made its column rest on.
THEOREM DecodedAlwaysEqualsOriginal ==
  ASSUME QuietNulls
  PROVE  WizardSpec => []DecodedEqualsOriginal
<1>1. IInv /\ TypeInv /\ QuietInv /\ StandInv /\ DecodeInv => DecodedEqualsOriginal
  <2> SUFFICES ASSUME IInv, TypeInv, QuietInv, StandInv, DecodeInv, check = "spelled",
                      NEW c \in Cols, NEW i \in 1 .. Len(tuples)
               PROVE  Decoded(IF rpn[c].op = "equal" THEN rpn[c].of ELSE c, i) = cols[c].data[i]
    BY DEF DecodedEqualsOriginal
  <2>1. stage = "prepared"
    BY DEF DecodeInv
  <2>2. PICK e : e = IF rpn[c].op = "equal" THEN rpn[c].of ELSE c
    OBVIOUS
  <2>3. e \in Cols /\ cols[e].data = cols[c].data
    <3>1. CASE rpn[c].op = "equal"
      <4>1. RpnOK(rpn[c]) /\ Faithful(rpn[c], c)
        BY DEF StandInv, DecodeInv
      <4>2. e \in 0 .. NumCols /\ e # 0
        BY <2>2, <3>1, <4>1 DEF RpnOK, Rpn
      <4>3. e \in Cols
        BY <4>2, ColsNat DEF Cols
      <4>4. QED
        BY <2>2, <3>1, <4>1, <4>3 DEF Faithful
    <3>2. CASE rpn[c].op # "equal"
      BY <2>2, <3>2
    <3>3. QED
      BY <3>1, <3>2
  <2>4. i \in 1 .. Len(cols[e].data)
    <3>1. Len(tuples) \in Nat /\ HowManyToFill \in Nat
      BY HowManyType DEF IInv
    <3>2. Len(cols[e].data) = Len(tuples) + HowManyToFill
      BY <2>1, <2>3 DEF IInv, Sized
    <3>3. QED
      BY <3>1, <3>2
  <2>5. Decoded(e, i) = cols[e].data[i]
    BY <2>1, <2>3, <2>4, FaithfulDecodes
  <2>6. QED
    BY <2>2, <2>3, <2>5
<1>2. IngestSpec => []IInv /\ []TypeInv /\ []QuietInv
  BY IInvAlways, TypeInvAlways, QuietAlways, PTL
<1>3. QED
  BY <1>1, <1>2, WizardIngests, StandAlways, DecodeAlways, PTL

-----------------------------------------------------------------------------
(* No pass fails *)

\* Files that every pass has an operator for: rowgroups of at most as many tuples
\* as an index of "UINT16" has numbers, no column of a type that the equality check
\* and the dictionaries lack, and, since FLOATs have dictionaries with indexes of
\* "UINT8" only, at most as many different ones as such an index has numbers.
Encodable ==
  /\ Capacity <= 2 * H[2]
  /\ \A s \in Schemas : \A c \in Cols :
       /\ s[c] \notin {"BOOLEAN", "UINT8"}
       /\ s[c] = "INT8" => \A v \in Cells["INT8"] \ {Null} : Fits("INT8", v)
       /\ s[c] = "FLOAT" => /\ IsFiniteSet(Cells["FLOAT"])
                            /\ Cardinality(Cells["FLOAT"]) <= 2 * H[1]

\* The keys of a column are different values of it.
Keys(k, data) ==
  /\ k \in Seq(Int)
  /\ \A i, j \in 1 .. Len(k) : k[i] = k[j] => i = j
  /\ \A i \in 1 .. Len(k) : \E j \in 1 .. Len(data) : k[i] = data[j]

\* One more value is a key if it is none.
LEMMA KeysAppended ==
  ASSUME NEW data \in Seq(Int), NEW k, Keys(k, data), NEW p \in 1 .. Len(data),
         data[p] \notin ToSet(k)
  PROVE  Keys(Append(k, data[p]), data)
<1>1. PICK e \in Int : e = data[p]
  OBVIOUS
<1>2. PICK g : g = Append(k, e)
  OBVIOUS
<1>3. k \in Seq(Int) /\ Len(k) \in Nat
  BY DEF Keys
<1>4. PICK n \in Nat : n = Len(k)
  BY <1>3
<1>5. /\ g \in Seq(Int) /\ Len(g) = n + 1 /\ g[n + 1] = e
      /\ \A i \in 1 .. n : g[i] = k[i]
  BY <1>2, <1>3, <1>4
<1>6. \A i \in 1 .. n : k[i] # e
  BY <1>1, <1>3, <1>4 DEF ToSet
<1>7. \A i \in 1 .. n + 1 : i \in 1 .. n \/ i = n + 1
  OBVIOUS
<1>8. \A i, j \in 1 .. n + 1 : g[i] = g[j] => i = j
  <2>1. \A i, j \in 1 .. n : k[i] = k[j] => i = j
    BY <1>4 DEF Keys
  <2>2. \A i \in 1 .. n : g[i] # g[n + 1]
    BY <1>5, <1>6
  <2>3. \A i, j \in 1 .. n : g[i] = g[j] => i = j
    BY <1>5, <2>1
  <2>4. QED
    BY <1>7, <2>2, <2>3
<1>9. \A i \in 1 .. n + 1 : \E j \in 1 .. Len(data) : g[i] = data[j]
  BY <1>1, <1>4, <1>5, <1>7 DEF Keys
<1>10. QED
  BY <1>1, <1>2, <1>5, <1>8, <1>9 DEF Keys

\* What numbering a column gives it.
LEMMA KeysAre ==
  ASSUME NEW data \in Seq(Int)
  PROVE  Keys(Extended(<<>>, data), data)
<1>1. PICK l \in Nat : l = Len(data)
  OBVIOUS
<1>2. PICK f : /\ f = [n \in 0 .. Len(data) |-> OneMore(<<>>, data, f, n)]
               /\ Extended(<<>>, data) = f[Len(data)]
  BY <1>1, ExtendedDef
<1>3. \A n \in 0 .. l : f[n] = OneMore(<<>>, data, f, n)
  BY <1>1, <1>2
<1> DEFINE S == {n \in Nat : n <= l => Keys(f[n], data)}
<1>4. 0 \in S
  <2>1. f[0] = <<>>
    BY <1>3 DEF OneMore
  <2>2. Keys(<<>>, data)
    BY DEF Keys
  <2>3. QED
    BY <2>1, <2>2
<1>5. ASSUME NEW n \in Nat, n \in S PROVE n + 1 \in S
  <2> SUFFICES ASSUME NEW p \in Nat, p = n + 1, p <= l PROVE Keys(f[p], data)
    OBVIOUS
  <2>1. p \in 1 .. l /\ p # 0 /\ p - 1 = n /\ Keys(f[n], data)
    BY <1>5
  <2>2. f[p] = OneMore(<<>>, data, f, p)
    BY <1>3, <2>1
  <2>3. f[p] = IF data[p] \in ToSet(f[n]) THEN f[n] ELSE Append(f[n], data[p])
    BY <2>1, <2>2, Zenon DEF OneMore
  <2>4. CASE data[p] \in ToSet(f[n])
    BY <2>1, <2>3, <2>4
  <2>5. CASE data[p] \notin ToSet(f[n])
    BY <1>1, <2>1, <2>3, <2>5, KeysAppended
  <2>6. QED
    BY <2>4, <2>5
<1>6. l \in S
  <2> HIDE DEF S
  <2>1. QED
    BY <1>4, <1>5, Successors
<1>7. QED
  BY <1>1, <1>2, <1>6

\* There are no more of them than there are values to choose from ...
LEMMA KeysFew ==
  ASSUME NEW data \in Seq(Int), NEW k, Keys(k, data),
         NEW T, IsFiniteSet(T), \A j \in 1 .. Len(data) : data[j] \in T
  PROVE  Len(k) \in Nat /\ Len(k) <= Cardinality(T)
<1>1. k \in Seq(Int) /\ Len(k) \in Nat
  BY DEF Keys
<1>2. PICK n \in Nat : n = Len(k)
  BY <1>1
<1>3. k \in [1 .. n -> T]
  <2>1. \A i \in 1 .. n : k[i] \in T
    BY <1>2 DEF Keys
  <2>2. QED
    BY <1>1, <1>2, <2>1
<1>4. /\ IsFiniteSet(1 .. n) /\ Cardinality(1 .. n) = n
  BY FS_Interval
<1>5. Cardinality(T) \in Nat
  BY FS_CardinalityType
<1>6. ASSUME Cardinality(T) < n PROVE FALSE
  <2>1. \E x, y \in 1 .. n : x # y /\ k[x] = k[y]
    BY <1>3, <1>4, <1>6, FS_PigeonHole
  <2>2. QED
    BY <1>2, <2>1 DEF Keys
<1>7. QED
  BY <1>2, <1>5, <1>6

\* ... nor than rows, of which those filled in repeat one.
LEMMA KeysRows ==
  ASSUME NEW data \in Seq(Int), NEW k, Keys(k, data), NEW n \in Nat \ {0}, n <= Len(data),
         RepeatsBy(data, n, Len(data))
  PROVE  Len(k) <= n
<1>1. k \in Seq(Int) /\ Len(k) \in Nat
  BY DEF Keys
<1>2. PICK m \in Nat : m = Len(k)
  BY <1>1
<1>3. \A i \in 1 .. m : \E j \in 1 .. n : k[i] = data[j]
  <2> SUFFICES ASSUME NEW i \in 1 .. m PROVE \E j \in 1 .. n : k[i] = data[j]
    OBVIOUS
  <2>1. PICK j \in 1 .. Len(data) : k[i] = data[j]
    BY <1>2 DEF Keys
  <2>2. CASE j <= n
    BY <2>1, <2>2
  <2>3. CASE j > n
    BY <2>1, <2>3 DEF RepeatsBy
  <2>4. QED
    BY <2>2, <2>3
<1>4. PICK f : f = [i \in 1 .. m |-> CHOOSE j \in 1 .. n : k[i] = data[j]]
  OBVIOUS
<1>5. \A i \in 1 .. m : f[i] \in 1 .. n /\ k[i] = data[f[i]]
  BY <1>3, <1>4
<1>6. f \in [1 .. m -> 1 .. n]
  BY <1>4, <1>5
<1>7. /\ IsFiniteSet(1 .. m) /\ Cardinality(1 .. m) = m
      /\ IsFiniteSet(1 .. n) /\ Cardinality(1 .. n) = n
  BY FS_Interval
<1>8. ASSUME n < m PROVE FALSE
  <2>1. PICK R : R = 1 .. n
    OBVIOUS
  <2>2. f \in [1 .. m -> R] /\ IsFiniteSet(R) /\ Cardinality(R) < Cardinality(1 .. m)
    BY <1>6, <1>7, <1>8, <2>1
  <2>3. \E x, y \in 1 .. m : x # y /\ f[x] = f[y]
    BY <1>7, <2>2, FS_PigeonHole
  <2>4. PICK x \in 1 .. m, y \in 1 .. m : x # y /\ f[x] = f[y]
    BY <2>3
  <2>5. k[x] = k[y]
    BY <1>5, <2>4
  <2>6. \A i, j \in 1 .. m : k[i] = k[j] => i = j
    BY <1>2 DEF Keys
  <2>7. QED
    BY <2>4, <2>5, <2>6
<1>9. QED
  BY <1>2, <1>8

\* A column of a type that has few values has no others.
Narrow(t, col) ==
  /\ t \notin {"BOOLEAN", "UINT8"}
  /\ t = "INT8" => \A i \in 1 .. Len(col.data) : Fits("INT8", col.data[i])
  /\ t = "FLOAT" => /\ IsFiniteSet(Cells["FLOAT"]) /\ Cardinality(Cells["FLOAT"]) <= 2 * H[1]
                    /\ \A i \in 1 .. Len(col.data) : col.data[i] \in Cells["FLOAT"]

\* The inductive invariant: once prepared, a column has a type the equality check knows.
NarrowInv ==
  /\ \A c \in Cols : Narrow(types[c], cols[c])
  /\ stage = "prepared" => \A c \in Cols : types[c] \in HasEquality

\* A value of a file that can be encoded and is appended.
LEMMA IngestedNarrow ==
  ASSUME NEW t \in DataTypes, NEW col \in Column, Narrow(t, col), NEW cell \in Int \cup {Null},
         cell = Null => t = "FLS_STR",
         t = "INT8" /\ cell # Null => Fits("INT8", cell),
         t = "FLOAT" => cell \in Cells["FLOAT"],
         NEW new, new = Ingested(t, col, cell)
  PROVE  Narrow(t, new)
<1>1. CASE t \notin {"INT8", "FLOAT"}
  BY <1>1 DEF Narrow
<1>2. CASE t \in {"INT8", "FLOAT"}
  <2>1. cell # Null /\ cell \in Int
    BY <1>2
  <2>2. PICK d \in Seq(Int), n \in Nat : d = col.data /\ n = Len(d)
    BY ColumnFields
  <2>3. PICK e : e = new.data
    OBVIOUS
  <2>4. e = Append(d, cell)
    BY <2>1, <2>2, <2>3 DEF Ingested
  <2>5. Len(e) = n + 1 /\ e[n + 1] = cell /\ \A i \in 1 .. n : e[i] = d[i]
    BY <2>1, <2>2, <2>4
  <2>6. \A i \in 1 .. n + 1 : i \in 1 .. n \/ i = n + 1
    OBVIOUS
  <2>7. t = "INT8" => \A i \in 1 .. n + 1 : Fits("INT8", e[i])
    <3> SUFFICES ASSUME t = "INT8", NEW i \in 1 .. n + 1 PROVE Fits("INT8", e[i])
      OBVIOUS
    <3>1. \A j \in 1 .. n : Fits("INT8", d[j])
      BY <2>2 DEF Narrow
    <3>2. Fits("INT8", cell)
      BY <2>1
    <3>3. QED
      BY <2>5, <2>6, <3>1, <3>2
  <2>8. t = "FLOAT" => \A i \in 1 .. n + 1 : e[i] \in Cells["FLOAT"]
    <3> SUFFICES ASSUME t = "FLOAT", NEW i \in 1 .. n + 1 PROVE e[i] \in Cells["FLOAT"]
      OBVIOUS
    <3>1. \A j \in 1 .. n : d[j] \in Cells["FLOAT"]
      BY <2>2 DEF Narrow
    <3>2. QED
      BY <2>5, <2>6, <3>1
  <2>9. QED
    BY <1>2, <2>3, <2>5, <2>7, <2>8 DEF Narrow
<1>3. QED
  BY <1>1, <1>2

\* What is filled in is there.
LEMMA FilledNarrow ==
  ASSUME NEW t \in DataTypes, NEW col \in Column, Narrow(t, col), NEW n \in Nat, Len(col.data) # 0,
         NEW new, new = Filled(col, n)
  PROVE  Narrow(t, new)
<1>1. PICK m \in Nat \ {0} : m = Len(col.data)
  BY ColumnFields
<1>2. Repeated(new, col, m, n)
  BY <1>1, FilledData, Zenon
<1>3. \A i \in 1 .. Len(new.data) : \E j \in 1 .. m : new.data[i] = col.data[j]
  <2>1. m \in 1 .. m
    OBVIOUS
  <2>2. QED
    BY <1>1, <1>2, <2>1 DEF Repeated
<1>4. QED
  BY <1>1, <1>3 DEF Narrow

\* A value that has been cast to "INT8" fits.
LEMMA CastFits ==
  ASSUME NEW t \in Signed, NEW v \in Int
  PROVE  Fits(t, ToSigned(t, v))
<1>1. PICK h, m, r : h = Half(t) /\ m = 2 * h /\ r = v % m
  OBVIOUS
<1>2. h \in Nat \ {0} /\ m \in Nat \ {0} /\ m = h + h
  BY <1>1, SignedHalf
<1>3. r \in 0 .. m - 1
  BY <1>1, <1>2, Remainders
<1>4. ToSigned(t, v) = IF r < h THEN r ELSE r - m
  BY <1>1, Zenon DEF ToSigned
<1>5. ToSigned(t, v) \in Int /\ 0 - h <= ToSigned(t, v) /\ ToSigned(t, v) < h
  BY <1>2, <1>3, <1>4
<1>6. QED
  BY <1>1, <1>5, SignedCast

\* The type a column is cast to is one the equality check knows.
LEMMA CastKnown ==
  ASSUME NEW t \in DataTypes, NEW col, t \notin {"BOOLEAN", "UINT8"}
  PROVE  CastType(t, col) \in HasEquality
<1>1. \A data : SmallestSigned(data) \in Signed
  BY DEF SmallestSigned, Signed
<1>2. CASE t \in {"FLOAT", "FLS_STR", "DOUBLE"}
  <2>1. {"FLOAT", "FLS_STR", "DOUBLE", "INT32"} \subseteq HasEquality /\ Signed \subseteq HasEquality
    BY DEF HasEquality, Signed, Floating
  <2>2. QED
    BY <1>1, <1>2, <2>1 DEF CastType
<1>3. CASE t \notin {"FLOAT", "FLS_STR", "DOUBLE"}
  <2>1. CastType(t, col) = SmallestSigned(col.data)
    BY <1>3 DEF CastType
  <2>2. QED
    BY <1>1, <2>1 DEF HasEquality
<1>4. QED
  BY <1>2, <1>3

\* Preparing a column leaves it as it is or casts its values.
LEMMA PrepareNarrow ==
  ASSUME NEW t \in DataTypes, NEW col \in Column, Narrow(t, col),
         NEW to, to = CastType(t, col), NEW new, new = Numbered(CastColumn(t, to, col))
  PROVE  Narrow(to, new) /\ to \in HasEquality
<1>1. to \in HasEquality
  BY CastKnown DEF Narrow
<1>2. to \notin {"BOOLEAN", "UINT8"}
  BY <1>1 DEF HasEquality, Signed, Floating
<1>3. CASE to = t
  <2>1. CastColumn(t, to, col) = col
    BY <1>3 DEF CastColumn
  <2>2. new.data = col.data
    BY <2>1, NumberedType
  <2>3. QED
    BY <1>1, <1>3, <2>2 DEF Narrow
<1>4. CASE to # t
  <2>1. to \in Signed
    BY <1>4, CastTypeSigned
  <2>2. PICK d : d = ToCast(t, col.data)
    OBVIOUS
  <2>3. PICK cast : cast = CastColumn(t, to, col)
    OBVIOUS
  <2>4. /\ cast \in Column /\ d \in Seq(Int) /\ Len(cast.data) = Len(d)
        /\ \A k \in 1 .. Len(d) : cast.data[k] = ToSigned(to, d[k])
    BY <1>4, <2>1, <2>2, <2>3, CastValues
  <2>5. new.data = cast.data
    BY <2>3, <2>4, NumberedType
  <2>6. \A k \in 1 .. Len(d) : Fits(to, ToSigned(to, d[k]))
    BY <2>1, <2>4, CastFits
  <2>7. to # "FLOAT"
    BY <2>1 DEF Signed
  <2>8. QED
    BY <1>1, <1>2, <2>4, <2>5, <2>6, <2>7 DEF Narrow
<1>5. QED
  BY <1>3, <1>4

\* The rowgroup keeps it, tuple by tuple and however often it is prepared.
LEMMA NarrowAlways ==
  ASSUME QuietNulls, Encodable
  PROVE  IngestSpec => []NarrowInv
<1>1. Init => NarrowInv
  <2> SUFFICES ASSUME Init PROVE NarrowInv
    OBVIOUS
  <2>1. stage = "reading" /\ declared \in Schemas /\ types = declared
    BY DEF Init
  <2>2. ASSUME NEW c \in Cols PROVE Narrow(types[c], cols[c])
    <3>1. cols[c] = NewColumn
      BY DEF Init
    <3>2. cols[c].data = <<>> /\ \A k \in 1 .. Len(<<>>) : FALSE
      BY <3>1 DEF NewColumn
    <3>3. QED
      BY <2>1, <3>2 DEF Encodable, Narrow
  <2>3. QED
    BY <2>1, <2>2 DEF NarrowInv
<1>2. ASSUME TypeInv, QuietInv, NarrowInv, IngestTuple PROVE NarrowInv'
  <2>1. PICK tuple \in [Cols -> UNION {Cells[t] : t \in DataTypes}] :
          /\ \A c \in Cols : tuple[c] \in Cells[types[c]]
          /\ cols' = [c \in Cols |-> Ingested(types[c], cols[c], tuple[c])]
    BY <1>2 DEF IngestTuple
  <2>2. /\ stage' # "prepared" /\ types' = types /\ types = declared
        /\ declared \in Schemas /\ types \in [Cols -> DataTypes]
    BY <1>2 DEF IngestTuple, QuietInv, TypeInv
  <2>3. ASSUME NEW c \in Cols PROVE Narrow(types'[c], cols'[c])
    <3>1. PICK t, cell, new : t = types[c] /\ cell = tuple[c] /\ new = cols'[c]
      OBVIOUS
    <3>2. t \in DataTypes /\ cell \in Cells[t] /\ cell \in Int \cup {Null}
      BY <2>1, <2>2, <3>1, SchemasAssumption
    <3>3. cell = Null => t = "FLS_STR"
      BY <2>2, <3>1, <3>2 DEF QuietNulls
    <3>4. t = "INT8" /\ cell # Null => Fits("INT8", cell)
      BY <2>2, <3>1, <3>2 DEF Encodable
    <3>5. PICK col \in Column : col = cols[c]
      BY <1>2 DEF TypeInv
    <3>6. Narrow(t, col) /\ new = Ingested(t, col, cell)
      BY <1>2, <2>1, <3>1, <3>5 DEF NarrowInv
    <3>7. Narrow(t, new)
      BY <3>2, <3>3, <3>4, <3>6, IngestedNarrow
    <3>8. QED
      BY <2>2, <3>1, <3>7
  <2>4. QED
    BY <2>2, <2>3 DEF NarrowInv, Narrow
<1>3. ASSUME IInv, TypeInv, QuietInv, NarrowInv, EndRowgroup PROVE NarrowInv'
  <2>1. /\ stage = "reading" /\ stage' = "read" /\ types' = types /\ tuples # <<>>
        /\ cols' = [c \in Cols |-> Filled(cols[c], HowManyToFill)]
    BY <1>3 DEF EndRowgroup
  <2>2. Len(tuples) \in Nat \ {0} /\ HowManyToFill \in Nat
    BY <1>3, <2>1, HowManyType DEF IInv, TypeInv
  <2>3. ASSUME NEW c \in Cols PROVE Narrow(types'[c], cols'[c])
    <3>0. PICK new : new = cols'[c]
      OBVIOUS
    <3>1. PICK t \in DataTypes, col \in Column : t = types[c] /\ col = cols[c]
      BY <1>3 DEF TypeInv
    <3>2. Len(col.data) # 0
      <4>1. Len(col.data) = Len(tuples)
        BY <1>3, <2>1, <3>1 DEF IInv, Sized
      <4>2. QED
        BY <2>2, <4>1
    <3>3. Narrow(t, col) /\ new = Filled(col, HowManyToFill)
      BY <1>3, <2>1, <3>0, <3>1 DEF NarrowInv
    <3>4. Narrow(t, new)
      BY <2>2, <3>2, <3>3, FilledNarrow
    <3>5. QED
      BY <2>1, <3>0, <3>1, <3>4
  <2>4. QED
    BY <2>1, <2>3 DEF NarrowInv, Narrow
<1>4. ASSUME TypeInv, NarrowInv, Prepare PROVE NarrowInv'
  <2>1. PICK to : /\ to = [c \in Cols |-> CastType(types[c], cols[c])]
                  /\ types' = to
                  /\ cols' = [c \in Cols |-> Numbered(CastColumn(types[c], to[c], cols[c]))]
    BY <1>4 DEF Prepare
  <2>2. ASSUME NEW c \in Cols PROVE Narrow(types'[c], cols'[c]) /\ types'[c] \in HasEquality
    <3>0. PICK u, new : u = types'[c] /\ new = cols'[c]
      OBVIOUS
    <3>1. PICK t \in DataTypes, col \in Column : t = types[c] /\ col = cols[c]
      BY <1>4 DEF TypeInv
    <3>2. Narrow(t, col) /\ u = CastType(t, col) /\ new = Numbered(CastColumn(t, u, col))
      BY <1>4, <2>1, <3>0, <3>1 DEF NarrowInv
    <3>3. Narrow(u, new) /\ u \in HasEquality
      BY <3>2, PrepareNarrow
    <3>4. QED
      BY <3>0, <3>1, <3>3
  <2>3. QED
    BY <2>2 DEF NarrowInv, Narrow
<1>5. NarrowInv /\ UNCHANGED ingestVars => NarrowInv'
  BY DEF ingestVars, NarrowInv, Narrow
<1>6. IInv /\ TypeInv /\ QuietInv /\ NarrowInv /\ [IngestNext]_ingestVars => NarrowInv'
  BY <1>2, <1>3, <1>4, <1>5 DEF IngestNext
<1>7. QED
  BY <1>1, <1>6, IInvAlways, TypeInvAlways, QuietAlways, PTL DEF IngestSpec

\* The type of the index of a column's own dictionary.
LEMMA IndexIs ==
  ASSUME Encodable, IInv, TypeInv, QuietInv, NarrowInv, stage = "prepared",
         NEW c \in Cols, NEW i, i = IndexType(Len(cols[c].keys))
  PROVE  /\ i \in {"UINT8", "UINT16"}
         /\ types[c] \in {"INT8", "FLOAT"} => i = "UINT8"
<1>1. PICK d, k : d = cols[c].data /\ k = cols[c].keys
  OBVIOUS
<1>2. d \in Seq(Int) /\ k = Extended(<<>>, d)
  BY <1>1, ColumnFields DEF TypeInv, QuietInv
<1>3. Keys(k, d)
  BY <1>2, KeysAre
<1>4. PICK m \in Nat : m = Len(k)
  BY <1>3 DEF Keys
<1>5. H[1] \in Nat \ {0} /\ H[2] \in Nat \ {0} /\ Capacity \in Nat
  BY SizesAssumption
<1>6. m <= 2 * H[2]
  <2>1. Len(tuples) \in Nat \ {0} /\ Len(tuples) <= Capacity /\ HowManyToFill \in Nat
    BY HowManyType DEF TypeInv, IInv
  <2>2. PICK n \in Nat \ {0} : n = Len(tuples)
    BY <2>1
  <2>3. n <= Len(d)
    <3>1. Len(d) = Len(tuples) + HowManyToFill
      BY <1>1 DEF IInv, Sized
    <3>2. QED
      BY <2>1, <2>2, <3>1
  <2>4. RepeatsBy(d, n, Len(d))
    BY <1>1, <2>2 DEF QuietInv, Quiet, Repeats, RepeatsBy
  <2>5. Len(k) <= n
    BY <1>2, <1>3, <2>3, <2>4, KeysRows
  <2>6. QED
    BY <1>4, <1>5, <2>1, <2>2, <2>5 DEF Encodable
<1>7. CASE types[c] \in {"INT8", "FLOAT"}
  <2>1. PICK T : T = IF types[c] = "INT8" THEN 0 - H[1] .. H[1] - 1 ELSE Cells["FLOAT"]
    OBVIOUS
  <2>2. Narrow(types[c], cols[c])
    BY DEF NarrowInv
  <2>3. IsFiniteSet(T) /\ Cardinality(T) <= 2 * H[1] /\ \A j \in 1 .. Len(d) : d[j] \in T
    <3>1. CASE types[c] = "INT8"
      <4>1. T = 0 - H[1] .. H[1] - 1 /\ 0 - H[1] \in Int /\ H[1] - 1 \in Int
        BY <1>5, <2>1, <3>1
      <4>2. IsFiniteSet(T) /\ Cardinality(T) = 2 * H[1]
        <5>1. 0 - H[1] <= H[1] - 1 /\ (H[1] - 1) - (0 - H[1]) + 1 = 2 * H[1]
          BY <1>5
        <5>2. QED
          BY <1>5, <4>1, <5>1, FS_Interval
      <4>3. ASSUME NEW j \in 1 .. Len(d) PROVE d[j] \in T
        <5>1. Fits("INT8", d[j]) /\ d[j] \in Int
          BY <1>1, <1>2, <2>2, <3>1 DEF Narrow
        <5>2. 0 - H[1] <= d[j] /\ d[j] < H[1]
          <6>1. "INT8" \in Signed
            BY DEF Signed
          <6>2. QED
            BY <5>1, <6>1, SignedCast, SignedHalf
        <5>3. QED
          BY <1>5, <4>1, <5>1, <5>2
      <4>4. QED
        BY <1>5, <4>2, <4>3
    <3>2. CASE types[c] = "FLOAT"
      BY <1>1, <2>1, <2>2, <3>2 DEF Narrow
    <3>3. QED
      BY <1>7, <3>1, <3>2
  <2>4. m <= 2 * H[1]
    <3>1. Len(k) <= Cardinality(T) /\ Cardinality(T) \in Nat
      BY <1>2, <1>3, <2>3, KeysFew, FS_CardinalityType
    <3>2. QED
      BY <1>4, <1>5, <2>3, <3>1
  <2>5. QED
    BY <1>1, <1>4, <2>4 DEF IndexType
<1>8. CASE types[c] \notin {"INT8", "FLOAT"}
  BY <1>1, <1>4, <1>6, <1>8 DEF IndexType
<1>9. QED
  BY <1>7, <1>8

\* A type the equality check knows has all the operators for such an index.
LEMMA OperatorsThere ==
  ASSUME NEW t \in HasEquality, NEW i \in {"UINT8", "UINT16"},
         t \in {"INT8", "FLOAT"} => i = "UINT8"
  PROVE  HasExternal(t, i) /\ HasDictionary(t, i) /\ HasPool(t, i)
<1>1. t \in {"INT8", "INT16", "INT32", "INT64", "FLOAT", "DOUBLE", "FLS_STR"}
  BY DEF HasEquality, Signed, Floating
<1>2. HasExternal(t, i)
  BY <1>1 DEF HasExternal
<1>3. HasPool(t, i)
  BY <1>1 DEF HasPool
<1>4. QED
  BY <1>1, <1>2, <1>3 DEF HasDictionary

\* No column of such a file is equal to another one of a type without an operator, or
\* has a null that is counted.
LEMMA EarlyPass ==
  ASSUME QuietInv, NarrowInv, TypeInv, stage = "prepared", EqualityCheck \/ NullCheck
  PROVE  check' # "failed"
<1>1. CASE EqualityCheck
  <2>1. PICK equals, chosen, fails :
          /\ equals = {s \in Cols : ~ IsDetermined(s) /\ EqualTo(s) # {}}
          /\ fails = (\E s \in equals : types[s] \notin HasEquality)
          /\ Passed(fails, chosen, "null_check")
    BY <1>1, Zenon DEF EqualityCheck
  <2>2. ~ fails
    BY <2>1 DEF NarrowInv
  <2>3. check' = "null_check"
    BY <2>1, <2>2, Zenon DEF Passed
  <2>4. QED
    BY <2>3
<1>2. CASE NullCheck
  <2>1. PICK nulls, chosen, fails :
          /\ nulls = {c \in Cols : /\ ~ IsDetermined(c)
                                   /\ cols[c].n_nulls * NullDen > NullNum * Len(cols[c].data)}
          /\ fails = (\E c \in nulls : types[c] \notin HasNull)
          /\ Passed(fails, chosen, "map_1t1_check")
    BY <1>2, Zenon DEF NullCheck
  <2>2. ASSUME NEW c \in Cols PROVE ~ (cols[c].n_nulls * NullDen > NullNum * Len(cols[c].data))
    <3>1. PICK l \in Nat : l = Len(cols[c].data)
      BY ColumnFields DEF TypeInv
    <3>2. cols[c].n_nulls = 0
      BY DEF QuietInv, Quiet
    <3>3. NullDen \in Nat /\ NullNum \in Nat
      BY RatiosAssumption
    <3>4. 0 * NullDen = 0 /\ NullNum * l >= 0
      BY <3>3
    <3>5. QED
      BY <3>1, <3>2, <3>3, <3>4
  <2>3. ~ fails
    BY <2>1, <2>2
  <2>4. check' = "map_1t1_check"
    BY <2>1, <2>3, Zenon DEF Passed
  <2>5. QED
    BY <2>4
<1>3. QED
  BY <1>1, <1>2

\* What the one-to-one check fails for.
LEMMA MapFails ==
  ASSUME Map1t1Check, check' = "failed"
  PROVE  \E mapped : /\ \A p \in mapped : p \in Cols \X Cols /\ IsMap1t1(p[1], p[2])
                     /\ \E s \in Cols :
                          /\ SourceOf(mapped)[s] # 0
                          /\ ~ HasExternal(types[s], FindBestDataTypeForIndex(SourceOf(mapped)[s], s))
<1> DEFINE Mapped(misread) ==
             {p \in (Cols \X Cols) \ misread :
                /\ IsMap1t1(p[1], p[2])
                /\ IsTyped(p[1]) /\ IsTyped(p[2]) => ~ PastNullMap(p[1], p[2])}
           Fails(mapped) ==
             \E s \in Cols : SourceOf(mapped)[s] # 0
               /\ ~ HasExternal(types[s], FindBestDataTypeForIndex(SourceOf(mapped)[s], s))
<1>1. \E misread : Passed(Fails(Mapped(misread)), MapChosen(Mapped(misread)), "expression_check")
  BY DEF Map1t1Check, MapChosen
<1>2. PICK mapped : /\ \E misread : mapped = Mapped(misread)
                    /\ Passed(Fails(mapped), MapChosen(mapped), "expression_check")
  BY <1>1, Zenon
<1>3. \A p \in mapped : p \in Cols \X Cols /\ IsMap1t1(p[1], p[2])
  BY <1>2
<1>4. Fails(mapped)
  <2> HIDE DEF Fails
  <2>1. \/ Fails(mapped)
        \/ check' = "expression_check"
    BY <1>2, Zenon DEF Passed
  <2>2. QED
    BY <2>1
<1>5. QED
  BY <1>3, <1>4, Zenon

\* Columns that go together have dictionaries with indexes both have operators for.
LEMMA MapPass ==
  ASSUME Encodable, IInv, TypeInv, QuietInv, NarrowInv, stage = "prepared", Map1t1Check
  PROVE  check' # "failed"
<1> SUFFICES ASSUME check' = "failed" PROVE FALSE
  OBVIOUS
<1>1. PICK mapped : /\ \A p \in mapped : p \in Cols \X Cols /\ IsMap1t1(p[1], p[2])
                    /\ \E s \in Cols :
                         /\ SourceOf(mapped)[s] # 0
                         /\ ~ HasExternal(types[s], FindBestDataTypeForIndex(SourceOf(mapped)[s], s))
  BY MapFails
<1>2. PICK s \in Cols :
        /\ SourceOf(mapped)[s] # 0
        /\ ~ HasExternal(types[s], FindBestDataTypeForIndex(SourceOf(mapped)[s], s))
  BY <1>1
<1>a. PICK f : f = SourceOf(mapped)[s]
  OBVIOUS
<1>3. f \in Cols /\ <<f, s>> \in mapped
  BY <1>2, <1>a, SourceFacts
<1>4. IsMap1t1(f, s)
  BY <1>1, <1>3
<1>5. Twins(f, s)
  BY <1>3, <1>4, MapTwins
<1>6. PICK i : i = IndexType(Len(cols[s].keys)) /\ i = FindBestDataTypeForIndex(f, s)
  BY <1>3, <1>5, TwinIndex
<1>7. i \in {"UINT8", "UINT16"} /\ (types[s] \in {"INT8", "FLOAT"} => i = "UINT8")
  BY <1>6, IndexIs
<1>8. HasExternal(types[s], i)
  <2>1. types[s] \in HasEquality
    BY DEF NarrowInv
  <2>2. QED
    BY <1>7, <2>1, OperatorsThere
<1>9. QED
  BY <1>2, <1>a, <1>6, <1>8

\* The last pass has a pool with operators for every column.
LEMMA ExpressionPass ==
  ASSUME Encodable, IInv, TypeInv, QuietInv, NarrowInv, DecodeInv, stage = "prepared", ExpressionCheck
  PROVE  check' # "failed"
<1>1. PICK chosen, fails :
        /\ fails = (\E c \in Cols :
                      \/ rpn[c].op = "dictionary" /\ ~ HasDictionary(types[c], rpn[c].index)
                      \/ ~ IsDetermined(c) /\ ~ HasPool(types[c], IndexType(Len(cols[c].keys))))
        /\ Passed(fails, chosen, "spelled")
  BY Zenon DEF ExpressionCheck
<1>2. ASSUME NEW c \in Cols
      PROVE  /\ rpn[c].op = "dictionary" => HasDictionary(types[c], rpn[c].index)
             /\ HasPool(types[c], IndexType(Len(cols[c].keys)))
  <2>1. PICK i : i = IndexType(Len(cols[c].keys))
    OBVIOUS
  <2>2. i \in {"UINT8", "UINT16"} /\ (types[c] \in {"INT8", "FLOAT"} => i = "UINT8")
    BY <2>1, IndexIs
  <2>3. types[c] \in HasEquality
    BY DEF NarrowInv
  <2>4. HasDictionary(types[c], i) /\ HasPool(types[c], i)
    BY <2>2, <2>3, OperatorsThere
  <2>5. rpn[c].op = "dictionary" => rpn[c].index = i
    BY <2>1 DEF DecodeInv, Faithful
  <2>6. QED
    BY <2>1, <2>4, <2>5
<1>3. ~ fails
  BY <1>1, <1>2
<1>4. check' = "spelled"
  BY <1>1, <1>3, Zenon DEF Passed
<1>5. QED
  BY <1>4

\* In every file without harmful nulls whose rowgroups, types and FLOATs are within
\* what Encodable says, every pass finds an operator for every column it takes:
\* spelling a prepared table never throws.
THEOREM SpellingSucceeds ==
  ASSUME QuietNulls, Encodable
  PROVE  WizardSpec => []NoUnreachable
<1>1. WizardInit => NoUnreachable
  BY DEF WizardInit, NoUnreachable
<1>2. /\ IInv /\ TypeInv /\ QuietInv /\ NarrowInv /\ DecodeInv
      /\ NoUnreachable /\ [WizardNext]_wizardVars
      => NoUnreachable'
  <2> SUFFICES ASSUME IInv, TypeInv, QuietInv, NarrowInv, DecodeInv, NoUnreachable,
                      [WizardNext]_wizardVars
               PROVE  check' # "failed"
    BY DEF NoUnreachable
  <2>1. CASE Ingest \/ UNCHANGED wizardVars
    BY <2>1 DEF Ingest, wizardVars, NoUnreachable
  <2>2. CASE ConstantCheck
    <3>1. PICK chosen : Passed(FALSE, chosen, "equality_check")
      BY <2>2, Zenon DEF ConstantCheck
    <3>2. check' = "equality_check"
      BY <3>1, Zenon DEF Passed
    <3>3. QED
      BY <3>2
  <2>3. CASE EqualityCheck \/ NullCheck
    <3>1. stage = "prepared"
      BY <2>3 DEF EqualityCheck, NullCheck, DecodeInv
    <3>2. QED
      BY <2>3, <3>1, EarlyPass
  <2>4. CASE Map1t1Check
    <3>1. stage = "prepared"
      BY <2>4 DEF Map1t1Check, DecodeInv
    <3>2. QED
      BY <2>4, <3>1, MapPass
  <2>5. CASE ExpressionCheck
    <3>1. stage = "prepared"
      BY <2>5 DEF ExpressionCheck, DecodeInv
    <3>2. QED
      BY <2>5, <3>1, ExpressionPass
  <2>6. QED
    BY <2>1, <2>2, <2>3, <2>4, <2>5 DEF WizardNext
<1>3. IngestSpec => []IInv /\ []TypeInv /\ []QuietInv /\ []NarrowInv
  BY IInvAlways, TypeInvAlways, QuietAlways, NarrowAlways, PTL
<1>4. QED
  BY <1>1, <1>2, <1>3, WizardIngests, DecodeAlways, PTL DEF WizardSpec

=============================================================================
