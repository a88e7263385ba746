-------------------------- MODULE MCRowgroupEncoder --------------------------
(* A rowgroup of a flat column and of a struct column with one field, whose *)
(* segments are one block-based (a dictionary) and one written per vector.  *)
EXTENDS RowgroupEncoder

MCParent   == <<0, 0, 2>>
MCSegments == <<<<"vector">>, <<>>, <<"block", "vector">>>>

\* Vector segments end at 0, 3, 4, 6, 7 or 8: at, below and above both maxima.
MCSizes == [kind \in SegKinds |-> IF kind = "vector" THEN {0, 3, 4} ELSE {5}]

=============================================================================
