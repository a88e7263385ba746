----------------------------- MODULE VectorStore -----------------------------
(***************************************************************************)
(* What the write path promises a reader, without segments, buffers or     *)
(* offsets: a table is a sequence of rowgroups that only ever grows at its *)
(* end, and in rowgroup i every segment holds a sequence of vectors, each  *)
(* made of bytes that were handed over for that vector of that segment of  *)
(* that rowgroup and of no other.                                          *)
(***************************************************************************)
EXTENDS Integers, Sequences

CONSTANT Keys   \* the segments of a rowgroup, pairs of a column and a position

VARIABLE store

\* The bytes of vector v of segment k of rowgroup i.
IsBytesOf(b, i, k, v) ==
  \A j \in 1 .. Len(b) : b[j] = <<"data", i, k[1], k[2], v>>

Init == store = <<>>

\* A rowgroup becomes readable as a whole.
AddRowgroup ==
  LET i == Len(store) + 1
  IN  /\ Len(store') = i
      /\ \A j \in 1 .. i - 1 : store'[j] = store[j]
      /\ DOMAIN store'[i] = Keys
      /\ \A k \in Keys : \A v \in 1 .. Len(store'[i][k]) :
           IsBytesOf(store'[i][k][v], i, k, v)

Spec == Init /\ [][AddRowgroup]_store
=============================================================================
