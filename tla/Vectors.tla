-------------------------------- MODULE Vectors --------------------------------
(***************************************************************************)
(* What the kernels of the operators and of ALP have in common: how cells  *)
(* become the values of whole vectors, how vectors are cut out of a        *)
(* column, and how exceptions are kept apart and patched in.  Sequences    *)
(* are walked through by recursive functions, so that proofs can follow.   *)
(***************************************************************************)
EXTENDS Integers, Sequences, FiniteSetsExt

\* The elements of s that are in T, in order.
Kept(s, T) ==
  LET kept[n \in 0 .. Len(s)] ==
        IF n = 0 THEN <<>>
        ELSE IF s[n] \in T THEN Append(kept[n - 1], s[n]) ELSE kept[n - 1]
  IN  kept[Len(s)]

\* The sums of the first numbers of s.
Sums(s) ==
  LET sum[n \in 0 .. Len(s)] == IF n = 0 THEN 0 ELSE sum[n - 1] + s[n]
  IN  sum

\* Sequences one behind the other.
Joined(ss) ==
  LET joined[n \in 0 .. Len(ss)] == IF n = 0 THEN <<>> ELSE joined[n - 1] \o ss[n]
  IN  joined[Len(ss)]

\* The lengths of sequences.
LengthsOf(ss) == [l \in 1 .. Len(ss) |-> Len(ss[l])]

\* The value stored for row i: a null repeats the value before it, at first init.
StoredAt(rows, null, init, i) ==
  LET live == {j \in 1 .. i : rows[j] # null}
  IN  IF live = {} THEN init ELSE rows[Max(live)]

\* The values stored for the rows, the last vector of size values filled up
\* with the last one.
StoredAs(rows, null, init, size) ==
  [i \in 1 .. size * ((Len(rows) + size - 1) \div size) |->
     StoredAt(rows, null, init, IF i <= Len(rows) THEN i ELSE Len(rows))]

\* Vector v, from 0, of size values.
VectorOf(s, v, size) == [i \in 1 .. size |-> s[v * size + i]]

\* Values put at positions that count from 0, one after the other.
PatchedAt(s, pos, vals) ==
  [i \in DOMAIN s |->
     LET at == {k \in DOMAIN pos : pos[k] = i - 1}
     IN  IF at = {} THEN s[i] ELSE vals[Max(at)]]
=============================================================================
