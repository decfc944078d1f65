-------------------------------- MODULE Lists --------------------------------
(***************************************************************************)
(* Filtering and sorting a list, with the entries that stay as a set of    *)
(* indices and the order as a function, so that what is said about them is *)
(* first-order.                                                            *)
(***************************************************************************)
EXTENDS Integers, Sequences, FiniteSets

(* The entries of s at the indices in I, in their order.                   *)
Kept(s, I) ==
  LET kept[n \in 0..Len(s)] ==
        IF n = 0 THEN <<>>
        ELSE IF n \in I THEN Append(kept[n - 1], s[n]) ELSE kept[n - 1]
  IN kept[Len(s)]

(* The elements of DOMAIN before, each at the place that follows from how  *)
(* many come before it: before[x] is the set of those.                     *)
Arranged(before) ==
  LET places == {<<Cardinality(before[x]) + 1, x>> : x \in DOMAIN before}
  IN [k \in 1..Cardinality(DOMAIN before) |-> (CHOOSE p \in places : p[1] = k)[2]]
=============================================================================
