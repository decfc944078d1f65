-------------------------- MODULE CombinationsProofs --------------------------
(***************************************************************************)
(* What CombinationGenerator makes of any lists of matches: which          *)
(* combinations it finds, that the sort is one, and that of combinations   *)
(* that read the same the best one is presented.                           *)
(***************************************************************************)
EXTENDS Combinations, SequenceFacts

ScoresOf(combinations) ==
  IsSeq(combinations) /\ \A k \in 1..Len(combinations) : combinations[k].score \in Int

FinalsOf(matches) == IsSeq(matches) /\ \A k \in 1..Len(matches) : matches[k].final \in Int

-----------------------------------------------------------------------------
(* A list that is given by its entries.                                    *)
LEMMA GivenByEntries ==
  ASSUME NEW n \in Nat, NEW s, DOMAIN s = 1..n, s = [k \in 1..n |-> s[k]]
  PROVE  IsSeq(s) /\ Len(s) = n
<1>1. s \in Seq({s[k] : k \in 1..n}) /\ Len(s) = n
  <2>1. s \in [1..n -> {s[k] : k \in 1..n}]
        OBVIOUS
  <2>2. s \in Seq({s[k] : k \in 1..n})
        BY <2>1, SeqDef
  <2>3. QED
        BY <2>2, LenProperties
<1>2. QED
      BY <1>1 DEF IsSeq, Entries

(* ByScore is a sort.                                                      *)
LEMMA SortedByScore ==
  ASSUME NEW c, ScoresOf(c)
  PROVE  LET b == ByScore(c) IN
         /\ ScoresOf(b) /\ Entries(b) = Entries(c)
         /\ \A k, l \in 1..Len(b) : k < l => b[k].score >= b[l].score
<1> DEFINE D == 1..Len(c)
           Before(i) == {j \in DOMAIN c : \/ c[j].score > c[i].score
                                          \/ c[j].score = c[i].score /\ j < i}
           before == [i \in DOMAIN c |-> Before(i)]
           order == Arranged(before)
           b == ByScore(c)
<1>1. Len(c) \in Nat /\ DOMAIN c = D /\ \A k \in D : c[k].score \in Int
      BY AnySeq DEF ScoresOf
<1>2. /\ \A i \in D : before[i] = Before(i) /\ before[i] \subseteq D
      /\ \A i, j \in D : j \in before[i] <=> \/ c[j].score > c[i].score
                                             \/ c[j].score = c[i].score /\ j < i
      BY <1>1
<1> HIDE DEF before
<1>3. Orders(before, D)
  <2>1. D = DOMAIN before
        BY <1>1 DEF before
  <2>2. IsFiniteSet(D)
        BY <1>1, FS_Interval
  <2>3. \A x \in D : x \notin before[x]
        BY <1>1, <1>2
  <2>4. ASSUME NEW x \in D, NEW y \in D, x \in before[y] PROVE before[x] \subseteq before[y]
    <3>1. ASSUME NEW z \in before[x] PROVE z \in before[y]
      <4>1. z \in D
            BY <1>2, <3>1
      <4>2. /\ c[x].score > c[y].score \/ (c[x].score = c[y].score /\ x < y)
            /\ c[z].score > c[x].score \/ (c[z].score = c[x].score /\ z < x)
            BY <1>2, <2>4, <3>1, <4>1
      <4>3. c[x].score \in Int /\ c[y].score \in Int /\ c[z].score \in Int
            BY <1>1, <4>1
      <4>4. c[z].score > c[y].score \/ (c[z].score = c[y].score /\ z < y)
            BY <1>1, <4>1, <4>2, <4>3
      <4>5. QED
            BY <1>2, <4>1, <4>4
    <3>2. QED
          BY <3>1
  <2>5. ASSUME NEW x \in D, NEW y \in D, x # y PROVE x \in before[y] \/ y \in before[x]
    <3>1. c[x].score \in Int /\ c[y].score \in Int
          BY <1>1
    <3>2. \/ c[x].score > c[y].score \/ (c[x].score = c[y].score /\ x < y)
          \/ c[y].score > c[x].score \/ (c[y].score = c[x].score /\ y < x)
          BY <1>1, <2>5, <3>1
    <3>3. QED
          BY <1>2, <3>2
  <2>6. QED
        BY <1>2, <2>1, <2>2, <2>3, <2>4, <2>5 DEF Orders
<1>4. /\ order \in [1..Len(order) -> D] /\ IsSeq(order)
      /\ \A x \in D : \E k \in 1..Len(order) : order[k] = x
      /\ \A k, l \in 1..Len(order) : k < l => order[k] \in before[order[l]]
      BY <1>3, ArrangedInOrder
<1>5. b = [k \in DOMAIN order |-> c[order[k]]]
      BY DEF ByScore, before
<1> HIDE DEF b, order
<1>6. /\ DOMAIN b = 1..Len(order) /\ Len(order) \in Nat
      /\ \A k \in 1..Len(order) : b[k] = c[order[k]] /\ order[k] \in D
  <2>1. Len(order) \in Nat /\ DOMAIN order = 1..Len(order)
        BY <1>4, AnySeq
  <2>2. QED
        BY <1>4, <1>5, <2>1
<1>7. IsSeq(b) /\ Len(b) = Len(order)
      BY <1>5, <1>6, GivenByEntries
<1>8. Entries(b) = Entries(c)
  <2>1. Entries(b) \subseteq Entries(c)
        BY <1>6, <1>7 DEF Entries
  <2>2. Entries(c) \subseteq Entries(b)
    <3>1. ASSUME NEW i \in D PROVE \E k \in 1..Len(b) : b[k] = c[i]
          BY <1>4, <1>6, <1>7
    <3>2. QED
          BY <3>1 DEF Entries
  <2>3. QED
        BY <2>1, <2>2
<1>9. \A k \in 1..Len(b) : b[k].score \in Int
      BY <1>1, <1>6, <1>7
<1>10. ASSUME NEW k \in 1..Len(b), NEW l \in 1..Len(b), k < l PROVE b[k].score >= b[l].score
  <2>1. order[k] \in before[order[l]] /\ order[k] \in D /\ order[l] \in D
        BY <1>4, <1>6, <1>7, <1>10
  <2>2. \/ c[order[k]].score > c[order[l]].score
        \/ c[order[k]].score = c[order[l]].score
        BY <1>2, <2>1
  <2>3. c[order[k]].score \in Int /\ c[order[l]].score \in Int
        BY <1>1, <2>1
  <2>4. c[order[k]].score >= c[order[l]].score
        BY <2>2, <2>3
  <2>5. QED
        BY <1>6, <1>7, <2>4
<1>11. QED
       BY <1>7, <1>8, <1>9, <1>10 DEF b, ScoresOf

(* Deduplicate keeps the first of those that read the same, in order.      *)
LEMMA FirstOfTheSame ==
  ASSUME NEW c, IsSeq(c)
  PROVE  LET d == Deduplicate(c) IN
         /\ IsSeq(d) /\ Entries(d) \subseteq Entries(c)
         /\ \A i \in 1..Len(c) : \E j \in 1..i : c[j] \in Entries(d) /\ Same(c[i], c[j])
         /\ \A k, l \in 1..Len(d) : k < l =>
              /\ ~Same(d[k], d[l])
              /\ \E i, j \in 1..Len(c) : i < j /\ d[k] = c[i] /\ d[l] = c[j]
<1> DEFINE I == {i \in DOMAIN c : \A j \in 1..i - 1 : ~Same(c[i], c[j])}
           d == Deduplicate(c)
<1>1. Len(c) \in Nat /\ DOMAIN c = 1..Len(c)
      BY AnySeq
<1>2. I \cap (1..Len(c)) = I
      BY <1>1
<1>3. IsSeq(d) /\ Picks(d, c, I)
  <2>1. d = Kept(c, I)
        BY DEF Deduplicate
  <2> HIDE DEF I, d
  <2>2. QED
        BY <1>2, <2>1, KeptPicks
<1>4. PICK at \in [1..Len(d) -> I] :
        /\ \A k \in 1..Len(d) : d[k] = c[at[k]]
        /\ \A k, l \in 1..Len(d) : k < l => at[k] < at[l]
        /\ \A i \in I : \E k \in 1..Len(d) : at[k] = i
      BY <1>3 DEF Picks
<1> HIDE DEF d
<1>5. \A k \in 1..Len(d) : /\ at[k] \in 1..Len(c)
                           /\ \A j \in 1..at[k] - 1 : ~Same(c[at[k]], c[j])
      BY <1>1, <1>4
<1>6. Entries(d) \subseteq Entries(c)
      BY <1>4, <1>5 DEF Entries
<1>7. ASSUME NEW i \in 1..Len(c)
      PROVE  \E j \in 1..i : c[j] \in Entries(d) /\ Same(c[i], c[j])
  <2> DEFINE Alike == {j \in 1..i : Same(c[i], c[j])}
  <2>1. i \in Alike /\ Alike \subseteq Nat
        BY <1>1 DEF Same
  <2>2. PICK j \in Alike : \A k \in Alike : j <= k
    <3> HIDE DEF Alike
    <3>1. QED
          BY <2>1, LeastElement
  <2>3. j \in I
    <3>1. ASSUME NEW k \in 1..j - 1, Same(c[j], c[k]) PROVE FALSE
      <4>1. k \in 1..i /\ k < j
            BY <1>1, <2>2, <3>1
      <4>2. Same(c[i], c[k])
            BY <2>2, <3>1 DEF Same
      <4>3. QED
            BY <2>2, <4>1, <4>2
    <3>2. j \in DOMAIN c
          BY <1>1, <2>2
    <3>3. QED
          BY <3>1, <3>2
  <2>4. PICK k \in 1..Len(d) : at[k] = j
        BY <1>4, <2>3
  <2>5. c[j] \in Entries(d)
        BY <1>4, <2>4 DEF Entries
  <2>6. QED
        BY <2>2, <2>5
<1>8. ASSUME NEW k \in 1..Len(d), NEW l \in 1..Len(d), k < l
      PROVE  /\ ~Same(d[k], d[l])
             /\ \E i, j \in 1..Len(c) : i < j /\ d[k] = c[i] /\ d[l] = c[j]
  <2>1. at[k] < at[l] /\ at[k] \in 1..Len(c) /\ at[l] \in 1..Len(c)
        BY <1>4, <1>5, <1>8
  <2>2. at[k] \in 1..at[l] - 1
        BY <1>1, <2>1
  <2>3. ~Same(c[at[l]], c[at[k]])
        BY <1>5, <2>2
  <2>4. ~Same(d[k], d[l])
        BY <1>4, <2>3 DEF Same
  <2>5. QED
        BY <1>4, <2>1, <2>4
<1>9. QED
      BY <1>3, <1>6, <1>7, <1>8 DEF d

(* Of combinations that read the same the best one is presented, and the   *)
(* better ones come first.                                                 *)
LEMMA BestIsPresented ==
  ASSUME NEW c, ScoresOf(c)
  PROVE  LET p == Presented(c) IN
         /\ IsSeq(p) /\ Entries(p) \subseteq Entries(c)
         /\ \A x \in Entries(c) : \E y \in Entries(p) : Same(x, y) /\ y.score >= x.score
         /\ \A k, l \in 1..Len(p) : k < l => p[k].score >= p[l].score /\ ~Same(p[k], p[l])
<1> DEFINE b == ByScore(c)  p == Presented(c)
<1>1. /\ ScoresOf(b) /\ Entries(b) = Entries(c)
      /\ \A k, l \in 1..Len(b) : k < l => b[k].score >= b[l].score
      BY SortedByScore
<1> HIDE DEF b
<1>2. /\ IsSeq(p) /\ Entries(p) \subseteq Entries(b)
      /\ \A i \in 1..Len(b) : \E j \in 1..i : b[j] \in Entries(p) /\ Same(b[i], b[j])
      /\ \A k, l \in 1..Len(p) : k < l =>
           /\ ~Same(p[k], p[l])
           /\ \E i, j \in 1..Len(b) : i < j /\ p[k] = b[i] /\ p[l] = b[j]
  <2>1. p = Deduplicate(b)
        BY DEF Presented, b
  <2>2. IsSeq(b)
        BY <1>1 DEF ScoresOf
  <2> HIDE DEF p
  <2>3. QED
        BY <2>1, <2>2, FirstOfTheSame
<1> HIDE DEF p
<1>3. Len(b) \in Nat /\ \A k \in 1..Len(b) : b[k].score \in Int
      BY <1>1, AnySeq DEF ScoresOf
<1>4. ASSUME NEW x \in Entries(c) PROVE \E y \in Entries(p) : Same(x, y) /\ y.score >= x.score
  <2>1. PICK i \in 1..Len(b) : b[i] = x
        BY <1>1 DEF Entries
  <2>2. PICK j \in 1..i : b[j] \in Entries(p) /\ Same(b[i], b[j])
        BY <1>2
  <2>3. b[j].score >= b[i].score
    <3>1. j \in 1..Len(b) /\ (j < i \/ j = i)
          BY <1>3
    <3>2. b[j].score \in Int /\ b[i].score \in Int
          BY <1>3, <3>1
    <3>3. CASE j < i
          BY <1>1, <3>1, <3>3
    <3>4. CASE j = i
          BY <3>2, <3>4
    <3>5. QED
          BY <3>1, <3>3, <3>4
  <2>4. QED
        BY <2>1, <2>2, <2>3
<1>5. ASSUME NEW k \in 1..Len(p), NEW l \in 1..Len(p), k < l
      PROVE  p[k].score >= p[l].score /\ ~Same(p[k], p[l])
  <2>1. PICK i, j \in 1..Len(b) : i < j /\ p[k] = b[i] /\ p[l] = b[j]
        BY <1>2, <1>5
  <2>2. b[i].score >= b[j].score
        BY <1>1, <2>1
  <2>3. QED
        BY <1>2, <1>5, <2>1, <2>2
<1>6. QED
      BY <1>1, <1>2, <1>4, <1>5 DEF p

-----------------------------------------------------------------------------
(* The loops over two lists meet every pair of entries.                    *)
LEMMA EveryPairIsMet ==
  ASSUME NEW outer, IsSeq(outer), NEW inner, IsSeq(inner)
  PROVE  /\ IsSeq(Nested(outer, inner))
         /\ Entries(Nested(outer, inner)) = (1..Len(outer)) \X (1..Len(inner))
<1> DEFINE Row(o) == [i \in DOMAIN inner |-> <<o, i>>]
           rows == [o \in DOMAIN outer |-> Row(o)]
<1>1. /\ Len(outer) \in Nat /\ DOMAIN outer = 1..Len(outer)
      /\ Len(inner) \in Nat /\ DOMAIN inner = 1..Len(inner)
      BY AnySeq
<1>2. ASSUME NEW o \in 1..Len(outer)
      PROVE  IsSeq(rows[o]) /\ Entries(rows[o]) = {<<o, i>> : i \in 1..Len(inner)}
  <2>1. rows[o] = Row(o)
        BY <1>1
  <2>2. IsSeq(Row(o)) /\ Len(Row(o)) = Len(inner)
    <3>1. DOMAIN Row(o) = 1..Len(inner) /\ Row(o) = [k \in 1..Len(inner) |-> Row(o)[k]]
          BY <1>1
    <3> HIDE DEF Row
    <3>2. QED
          BY <1>1, <3>1, GivenByEntries
  <2>3. Entries(Row(o)) = {<<o, i>> : i \in 1..Len(inner)}
    <3>1. \A k \in 1..Len(inner) : Row(o)[k] = <<o, k>>
          BY <1>1
    <3> HIDE DEF Row
    <3>2. QED
          BY <2>2, <3>1 DEF Entries
  <2>4. QED
        BY <2>1, <2>2, <2>3
<1>3. IsSeq(rows) /\ Len(rows) = Len(outer)
  <2>1. DOMAIN rows = 1..Len(outer) /\ rows = [k \in 1..Len(outer) |-> rows[k]]
        BY <1>1
  <2> HIDE DEF rows
  <2>2. QED
        BY <1>1, <2>1, GivenByEntries
<1>4. Nested(outer, inner) = FlattenSeq(rows)
      BY DEF Nested
<1> HIDE DEF rows
<1>5. /\ IsSeq(FlattenSeq(rows))
      /\ Entries(FlattenSeq(rows)) = UNION {Entries(rows[o]) : o \in 1..Len(rows)}
      BY <1>2, <1>3, FlattenEntries
<1>6. UNION {Entries(rows[o]) : o \in 1..Len(outer)} = (1..Len(outer)) \X (1..Len(inner))
  <2>1. ASSUME NEW o \in 1..Len(outer) PROVE Entries(rows[o]) \subseteq (1..Len(outer)) \X (1..Len(inner))
        BY <1>2
  <2>2. ASSUME NEW o \in 1..Len(outer), NEW i \in 1..Len(inner) PROVE <<o, i>> \in Entries(rows[o])
        BY <1>2
  <2>3. QED
        BY <2>1, <2>2
<1>7. QED
      BY <1>3, <1>4, <1>5, <1>6

Fitting(c, t, suggested, force) == c.origin = t.origin /\ ~ShouldSkip(t, c, suggested, force)

Pair(c, t) == Combination(c, t, 10 * (c.final + t.final))

LEMMA PairsThatFit ==
  ASSUME NEW C, FinalsOf(C), NEW T, FinalsOf(T), NEW suggested, NEW force
  PROVE  LET m == MatchedPairs(C, T, suggested, force) IN
         /\ ScoresOf(m)
         /\ \A x \in Entries(m) : \E c \in Entries(C), t \in Entries(T) :
              Fitting(c, t, suggested, force) /\ x = Pair(c, t)
         /\ \A c \in Entries(C), t \in Entries(T) :
              Fitting(c, t, suggested, force) => Pair(c, t) \in Entries(m)
<1> DEFINE Fits(p) == /\ C[p[2]].origin = T[p[1]].origin
                      /\ ~ShouldSkip(T[p[1]], C[p[2]], suggested, force)
           nested == Nested(T, C)
           I == {n \in DOMAIN nested : Fits(nested[n])}
           pairs == Kept(nested, I)
           Of(p) == LET t == T[p[1]]  c == C[p[2]] IN Combination(c, t, 10 * (c.final + t.final))
           m == MatchedPairs(C, T, suggested, force)
<1>1. m = [k \in DOMAIN pairs |-> Of(pairs[k])]
      BY DEF MatchedPairs
<1>2. IsSeq(C) /\ IsSeq(T)
      BY DEF FinalsOf
<1>3. IsSeq(nested) /\ Entries(nested) = (1..Len(T)) \X (1..Len(C))
      BY <1>2, EveryPairIsMet
<1> HIDE DEF nested
<1>4. Len(nested) \in Nat /\ DOMAIN nested = 1..Len(nested)
      BY <1>3, AnySeq
<1>5. \A n \in 1..Len(nested) : nested[n] \in (1..Len(T)) \X (1..Len(C))
      BY <1>3 DEF Entries
<1>6. I \cap (1..Len(nested)) = I
      BY <1>4
<1>7. IsSeq(pairs) /\ Picks(pairs, nested, I)
  <2> HIDE DEF I
  <2>1. QED
        BY <1>3, <1>6, KeptPicks, SMTT(40)
<1>8. PICK at \in [1..Len(pairs) -> I] :
        /\ \A k \in 1..Len(pairs) : pairs[k] = nested[at[k]]
        /\ \A i \in I : \E k \in 1..Len(pairs) : at[k] = i
      BY <1>7 DEF Picks
<1> HIDE DEF pairs, m
<1>9. Len(pairs) \in Nat /\ DOMAIN pairs = 1..Len(pairs)
      BY <1>7, AnySeq
<1>10. ASSUME NEW k \in 1..Len(pairs)
       PROVE  pairs[k] \in (1..Len(T)) \X (1..Len(C)) /\ Fits(pairs[k])
  <2>1. at[k] \in I /\ pairs[k] = nested[at[k]]
        BY <1>8
  <2>2. at[k] \in 1..Len(nested) /\ Fits(nested[at[k]])
        BY <1>4, <2>1
  <2>3. QED
        BY <1>5, <2>1, <2>2
<1>11. IsSeq(m) /\ Len(m) = Len(pairs) /\ \A k \in 1..Len(pairs) : m[k] = Of(pairs[k])
  <2> HIDE DEF Of
  <2>1. /\ DOMAIN m = 1..Len(pairs) /\ m = [k \in 1..Len(pairs) |-> m[k]]
        /\ \A k \in 1..Len(pairs) : m[k] = Of(pairs[k])
        BY <1>1, <1>9
  <2>2. QED
        BY <1>9, <2>1, GivenByEntries
<1>12. ASSUME NEW i \in 1..Len(T), NEW j \in 1..Len(C)
       PROVE  /\ Of(<<i, j>>) = Pair(C[j], T[i]) /\ Of(<<i, j>>).score \in Int
              /\ Fits(<<i, j>>) <=> Fitting(C[j], T[i], suggested, force)
  <2>1. Of(<<i, j>>) = Pair(C[j], T[i])
        BY DEF Pair
  <2>2. C[j].final \in Int /\ T[i].final \in Int
        BY DEF FinalsOf
  <2>3. Pair(C[j], T[i]).score \in Int
        BY <2>2 DEF Pair, Combination
  <2>4. Fits(<<i, j>>) <=> Fitting(C[j], T[i], suggested, force)
        BY DEF Fitting
  <2>5. QED
        BY <2>1, <2>3, <2>4
<1>13. ASSUME NEW k \in 1..Len(m)
       PROVE  /\ m[k].score \in Int
              /\ \E c \in Entries(C), t \in Entries(T) :
                   Fitting(c, t, suggested, force) /\ m[k] = Pair(c, t)
  <2>1. PICK i \in 1..Len(T), j \in 1..Len(C) : pairs[k] = <<i, j>>
    <3>1. pairs[k] \in (1..Len(T)) \X (1..Len(C))
          BY <1>10, <1>11
    <3> HIDE DEF Fits, Of, I
    <3>2. QED
          BY <3>1
  <2>2. Fits(<<i, j>>) /\ m[k] = Of(<<i, j>>)
        BY <1>10, <1>11, <2>1
  <2> HIDE DEF Fits, Of
  <2>3. m[k] = Pair(C[j], T[i]) /\ Fitting(C[j], T[i], suggested, force) /\ m[k].score \in Int
        BY <1>12, <2>2
  <2>4. C[j] \in Entries(C) /\ T[i] \in Entries(T)
        BY DEF Entries
  <2>5. QED
        BY <2>3, <2>4
<1>14. ASSUME NEW c \in Entries(C), NEW t \in Entries(T), Fitting(c, t, suggested, force)
       PROVE  Pair(c, t) \in Entries(m)
  <2>1. PICK i \in 1..Len(T) : T[i] = t
        BY DEF Entries
  <2>2. PICK j \in 1..Len(C) : C[j] = c
        BY DEF Entries
  <2>3. Fits(<<i, j>>) /\ Of(<<i, j>>) = Pair(c, t)
    <3> HIDE DEF Fits, Of
    <3>1. QED
          BY <1>12, <1>14, <2>1, <2>2
  <2>4. <<i, j>> \in Entries(nested)
        BY <1>3
  <2>5. PICK n \in 1..Len(nested) : nested[n] = <<i, j>>
        BY <2>4 DEF Entries
  <2>6. n \in I
    <3> HIDE DEF Fits
    <3>1. QED
          BY <1>4, <2>3, <2>5
  <2>7. PICK k \in 1..Len(pairs) : at[k] = n
        BY <1>8, <2>6
  <2> HIDE DEF Of, I
  <2>8. m[k] = Pair(c, t) /\ k \in 1..Len(m)
        BY <1>8, <1>11, <2>3, <2>5, <2>7
  <2>9. QED
        BY <2>8 DEF Entries
<1>15. QED
       BY <1>11, <1>13, <1>14 DEF ScoresOf, Entries, m

LEMMA SoloScores ==
  /\ \A c, noTown : c.final \in Int => SoloCountry(c, noTown).score \in Int
  /\ \A t, noCountry : t.final \in Int => SoloTown(t, noCountry).score \in Int
<1>1. \A flags, flag : \A points \in Int : Worth(flags, flag, points) \in Int
      BY DEF Worth
<1>2. ASSUME NEW c, NEW noTown, c.final \in Int PROVE SoloCountry(c, noTown).score \in Int
  <2> DEFINE a == Worth(c.flags, "TOWN_IS_PRESENT", 20)
             b == Worth(c.flags, "IS_VERY_CLOSE_TO_TOWN", 20)
             d == Worth(c.flags, "IS_ON_SAME_LINE_AS_TOWN", 10)
  <2>1. a \in Int /\ b \in Int /\ d \in Int
        BY <1>1
  <2> HIDE DEF a, b, d
  <2>2. SoloCountry(c, noTown).score = 10 * (c.final + 15) - 7 * (a + b + d)
        BY DEF SoloCountry, Combination, MinimalScore, a, b, d
  <2>3. QED
        BY <1>2, <2>1, <2>2
<1>3. ASSUME NEW t, NEW noCountry, t.final \in Int PROVE SoloTown(t, noCountry).score \in Int
  <2> DEFINE a == Worth(t.flags, "COUNTRY_IS_PRESENT", 15)
             b == Worth(t.flags, "SUGGESTED_COUNTRY_IS_PRESENT", 65)
             d == Worth(t.flags, "IS_VERY_CLOSE_TO_COUNTRY", 30)
             e == Worth(t.flags, "IS_ON_SAME_LINE_AS_COUNTRY", 15)
  <2>1. a \in Int /\ b \in Int /\ d \in Int /\ e \in Int
        BY <1>1
  <2> HIDE DEF a, b, d, e
  <2>2. SoloTown(t, noCountry).score = 10 * (15 + t.final) - (a + b + d + e)
        BY DEF SoloTown, Combination, MinimalScore, a, b, d, e
  <2>3. QED
        BY <1>3, <2>1, <2>2
<1>4. QED
      BY <1>2, <1>3

Skipped(c, suggested, force) == Forced(suggested, force) /\ c.origin # suggested

LEMMA CountriesAlone ==
  ASSUME NEW C, FinalsOf(C), NEW noTown, NEW suggested, NEW force
  PROVE  LET m == SoloCountries(C, noTown, suggested, force) IN
         /\ ScoresOf(m)
         /\ \A x \in Entries(m) : \E c \in Entries(C) :
              ~Skipped(c, suggested, force) /\ x = SoloCountry(c, noTown)
         /\ \A c \in Entries(C) :
              ~Skipped(c, suggested, force) => SoloCountry(c, noTown) \in Entries(m)
<1> DEFINE skipped == {k \in DOMAIN C : Forced(suggested, force) /\ C[k].origin # suggested}
           I == DOMAIN C \ skipped
           solo == Kept(C, I)
           m == SoloCountries(C, noTown, suggested, force)
<1>1. m = [k \in DOMAIN solo |-> SoloCountry(solo[k], noTown)]
      BY DEF SoloCountries
<1>2. IsSeq(C) /\ Len(C) \in Nat /\ DOMAIN C = 1..Len(C)
      BY AnySeq DEF FinalsOf
<1>3. \A k : k \in I <=> k \in 1..Len(C) /\ ~Skipped(C[k], suggested, force)
      BY <1>2 DEF Skipped
<1>4. IsSeq(solo) /\ Picks(solo, C, I)
  <2>1. I \cap (1..Len(C)) = I
        BY <1>2
  <2> HIDE DEF I
  <2>2. QED
        BY <1>2, <2>1, KeptPicks
<1> HIDE DEF I, m
<1>5. PICK at \in [1..Len(solo) -> I] :
        /\ \A k \in 1..Len(solo) : solo[k] = C[at[k]]
        /\ \A i \in I : \E k \in 1..Len(solo) : at[k] = i
      BY <1>4 DEF Picks
<1> HIDE DEF solo
<1>6. Len(solo) \in Nat /\ DOMAIN solo = 1..Len(solo)
      BY <1>4, AnySeq
<1>7. IsSeq(m) /\ Len(m) = Len(solo) /\ \A k \in 1..Len(solo) : m[k] = SoloCountry(solo[k], noTown)
  <2>1. /\ DOMAIN m = 1..Len(solo) /\ m = [k \in 1..Len(solo) |-> m[k]]
        /\ \A k \in 1..Len(solo) : m[k] = SoloCountry(solo[k], noTown)
        BY <1>1, <1>6
  <2>2. QED
        BY <1>6, <2>1, GivenByEntries
<1>8. ASSUME NEW k \in 1..Len(m)
      PROVE  /\ m[k].score \in Int
             /\ \E c \in Entries(C) : ~Skipped(c, suggested, force) /\ m[k] = SoloCountry(c, noTown)
  <2>1. at[k] \in I /\ m[k] = SoloCountry(C[at[k]], noTown)
        BY <1>5, <1>7
  <2>2. at[k] \in 1..Len(C) /\ ~Skipped(C[at[k]], suggested, force)
        BY <1>3, <2>1
  <2>3. C[at[k]] \in Entries(C) /\ C[at[k]].final \in Int
        BY <2>2 DEF FinalsOf, Entries
  <2>4. m[k].score \in Int
        BY <2>1, <2>3, SoloScores
  <2>5. QED
        BY <2>1, <2>2, <2>3, <2>4
<1>9. ASSUME NEW c \in Entries(C), ~Skipped(c, suggested, force)
      PROVE  SoloCountry(c, noTown) \in Entries(m)
  <2>1. PICK i \in 1..Len(C) : C[i] = c
        BY DEF Entries
  <2>2. i \in I
        BY <1>3, <1>9, <2>1
  <2>3. PICK k \in 1..Len(solo) : at[k] = i
        BY <1>5, <2>2
  <2>4. k \in 1..Len(m) /\ m[k] = SoloCountry(c, noTown)
        BY <1>5, <1>7, <2>1, <2>3
  <2>5. QED
        BY <2>4 DEF Entries
<1>10. QED
       BY <1>7, <1>8, <1>9 DEF ScoresOf, Entries, m

LEMMA TownsAlone ==
  ASSUME NEW T, FinalsOf(T), NEW noCountry, NEW suggested, NEW force
  PROVE  LET m == SoloTowns(T, noCountry, suggested, force)
             off == Forced(suggested, force) /\ suggested # "NO COUNTRY"
         IN /\ ScoresOf(m)
            /\ \A x \in Entries(m) : ~off /\ \E t \in Entries(T) : x = SoloTown(t, noCountry)
            /\ ~off => \A t \in Entries(T) : SoloTown(t, noCountry) \in Entries(m)
<1> DEFINE off == Forced(suggested, force) /\ suggested # "NO COUNTRY"
           m == SoloTowns(T, noCountry, suggested, force)
<1>1. IsSeq(T) /\ Len(T) \in Nat /\ DOMAIN T = 1..Len(T)
      BY AnySeq DEF FinalsOf
<1>2. CASE off
  <2>1. m = <<>>
        BY <1>2 DEF SoloTowns
  <2>2. IsSeq(m) /\ Len(m) = 0
        BY <2>1, AnyEmpty
  <2>3. Entries(m) = {} /\ ScoresOf(m)
        BY <2>2 DEF Entries, ScoresOf
  <2>4. QED
        BY <1>2, <2>3
<1>3. CASE ~off
  <2>1. m = [k \in DOMAIN T |-> SoloTown(T[k], noCountry)]
        BY <1>3 DEF SoloTowns
  <2> HIDE DEF m
  <2>2. /\ DOMAIN m = 1..Len(T) /\ m = [k \in 1..Len(T) |-> m[k]]
        /\ \A k \in 1..Len(T) : m[k] = SoloTown(T[k], noCountry)
        BY <1>1, <2>1
  <2>3. IsSeq(m) /\ Len(m) = Len(T)
        BY <1>1, <2>2, GivenByEntries
  <2>4. \A k \in 1..Len(m) : m[k].score \in Int
        BY <2>2, <2>3, SoloScores DEF FinalsOf
  <2>5. Entries(m) = {SoloTown(T[k], noCountry) : k \in 1..Len(T)}
        BY <2>2, <2>3 DEF Entries
  <2>6. QED
        BY <1>3, <2>3, <2>4, <2>5 DEF ScoresOf, Entries, m
<1>4. QED
      BY <1>2, <1>3

-----------------------------------------------------------------------------
(***************************************************************************)
(* The combinations before they are sorted, and what is presented of them. *)
(***************************************************************************)
Found(x, C, T, noCountry, noTown, suggested, force) ==
  \/ \E c \in Entries(C), t \in Entries(T) : Fitting(c, t, suggested, force) /\ x = Pair(c, t)
  \/ \E c \in Entries(C) : ~Skipped(c, suggested, force) /\ x = SoloCountry(c, noTown)
  \/ /\ ~(Forced(suggested, force) /\ suggested # "NO COUNTRY")
     /\ \E t \in Entries(T) : x = SoloTown(t, noCountry)

LEMMA WhatIsGenerated ==
  ASSUME NEW C, FinalsOf(C), NEW T, FinalsOf(T), NEW noCountry, NEW noTown, NEW suggested, NEW force
  PROVE  LET a == GenerateCombinations(C, T, noCountry, noTown, suggested, force)
             default == Combination(noCountry, noTown, 20 * MinimalScore)
             Found0(x) == Found(x, C, T, noCountry, noTown, suggested, force)
         IN /\ IsSeq(a) /\ a # <<>>
            /\ \A x \in Entries(a) : Found0(x) \/ (x = default /\ ~\E y : Found0(y))
            /\ \A x : Found0(x) => \E y \in Entries(a) : Same(x, y) /\ y.score >= x.score
            /\ \A k, l \in 1..Len(a) : k < l => a[k].score >= a[l].score /\ ~Same(a[k], a[l])
<1> DEFINE a == GenerateCombinations(C, T, noCountry, noTown, suggested, force)
           default == Combination(noCountry, noTown, 20 * MinimalScore)
           Found0(x) == Found(x, C, T, noCountry, noTown, suggested, force)
           m1 == MatchedPairs(C, T, suggested, force)
           m2 == SoloCountries(C, noTown, suggested, force)
           m3 == SoloTowns(T, noCountry, suggested, force)
           found == m1 \o m2 \o m3
           list == IF found # <<>> THEN found ELSE <<default>>
<1>1. /\ ScoresOf(m1)
      /\ \A x : x \in Entries(m1) <=> \E c \in Entries(C), t \in Entries(T) :
                                        Fitting(c, t, suggested, force) /\ x = Pair(c, t)
      BY PairsThatFit
<1>2. /\ ScoresOf(m2)
      /\ \A x : x \in Entries(m2) <=> \E c \in Entries(C) :
                                        ~Skipped(c, suggested, force) /\ x = SoloCountry(c, noTown)
      BY CountriesAlone
<1>3. /\ ScoresOf(m3)
      /\ \A x : x \in Entries(m3) <=> /\ ~(Forced(suggested, force) /\ suggested # "NO COUNTRY")
                                      /\ \E t \in Entries(T) : x = SoloTown(t, noCountry)
  <2> DEFINE off == Forced(suggested, force) /\ suggested # "NO COUNTRY"
  <2>1. /\ ScoresOf(m3)
        /\ \A x \in Entries(m3) : ~off /\ \E t \in Entries(T) : x = SoloTown(t, noCountry)
        /\ ~off => \A t \in Entries(T) : SoloTown(t, noCountry) \in Entries(m3)
        BY TownsAlone
  <2> HIDE DEF m3, off
  <2>2. \A x : x \in Entries(m3) <=> ~off /\ \E t \in Entries(T) : x = SoloTown(t, noCountry)
        BY <2>1
  <2>3. QED
        BY <2>1, <2>2 DEF off
<1>4. a = Presented(list)
      BY DEF GenerateCombinations
<1> HIDE DEF m1, m2, m3
<1>5. IsSeq(found) /\ Entries(found) = Entries(m1) \cup Entries(m2) \cup Entries(m3)
  <2>1. IsSeq(m1 \o m2) /\ Entries(m1 \o m2) = Entries(m1) \cup Entries(m2)
        BY <1>1, <1>2, AnyConcat DEF ScoresOf
  <2>2. IsSeq(m3)
        BY <1>3 DEF ScoresOf
  <2>3. QED
        BY <2>1, <2>2, AnyConcat
<1>6. \A x : x \in Entries(found) <=> Found0(x)
      BY <1>1, <1>2, <1>3, <1>5 DEF Found
<1>7. \A x \in Entries(found) : x.score \in Int
  <2>1. \A m : ScoresOf(m) => \A x \in Entries(m) : x.score \in Int
        BY DEF ScoresOf, Entries
  <2>2. QED
        BY <1>1, <1>2, <1>3, <1>5, <2>1
<1> HIDE DEF found, default, Found0, a
<1>8. /\ ScoresOf(list) /\ Entries(list) # {}
      /\ \A x : Found0(x) => x \in Entries(list)
      /\ \A x \in Entries(list) : Found0(x) \/ (x = default /\ ~\E y : Found0(y))
  <2>1. CASE found # <<>>
    <3>1. list = found /\ Len(found) \in Nat /\ Len(found) # 0
          BY <1>5, <2>1, AnySeq
    <3>2. ScoresOf(found)
          BY <1>5, <1>7 DEF ScoresOf, Entries
    <3>3. found[1] \in Entries(found)
          BY <3>1 DEF Entries
    <3> HIDE DEF list
    <3>4. QED
          BY <1>6, <3>1, <3>2, <3>3
  <2>2. CASE found = <<>>
    <3>1. list = <<default>> /\ Entries(found) = {}
          BY <2>2, AnyEmpty DEF Entries
    <3>2. ~\E y : Found0(y)
          BY <1>6, <3>1
    <3>3. IsSeq(<<default>>) /\ Len(<<default>>) = 1 /\ <<default>>[1] = default
      <4>1. DOMAIN <<default>> = 1..1 /\ <<default>> = [k \in 1..1 |-> <<default>>[k]]
            OBVIOUS
      <4>2. QED
            BY <4>1, GivenByEntries
    <3>4. Entries(<<default>>) = {default}
          BY <3>3 DEF Entries
    <3>5. default.score \in Int
          BY DEF default, Combination, MinimalScore
    <3>6. ScoresOf(<<default>>)
          BY <3>3, <3>5 DEF ScoresOf
    <3> HIDE DEF list
    <3>7. QED
          BY <3>1, <3>2, <3>4, <3>6
  <2>3. QED
        BY <2>1, <2>2
<1> HIDE DEF list
<1>9. /\ IsSeq(a) /\ Entries(a) \subseteq Entries(list)
      /\ \A x \in Entries(list) : \E y \in Entries(a) : Same(x, y) /\ y.score >= x.score
      /\ \A k, l \in 1..Len(a) : k < l => a[k].score >= a[l].score /\ ~Same(a[k], a[l])
      BY <1>4, <1>8, BestIsPresented
<1>10. a # <<>>
  <2>1. PICK x \in Entries(a) : TRUE
        BY <1>8, <1>9
  <2>2. QED
        BY <2>1, AnyEmpty DEF Entries
<1>11. /\ \A x \in Entries(a) : Found0(x) \/ (x = default /\ ~\E y : Found0(y))
       /\ \A x : Found0(x) => \E y \in Entries(a) : Same(x, y) /\ y.score >= x.score
       BY <1>8, <1>9
<1>12. QED
       BY <1>9, <1>10, <1>11 DEF a, default, Found0
=============================================================================
