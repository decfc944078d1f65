------------------------- MODULE TransformerCrfProofs -------------------------
(***************************************************************************)
(* Decoding, weighing and grouping, for every set of tags, every model and *)
(* every length: the decoded tags are a best path; the marginals and the   *)
(* normaliser are sums over all paths, and so are the confidences; and the *)
(* spans made of any tags tile the text and follow them.                   *)
(***************************************************************************)
EXTENDS TransformerCrf, SequenceFacts

(* An empty text is decoded to tags it has no characters for.              *)
EveryTextHasCharacters == \A s \in Sentences : s.length > 0

-----------------------------------------------------------------------------
(***************************************************************************)
(* Maxima.                                                                 *)
(***************************************************************************)

(* Of finitely many numbers one is the largest: the one with the most      *)
(* numbers below it.                                                       *)
LEMMA OneIsLargest ==
  ASSUME NEW T, IsFiniteSet(T), T # {}, NEW f, \A t \in T : f[t] \in Int
  PROVE  \E t \in T : \A u \in T : f[t] >= f[u]
<1> DEFINE Below(t) == {u \in T : f[u] < f[t]}
           N == Cardinality(T)
           Ranks == {n \in 0..N : \E t \in T : n = N - Cardinality(Below(t))}
<1>1. N \in Nat
      BY FS_CardinalityType
<1>2. \A t \in T : IsFiniteSet(Below(t)) /\ Cardinality(Below(t)) \in 0..N
  <2>1. \A t \in T : Below(t) \in SUBSET T
        OBVIOUS
  <2> HIDE DEF Below
  <2>2. \A t \in T : IsFiniteSet(Below(t)) /\ Cardinality(Below(t)) <= N
        BY <2>1, FS_Subset
  <2>3. QED
        BY <1>1, <2>2, FS_CardinalityType
<1>3. \A t \in T : N - Cardinality(Below(t)) \in Ranks
  <2> HIDE DEF Below, N
  <2>1. \A t \in T : N - Cardinality(Below(t)) \in 0..N
        BY <1>1, <1>2
  <2>2. QED
        BY <2>1
<1>4. Ranks \subseteq Nat /\ Ranks # {}
  <2> HIDE DEF Below, N
  <2>1. 0..N \subseteq Nat
        BY <1>1
  <2>2. Ranks \subseteq 0..N
        OBVIOUS
  <2> HIDE DEF Ranks
  <2>3. QED
        BY <1>3, <2>1, <2>2
<1>5. PICK c \in Ranks : \A k \in Ranks : c <= k
  <2> HIDE DEF Ranks
  <2>1. QED
        BY <1>4, LeastElement
<1>6. PICK t \in T : c = N - Cardinality(Below(t))
      OBVIOUS
<1>7. ASSUME NEW u \in T, ~(f[t] >= f[u]) PROVE FALSE
  <2>1. Below(t) \in SUBSET Below(u) /\ t \in Below(u) /\ t \notin Below(t)
        BY <1>7
  <2> HIDE DEF Below, N
  <2>2. /\ Cardinality(Below(t)) <= Cardinality(Below(u))
        /\ Cardinality(Below(u)) # Cardinality(Below(t))
        BY <1>2, <2>1, FS_Subset
  <2>3. N - Cardinality(Below(u)) >= c
        BY <1>3, <1>5
  <2>4. QED
        BY <1>1, <1>2, <1>6, <2>2, <2>3
<1>8. QED
      BY <1>7

LEMMA BestIsBest ==
  ASSUME NEW f, \A t \in BioTags : f[t] \in Int
  PROVE  BestOf(f) \in BioTags /\ \A u \in BioTags : f[BestOf(f)] >= f[u]
<1>1. \E t \in BioTags : \A u \in BioTags : f[t] >= f[u]
      BY OneIsLargest, SentencesAssumption
<1>2. QED
      BY <1>1 DEF BestOf

LEMMA MoreTimes ==
  ASSUME NEW a \in Nat, NEW b \in Nat, NEW c \in Nat, a <= b
  PROVE  a * c <= b * c
  BY SMT

LEMMA Products == ASSUME NEW a \in Nat, NEW b \in Nat PROVE a * b \in Nat
  BY SMT

LEMMA TransitionType ==
  ASSUME NEW m, IsModel(m), NEW t \in BioTags, NEW u \in BioTags
  PROVE  Transition(m, t, u) \in Nat
<1>1. m.transitions[t][u] \in Nat /\ m.transitions2[t][u] \in Nat
      BY DEF IsModel
<1>2. QED
      BY <1>1, Products DEF Transition

(* What the scores v of the tags contribute to the tag u.                  *)
Into(m, v, u) == [t \in BioTags |-> v[t] * Transition(m, t, u)]

(* The score of a path to u with t before it, at the position i.           *)
Worth(m, v, i, t, u) == v[t] * Transition(m, t, u) * m.emissions[i][u]

(* The score of a tag is that of its best predecessor, as the history has  *)
(* it.                                                                     *)
LEMMA BestPredecessor ==
  ASSUME NEW m, IsModel(m), NEW v \in [BioTags -> Nat], NEW i \in Positions, NEW u \in BioTags,
         NEW best, best = BestOf(Into(m, v, u)),
         NEW top, top = Max(Extended(m, i, v, u))
  PROVE  /\ best \in BioTags /\ top \in Nat
         /\ top = Worth(m, v, i, best, u)
         /\ \A t \in BioTags : Worth(m, v, i, t, u) <= top
<1> DEFINE w == [t \in BioTags |-> v[t] * Transition(m, t, u)]
           e == m.emissions[i][u]
           E == Extended(m, i, v, u)
<1>1. \A t \in BioTags : w[t] \in Nat
  <2>1. ASSUME NEW t \in BioTags PROVE v[t] * Transition(m, t, u) \in Nat
        BY TransitionType, Products
  <2>2. QED
        BY <2>1
<1>2. e \in Nat
      BY DEF IsModel
<1>3. E = {w[t] * e : t \in BioTags}
      BY DEF Extended
<1>4. /\ \A t \in BioTags : w[t] = v[t] * Transition(m, t, u)
      /\ best = BestOf(w) /\ top = Max(E)
      BY DEF Into
<1> HIDE DEF w, e, E
<1>5. best \in BioTags /\ \A t \in BioTags : w[best] >= w[t]
      BY <1>1, <1>4, BestIsBest
<1>6. \A t \in BioTags : w[t] * e \in Nat /\ w[t] * e <= w[best] * e
  <2>1. ASSUME NEW t \in BioTags PROVE w[t] * e \in Nat /\ w[t] * e <= w[best] * e
    <3>1. w[t] \in Nat /\ w[best] \in Nat /\ w[t] <= w[best]
          BY <1>1, <1>5
    <3>2. QED
          BY <1>2, <3>1, MoreTimes, Products
  <2>2. QED
        BY <2>1
<1>7. Max(E) = w[best] * e
  <2>1. w[best] * e \in E /\ \A y \in E : y \in Nat /\ y <= w[best] * e
        BY <1>3, <1>5, <1>6
  <2>2. Max(E) \in E /\ \A y \in E : Max(E) >= y
    <3>1. \E x \in E : \A y \in E : x >= y
          BY <2>1
    <3>2. QED
          BY <3>1 DEF Max
  <2>3. Max(E) \in Nat /\ Max(E) <= w[best] * e /\ Max(E) >= w[best] * e
        BY <2>1, <2>2
  <2>4. w[best] * e \in Nat
        BY <2>1
  <2>5. ASSUME NEW x \in Nat, NEW y \in Nat, x <= y, x >= y PROVE x = y
        BY <2>5
  <2>6. QED
        BY <2>3, <2>4, <2>5
<1>8. QED
      BY <1>4, <1>5, <1>6, <1>7 DEF e, Worth

-----------------------------------------------------------------------------
(***************************************************************************)
(* What viterbi_decode computes.                                           *)
(***************************************************************************)
LEMMA ScoresOfTags ==
  ASSUME NEW m, IsModel(m), NEW n \in 0..SeqLen, NEW s, s = Scores(m, n)
  PROVE  /\ s \in [Positions -> [BioTags -> Nat]] /\ s[0] = First(m)
         /\ \A i \in 1..SeqLen - 1 : i < n =>
              \A u \in BioTags : s[i][u] = Max(Extended(m, i, s[i - 1], u))
         /\ \A i \in 1..SeqLen - 1 : i >= n => s[i] = s[i - 1]
<1> DEFINE N == SeqLen - 1
           S == [BioTags -> Nat]
           Next1(i, v) == IF i < n THEN [u \in BioTags |-> Max(Extended(m, i, v, u))] ELSE v
           Body(f, i) == IF i = 0 THEN First(m)
                         ELSE IF i < n THEN [u \in BioTags |-> Max(Extended(m, i, f[i - 1], u))]
                         ELSE f[i - 1]
           Loop(f) == f = [i \in Positions |-> Body(f, i)]
           step == [p \in (1..N) \X S |-> Next1(p[1], p[2])]
<1>1. N \in Nat /\ Positions = 0..N /\ N = SeqLen - 1
      BY SeqLenAssumption DEF Positions
<1>2. First(m) \in S
  <2>1. ASSUME NEW t \in BioTags PROVE m.start[t] * m.emissions[0][t] \in Nat
    <3>1. 0 \in Positions
          BY <1>1
    <3>2. m.start[t] \in Nat /\ m.emissions[0][t] \in Nat
          BY <3>1 DEF IsModel
    <3>3. QED
          BY <3>2, Products
  <2>2. QED
        BY <2>1 DEF First
<1>3. ASSUME NEW i \in 1..N, NEW v \in S PROVE Next1(i, v) \in S
  <2>1. i \in Positions
        BY <1>1
  <2>2. \A u \in BioTags : Max(Extended(m, i, v, u)) \in Nat
        BY <2>1, BestPredecessor
  <2> HIDE DEF N
  <2>3. QED
        BY <2>2
<1>4. \E f : f \in [0..N -> S] /\ Loop(f)
  <2>1. step \in [(1..N) \X S -> S] /\ \A i \in 1..N, v \in S : step[<<i, v>>] = Next1(i, v)
    <3> HIDE DEF Next1, N, S
    <3>1. QED
          BY <1>3
  <2> HIDE DEF step
  <2>2. PICK f \in [0..N -> S] : f[0] = First(m) /\ \A i \in 1..N : f[i] = step[<<i, f[i - 1]>>]
    <3> HIDE DEF N, S
    <3>1. \E f : Solves(f, S, First(m), N, step)
          BY <1>1, <1>2, <2>1, Recursion
    <3>2. QED
          BY <3>1 DEF Solves
  <2>3. ASSUME NEW i \in 0..N PROVE f[i] = Body(f, i)
    <3> HIDE DEF N, S
    <3>1. CASE i = 0
          BY <2>2, <3>1
    <3>2. CASE i \in 1..N
      <4>1. i - 1 \in 0..N /\ f[i - 1] \in S /\ i # 0
            BY <1>1, <3>2
      <4>2. f[i] = Next1(i, f[i - 1])
            BY <2>1, <2>2, <3>2, <4>1
      <4>3. QED
            BY <4>1, <4>2
    <3>3. QED
          BY <1>1, <3>1, <3>2
  <2>4. f = [i \in 0..N |-> f[i]]
        OBVIOUS
  <2> HIDE DEF Body, N, S
  <2>5. Loop(f)
        BY <1>1, <2>3, <2>4
  <2>6. QED
        BY <2>5
<1>5. ASSUME NEW f, Loop(f)
      PROVE  /\ f = [i \in Positions |-> Body(f, i)] /\ f[0] = First(m)
             /\ \A i \in 1..N : f[i] = Next1(i, f[i - 1])
  <2>1. f = [i \in Positions |-> Body(f, i)]
    <3> HIDE DEF Body
    <3>1. QED
          BY <1>5
  <2>2. \A i \in 0..N : f[i] = Body(f, i)
    <3> HIDE DEF Body, N
    <3>1. QED
          BY <1>1, <2>1
  <2>3. 0 \in 0..N /\ \A i \in 1..N : i \in 0..N /\ i # 0
        BY <1>1
  <2>4. QED
        BY <2>1, <2>2, <2>3
<1>6. ASSUME NEW f, Loop(f) PROVE f \in [0..N -> S]
  <2> DEFINE Wrong == {i \in 0..N : f[i] \notin S}
  <2>1. ASSUME NEW i \in Wrong, \A k \in Wrong : i <= k PROVE FALSE
    <3> HIDE DEF S, Next1, N
    <3>1. i # 0
          BY <1>2, <1>5, <1>6, <2>1
    <3>2. i \in 1..N /\ i - 1 \in 0..N /\ i - 1 \notin Wrong
          BY <1>1, <2>1, <3>1
    <3>3. f[i - 1] \in S
          BY <3>2
    <3>4. f[i] \in S
          BY <1>3, <1>5, <1>6, <3>2, <3>3
    <3>5. QED
          BY <2>1, <3>4
  <2>2. Wrong \subseteq Nat
        BY <1>1
  <2> HIDE DEF N, S
  <2>3. Wrong = {}
    <3> HIDE DEF Wrong
    <3>1. QED
          BY <2>1, <2>2, LeastElement
  <2>4. f = [i \in 0..N |-> f[i]]
    <3> HIDE DEF Body
    <3>1. QED
          BY <1>1, <1>5, <1>6
  <2>5. QED
        BY <2>3, <2>4
<1>7. Scores(m, n) = CHOOSE f : Loop(f)
      BY DEF Scores
<1> HIDE DEF Loop
<1>8. Loop(s)
      BY <1>4, <1>7
<1>9. /\ s \in [0..N -> S] /\ s[0] = First(m)
      /\ \A i \in 1..N : s[i] = Next1(i, s[i - 1])
      BY <1>5, <1>6, <1>8
<1>10. ASSUME NEW i \in 1..N, i < n, NEW u \in BioTags
       PROVE  s[i][u] = Max(Extended(m, i, s[i - 1], u))
       BY <1>9, <1>10
<1>11. ASSUME NEW i \in 1..N, i >= n PROVE s[i] = s[i - 1]
  <2>1. ~(i < n)
        BY <1>1, <1>11
  <2>2. QED
        BY <1>9, <2>1
<1>12. QED
       BY <1>1, <1>9, <1>10, <1>11

(* The decoded tags: the last is the best one to end with, each of the     *)
(* others the best predecessor of the next.                                *)
LEMMA TagsDecoded ==
  ASSUME NEW m, IsModel(m), NEW n \in 0..SeqLen
  PROVE  LET d == ViterbiDecode(m, n)
             last == StepsBack(n)
         IN /\ last \in 0..SeqLen - 1 /\ d \in [1..last + 1 -> BioTags]
            /\ d[last + 1] = BestOf([t \in BioTags |-> Scores(m, n)[SeqLen - 1][t] * m.end[t]])
            /\ \A i \in 1..last : d[i] = History(m, n)[i][d[i + 1]]
<1> DEFINE last == StepsBack(n)
           ends == [t \in BioTags |-> Scores(m, n)[SeqLen - 1][t] * m.end[t]]
           history == History(m, n)
           Body(f, k) == IF k = 0 THEN BestOf(ends) ELSE history[last - k + 1][f[k - 1]]
           Loop(f) == f = [k \in 0..last |-> Body(f, k)]
           step == [p \in (1..last) \X BioTags |-> history[last - p[1] + 1][p[2]]]
           s == Scores(m, n)
           best == CHOOSE f : Loop(f)
<1>1. last \in 0..SeqLen - 1
      BY SeqLenAssumption DEF StepsBack
<1>2. s \in [Positions -> [BioTags -> Nat]]
      BY ScoresOfTags
<1>3. BestOf(ends) \in BioTags
  <2>1. SeqLen - 1 \in Positions
        BY SeqLenAssumption DEF Positions
  <2>2. ASSUME NEW t \in BioTags PROVE s[SeqLen - 1][t] * m.end[t] \in Int
    <3>1. s[SeqLen - 1][t] \in Nat /\ m.end[t] \in Nat
      <4> HIDE DEF s
      <4>1. QED
            BY <1>2, <2>1 DEF IsModel
    <3>2. QED
          BY <3>1, Products
  <2>3. \A t \in BioTags : ends[t] \in Int
        BY <2>2
  <2>4. QED
        BY <2>3, BestIsBest
<1>4. ASSUME NEW i \in 1..SeqLen - 1, NEW u \in BioTags PROVE history[i][u] \in BioTags
  <2>1. i \in Positions /\ i - 1 \in Positions
        BY SeqLenAssumption DEF Positions
  <2>2. s[i - 1] \in [BioTags -> Nat]
    <3> HIDE DEF s
    <3>1. QED
          BY <1>2, <2>1
  <2>3. ASSUME NEW v \in [BioTags -> Nat]
        PROVE  BestOf(Into(m, v, u)) \in BioTags
        BY <2>1, BestPredecessor
  <2>4. history[i][u] = BestOf(Into(m, s[i - 1], u))
        BY DEF History, Into
  <2> HIDE DEF s, history
  <2>5. QED
        BY <2>2, <2>3, <2>4
<1> HIDE DEF last, ends, history, s
<1>5. \E f : Loop(f)
  <2>1. \A k \in 1..last : last - k + 1 \in 1..SeqLen - 1
        BY <1>1, SeqLenAssumption
  <2>2. /\ step \in [(1..last) \X BioTags -> BioTags]
        /\ \A k \in 1..last, u \in BioTags : step[<<k, u>>] = history[last - k + 1][u]
        BY <1>4, <2>1
  <2> HIDE DEF step
  <2>3. PICK f \in [0..last -> BioTags] : f[0] = BestOf(ends) /\ \A k \in 1..last : f[k] = step[<<k, f[k - 1]>>]
    <3>1. last \in Nat
          BY <1>1
    <3>2. \E f : Solves(f, BioTags, BestOf(ends), last, step)
          BY <1>3, <2>2, <3>1, Recursion
    <3>3. QED
          BY <3>2 DEF Solves
  <2>4. ASSUME NEW k \in 0..last PROVE f[k] = Body(f, k)
    <3>1. CASE k = 0
          BY <2>3, <3>1
    <3>2. CASE k \in 1..last
      <4>1. k - 1 \in 0..last /\ f[k - 1] \in BioTags /\ k # 0
            BY <1>1, <3>2
      <4>2. QED
            BY <2>2, <2>3, <3>2, <4>1
    <3>3. QED
          BY <1>1, <3>1, <3>2
  <2>5. f = [k \in 0..last |-> f[k]]
        OBVIOUS
  <2> HIDE DEF Body
  <2>6. Loop(f)
        BY <2>4, <2>5
  <2>7. QED
        BY <2>6
<1>6. Loop(best)
      BY <1>5
<1>7. \A k \in 0..last : best[k] = Body(best, k)
  <2> HIDE DEF best, Body
  <2>1. QED
        BY <1>6
<1> HIDE DEF Loop, best
<1>8. /\ best[0] = BestOf(ends)
      /\ \A k \in 1..last : best[k] = history[last - k + 1][best[k - 1]]
  <2>1. 0 \in 0..last /\ \A k \in 1..last : k \in 0..last /\ k # 0
        BY <1>1
  <2>2. QED
        BY <1>7, <2>1
<1>9. \A k \in 0..last : best[k] \in BioTags
  <2> DEFINE Wrong == {k \in 0..last : best[k] \notin BioTags}
  <2>1. ASSUME NEW k \in Wrong, \A l \in Wrong : k <= l PROVE FALSE
    <3>1. k # 0
          BY <1>3, <1>8
    <3>2. k \in 1..last /\ k - 1 \in 0..last /\ k - 1 \notin Wrong /\ last - k + 1 \in 1..SeqLen - 1
          BY <1>1, <2>1, <3>1, SeqLenAssumption
    <3>3. best[k - 1] \in BioTags
          BY <3>2
    <3>4. best[k] \in BioTags
          BY <1>4, <1>8, <3>2, <3>3
    <3>5. QED
          BY <3>4
  <2>2. Wrong \subseteq Nat
        BY <1>1
  <2>3. Wrong = {}
    <3> HIDE DEF Wrong
    <3>1. QED
          BY <2>1, <2>2, LeastElement
  <2>4. QED
        BY <2>3
<1> DEFINE d == [i \in 1..last + 1 |-> best[last + 1 - i]]
<1>10. ViterbiDecode(m, n) = d
       BY DEF ViterbiDecode, last, ends, history, best, Loop
<1>11. d \in [1..last + 1 -> BioTags]
  <2>1. \A i \in 1..last + 1 : last + 1 - i \in 0..last
        BY <1>1
  <2>2. QED
        BY <1>9, <2>1
<1>12. d[last + 1] = BestOf(ends)
  <2>1. last + 1 \in 1..last + 1 /\ last + 1 - (last + 1) = 0
        BY <1>1
  <2>2. QED
        BY <1>8, <2>1
<1>13. ASSUME NEW i \in 1..last PROVE d[i] = history[i][d[i + 1]]
  <2>1. /\ i \in 1..last + 1 /\ i + 1 \in 1..last + 1 /\ last + 1 - i \in 1..last
        /\ last + 1 - (i + 1) = (last + 1 - i) - 1 /\ last - (last + 1 - i) + 1 = i
        BY <1>1
  <2>2. d[i] = best[last + 1 - i] /\ d[i + 1] = best[(last + 1 - i) - 1]
        BY <2>1
  <2>3. best[last + 1 - i] = history[i][best[(last + 1 - i) - 1]]
        BY <1>8, <2>1
  <2>4. QED
        BY <2>2, <2>3
<1> HIDE DEF d
<1>14. QED
       BY <1>1, <1>10, <1>11, <1>12, <1>13 DEF last, ends, history

(* The potential of a path is a product.                                   *)
LEMMA PotentialsAlong ==
  ASSUME NEW m, IsModel(m), NEW n \in 1..SeqLen, NEW path \in Paths(n), NEW a, a = Along(m, path, n)
  PROVE  /\ a \in [0..n - 1 -> Nat] /\ a[0] = m.start[path[0]] * m.emissions[0][path[0]]
         /\ \A i \in 1..n - 1 :
              a[i] = a[i - 1] * Transition(m, path[i - 1], path[i]) * m.emissions[i][path[i]]
<1> DEFINE N == n - 1
           first == m.start[path[0]] * m.emissions[0][path[0]]
           Next1(i, v) == v * Transition(m, path[i - 1], path[i]) * m.emissions[i][path[i]]
           Body(f, i) ==
             IF i = 0 THEN m.start[path[0]] * m.emissions[0][path[0]]
             ELSE f[i - 1] * Transition(m, path[i - 1], path[i]) * m.emissions[i][path[i]]
           Loop(f) == f = [i \in 0..n - 1 |-> Body(f, i)]
           step == [p \in (1..N) \X Nat |-> Next1(p[1], p[2])]
<1>1. N \in Nat /\ N = n - 1 /\ \A i \in 0..N : i \in Positions /\ path[i] \in BioTags
      BY SeqLenAssumption DEF Positions, Paths
<1>2. first \in Nat
  <2>1. 0 \in Positions /\ path[0] \in BioTags
        BY <1>1
  <2>2. m.start[path[0]] \in Nat /\ m.emissions[0][path[0]] \in Nat
        BY <2>1 DEF IsModel
  <2>3. QED
        BY <2>2, Products
<1>3. ASSUME NEW i \in 1..N, NEW v \in Nat PROVE Next1(i, v) \in Nat
  <2>1. /\ i \in 0..N /\ i - 1 \in 0..N
        /\ i \in Positions /\ path[i] \in BioTags /\ path[i - 1] \in BioTags
    <3> HIDE DEF N
    <3>1. i \in 0..N /\ i - 1 \in 0..N
          BY <1>1
    <3>2. QED
          BY <1>1, <3>1
  <2>2. m.emissions[i][path[i]] \in Nat
        BY <2>1 DEF IsModel
  <2>3. Transition(m, path[i - 1], path[i]) \in Nat
        BY <2>1, TransitionType
  <2>4. v * Transition(m, path[i - 1], path[i]) \in Nat
        BY <2>3, Products
  <2>5. QED
        BY <2>2, <2>4, Products
<1>4. \E f : f \in [0..N -> Nat] /\ Loop(f)
  <2>1. step \in [(1..N) \X Nat -> Nat] /\ \A i \in 1..N, v \in Nat : step[<<i, v>>] = Next1(i, v)
    <3> HIDE DEF Next1, N
    <3>1. QED
          BY <1>3
  <2> HIDE DEF step
  <2>2. PICK f \in [0..N -> Nat] : f[0] = first /\ \A i \in 1..N : f[i] = step[<<i, f[i - 1]>>]
    <3> HIDE DEF N, first
    <3>1. \E f : Solves(f, Nat, first, N, step)
          BY <1>1, <1>2, <2>1, Recursion
    <3>2. QED
          BY <3>1 DEF Solves
  <2>3. ASSUME NEW i \in 0..N PROVE f[i] = Body(f, i)
    <3>1. CASE i = 0
          BY <2>2, <3>1
    <3>2. CASE i \in 1..N
      <4> HIDE DEF N
      <4>1. i - 1 \in 0..N /\ f[i - 1] \in Nat /\ i # 0
            BY <1>1, <3>2
      <4>2. f[i] = Next1(i, f[i - 1])
        <5> HIDE DEF Next1
        <5>1. QED
              BY <2>1, <2>2, <3>2, <4>1
      <4>3. QED
            BY <4>1, <4>2
    <3> HIDE DEF N
    <3>3. QED
          BY <1>1, <3>1, <3>2
  <2>4. f = [i \in 0..N |-> f[i]]
        OBVIOUS
  <2> HIDE DEF Body
  <2>5. Loop(f)
        BY <2>3, <2>4
  <2>6. QED
        BY <2>5
<1>5. ASSUME NEW f, Loop(f)
      PROVE  /\ f = [i \in 0..N |-> Body(f, i)] /\ f[0] = first
             /\ \A i \in 1..N : f[i] = Next1(i, f[i - 1])
  <2>1. f = [i \in 0..N |-> Body(f, i)]
    <3> HIDE DEF Body
    <3>1. QED
          BY <1>5
  <2>2. \A i \in 0..N : f[i] = Body(f, i)
    <3> HIDE DEF Body, N
    <3>1. QED
          BY <2>1
  <2>3. 0 \in 0..N /\ \A i \in 1..N : i \in 0..N /\ i # 0
        BY <1>1
  <2>4. QED
        BY <2>1, <2>2, <2>3
<1>6. ASSUME NEW f, Loop(f) PROVE f \in [0..N -> Nat]
  <2> DEFINE Wrong == {i \in 0..N : f[i] \notin Nat}
  <2>1. ASSUME NEW i \in Wrong, \A k \in Wrong : i <= k PROVE FALSE
    <3> HIDE DEF Next1, N, first
    <3>1. i # 0
          BY <1>2, <1>5, <1>6, <2>1
    <3>2. i \in 1..N /\ i - 1 \in 0..N /\ i - 1 \notin Wrong
          BY <1>1, <2>1, <3>1
    <3>3. f[i - 1] \in Nat
          BY <3>2
    <3>4. f[i] \in Nat
          BY <1>3, <1>5, <1>6, <3>2, <3>3
    <3>5. QED
          BY <2>1, <3>4
  <2>2. Wrong \subseteq Nat
        BY <1>1
  <2> HIDE DEF N
  <2>3. Wrong = {}
    <3> HIDE DEF Wrong
    <3>1. QED
          BY <2>1, <2>2, LeastElement
  <2>4. f = [i \in 0..N |-> f[i]]
    <3> HIDE DEF Body
    <3>1. QED
          BY <1>5, <1>6
  <2>5. QED
        BY <2>3, <2>4
<1>7. Along(m, path, n) = CHOOSE f : Loop(f)
      BY DEF Along
<1> HIDE DEF Loop
<1>8. Loop(a)
      BY <1>4, <1>7
<1>9. QED
      BY <1>5, <1>6, <1>8

(* No path is worth more, up to a position, than the score of its tag.     *)
LEMMA PathsBelowScores ==
  ASSUME NEW m, IsModel(m), NEW n \in 1..SeqLen, NEW s, s = Scores(m, n),
         NEW path \in Paths(n), NEW a, a = Along(m, path, n)
  PROVE  \A i \in 0..n - 1 : a[i] <= s[i][path[i]]
<1>1. /\ a \in [0..n - 1 -> Nat] /\ a[0] = m.start[path[0]] * m.emissions[0][path[0]]
      /\ \A i \in 1..n - 1 :
           a[i] = a[i - 1] * Transition(m, path[i - 1], path[i]) * m.emissions[i][path[i]]
      BY PotentialsAlong
<1>2. n \in 0..SeqLen /\ \A i \in 0..n - 1 : i \in Positions /\ path[i] \in BioTags
      BY SeqLenAssumption DEF Positions, Paths
<1>3. /\ s \in [Positions -> [BioTags -> Nat]] /\ s[0] = First(m)
      /\ \A i \in 1..SeqLen - 1 : i < n =>
           \A u \in BioTags : s[i][u] = Max(Extended(m, i, s[i - 1], u))
      BY <1>2, ScoresOfTags
<1> DEFINE Wrong == {i \in 0..n - 1 : ~(a[i] <= s[i][path[i]])}
<1>4. ASSUME NEW i \in Wrong, \A k \in Wrong : i <= k PROVE FALSE
  <2>1. i # 0
    <3>1. a[0] = First(m)[path[0]] /\ a[0] \in Nat
          BY <1>1, <1>2 DEF First
    <3>2. QED
          BY <1>3, <1>4, <3>1
  <2>2. /\ i \in 1..n - 1 /\ i \in 1..SeqLen - 1 /\ i < n
        /\ i - 1 \in 0..n - 1 /\ i \in 0..n - 1 /\ i - 1 < i
        BY <2>1, SeqLenAssumption
  <2>3. a[i - 1] <= s[i - 1][path[i - 1]]
        BY <1>4, <2>2
  <2> DEFINE p == path[i - 1]
             u == path[i]
             e == m.emissions[i][u]
             tr == Transition(m, p, u)
             v == s[i - 1]
  <2>4. p \in BioTags /\ u \in BioTags /\ i \in Positions /\ v \in [BioTags -> Nat] /\ a[i - 1] \in Nat
        BY <1>1, <1>2, <1>3, <2>2
  <2>5. e \in Nat /\ tr \in Nat /\ v[p] \in Nat
    <3>1. e \in Nat
          BY <2>4 DEF IsModel
    <3>2. tr \in Nat
          BY <2>4, TransitionType
    <3> HIDE DEF v, p
    <3>3. v[p] \in Nat
          BY <2>4
    <3>4. QED
          BY <3>1, <3>2, <3>3
  <2>6. a[i] = (a[i - 1] * tr) * e
        BY <1>1, <2>2
  <2>7. s[i][u] = Max(Extended(m, i, v, u))
        BY <1>3, <2>2, <2>4
  <2>8. (v[p] * tr) * e <= s[i][u] /\ s[i][u] \in Nat
    <3> HIDE DEF v, p, u
    <3>1. ASSUME NEW top, top = Max(Extended(m, i, v, u))
          PROVE  (\A t \in BioTags : Worth(m, v, i, t, u) <= top) /\ top \in Nat
          BY <2>4, <3>1, BestPredecessor
    <3>2. Worth(m, v, i, p, u) = (v[p] * tr) * e
          BY DEF Worth
    <3> HIDE DEF tr, e
    <3>3. QED
          BY <2>4, <2>7, <3>1, <3>2
  <2>9. a[i - 1] * tr \in Nat /\ v[p] * tr \in Nat /\ a[i - 1] * tr <= v[p] * tr
    <3> HIDE DEF tr
    <3>1. QED
          BY <2>3, <2>4, <2>5, MoreTimes, Products
  <2>10. (a[i - 1] * tr) * e <= (v[p] * tr) * e /\ (a[i - 1] * tr) * e \in Nat /\ (v[p] * tr) * e \in Nat
    <3> HIDE DEF tr, e
    <3>1. QED
          BY <2>5, <2>9, MoreTimes, Products
  <2>11. ~(a[i] <= s[i][u])
         BY <1>4
  <2> HIDE DEF p, u, e, tr, v
  <2>12. QED
    <3>1. ASSUME NEW x \in Nat, NEW y \in Nat, NEW z \in Nat, x <= y, y <= z PROVE x <= z
          BY <3>1
    <3>2. QED
          BY <2>6, <2>8, <2>10, <2>11, <3>1
<1>5. Wrong \subseteq Nat
      OBVIOUS
<1>6. Wrong = {}
  <2> HIDE DEF Wrong
  <2>1. QED
        BY <1>4, <1>5, LeastElement
<1>7. QED
      BY <1>6

(* What the last position chooses between, and the path of a decoding.     *)
EndScores(m, s) == [t \in BioTags |-> s[SeqLen - 1][t] * m.end[t]]
PathOf(d, n) == [i \in 0..n - 1 |-> d[i + 1]]

(* The decoded path is worth the scores it was read from.                  *)
LEMMA DecodedScores ==
  ASSUME NEW m, IsModel(m), NEW n \in 1..SeqLen, NEW s, s = Scores(m, n),
         NEW d, d = ViterbiDecode(m, n),
         NEW path, path = PathOf(d, n), NEW a, a = Along(m, path, n)
  PROVE  /\ path \in Paths(n) /\ d \in [1..n -> BioTags]
         /\ d[n] = BestOf(EndScores(m, s))
         /\ \A i \in 0..n - 1 : a[i] = s[i][path[i]]
<1>1. n \in 0..SeqLen /\ StepsBack(n) = n - 1 /\ n - 1 + 1 = n
      BY SeqLenAssumption DEF StepsBack
<1>2. /\ d \in [1..n -> BioTags] /\ d[n] = BestOf(EndScores(m, s))
      /\ \A i \in 1..n - 1 : d[i] = History(m, n)[i][d[i + 1]]
  <2>1. /\ d \in [1..StepsBack(n) + 1 -> BioTags]
        /\ d[StepsBack(n) + 1] = BestOf([t \in BioTags |-> Scores(m, n)[SeqLen - 1][t] * m.end[t]])
        /\ \A i \in 1..StepsBack(n) : d[i] = History(m, n)[i][d[i + 1]]
        BY <1>1, TagsDecoded
  <2>2. QED
        BY <1>1, <2>1 DEF EndScores
<1>3. path = [i \in 0..n - 1 |-> d[i + 1]] /\ path \in Paths(n)
  <2>1. \A i \in 0..n - 1 : i + 1 \in 1..n
        BY SeqLenAssumption
  <2>2. QED
        BY <1>2, <2>1 DEF Paths, PathOf
<1>4. /\ a \in [0..n - 1 -> Nat] /\ a[0] = m.start[path[0]] * m.emissions[0][path[0]]
      /\ \A i \in 1..n - 1 :
           a[i] = a[i - 1] * Transition(m, path[i - 1], path[i]) * m.emissions[i][path[i]]
  <2>1. ASSUME NEW q \in Paths(n), NEW c, c = Along(m, q, n)
        PROVE  /\ c \in [0..n - 1 -> Nat] /\ c[0] = m.start[q[0]] * m.emissions[0][q[0]]
               /\ \A i \in 1..n - 1 : c[i] = c[i - 1] * Transition(m, q[i - 1], q[i]) * m.emissions[i][q[i]]
        BY <2>1, PotentialsAlong
  <2>2. QED
        BY <1>3, <2>1
<1>5. /\ s \in [Positions -> [BioTags -> Nat]] /\ s[0] = First(m)
      /\ \A i \in 1..SeqLen - 1 : i < n =>
           \A u \in BioTags : s[i][u] = Max(Extended(m, i, s[i - 1], u))
      BY <1>1, ScoresOfTags
<1>6. \A i \in 0..n - 1 : i \in Positions /\ path[i] \in BioTags
      BY <1>3, SeqLenAssumption DEF Positions, Paths
<1> DEFINE Wrong == {i \in 0..n - 1 : a[i] # s[i][path[i]]}
<1>7. ASSUME NEW i \in Wrong, \A k \in Wrong : i <= k PROVE FALSE
  <2>1. i # 0
    <3>1. a[0] = First(m)[path[0]]
          BY <1>4, <1>6 DEF First
    <3>2. QED
          BY <1>5, <1>7, <3>1
  <2>2. /\ i \in 1..n - 1 /\ i \in 1..SeqLen - 1 /\ i < n
        /\ i - 1 \in 0..n - 1 /\ i \in 0..n - 1 /\ i - 1 < i
        BY <2>1, SeqLenAssumption
  <2>3. a[i - 1] = s[i - 1][path[i - 1]]
        BY <1>7, <2>2
  <2> DEFINE p == path[i - 1]
             u == path[i]
             v == s[i - 1]
  <2>4. u \in BioTags /\ i \in Positions /\ v \in [BioTags -> Nat]
        BY <1>5, <1>6, <2>2
  <2>5. p = BestOf(Into(m, v, u))
    <3>1. p = d[i] /\ u = d[i + 1]
          BY <1>3, <2>2
    <3>2. d[i] = History(m, n)[i][d[i + 1]]
          BY <1>2, <2>2
    <3>3. History(m, n)[i][u] = BestOf(Into(m, Scores(m, n)[i - 1], u))
      <4> HIDE DEF u
      <4>1. QED
            BY <2>2, <2>4 DEF History, Into
    <3> HIDE DEF p, u
    <3>4. QED
          BY <3>1, <3>2, <3>3
  <2>6. s[i][u] = Max(Extended(m, i, v, u))
        BY <1>5, <2>2, <2>4
  <2>7. s[i][u] = v[p] * Transition(m, p, u) * m.emissions[i][u]
    <3> HIDE DEF v, p, u
    <3>1. s[i][u] = Worth(m, v, i, p, u)
          BY <2>4, <2>5, <2>6, BestPredecessor
    <3>2. QED
          BY <3>1 DEF Worth
  <2>8. a[i] = a[i - 1] * Transition(m, p, u) * m.emissions[i][u]
        BY <1>4, <2>2
  <2>9. QED
        BY <1>7, <2>3, <2>7, <2>8
<1>8. Wrong \subseteq Nat
      OBVIOUS
<1>9. Wrong = {}
  <2> HIDE DEF Wrong
  <2>1. QED
        BY <1>7, <1>8, LeastElement
<1>10. QED
       BY <1>2, <1>3, <1>9

(* The scores do not change from the last character on.                    *)
LEMMA ScoresSettle ==
  ASSUME NEW m, IsModel(m), NEW n \in 1..SeqLen, NEW s, s = Scores(m, n)
  PROVE  s[SeqLen - 1] = s[n - 1]
<1>1. n \in 0..SeqLen /\ \A i \in 1..SeqLen - 1 : i >= n => s[i] = s[i - 1]
  <2>1. n \in 0..SeqLen
        BY SeqLenAssumption
  <2>2. QED
        BY <2>1, ScoresOfTags
<1> DEFINE Wrong == {i \in n - 1..SeqLen - 1 : s[i] # s[n - 1]}
<1>2. ASSUME NEW i \in Wrong, \A k \in Wrong : i <= k PROVE FALSE
  <2>1. i # n - 1
        BY <1>2
  <2>2. i \in 1..SeqLen - 1 /\ i >= n /\ i - 1 \in n - 1..SeqLen - 1 /\ i - 1 < i
        BY <2>1, SeqLenAssumption
  <2>3. s[i] = s[i - 1] /\ s[i - 1] = s[n - 1]
        BY <1>1, <1>2, <2>2
  <2>4. QED
        BY <1>2, <2>3
<1>3. Wrong \subseteq Nat
      BY SeqLenAssumption
<1>4. Wrong = {}
  <2> HIDE DEF Wrong
  <2>1. QED
        BY <1>2, <1>3, LeastElement
<1>5. SeqLen - 1 \in n - 1..SeqLen - 1
      BY SeqLenAssumption
<1>6. QED
      BY <1>4, <1>5

(* None of the paths through the first n positions is worth more than the  *)
(* decoded one.                                                            *)
LEMMA DecodedIsBest ==
  ASSUME NEW m, IsModel(m), NEW n \in 1..SeqLen, NEW d, d = ViterbiDecode(m, n),
         NEW path \in Paths(n)
  PROVE  Potential(m, path, n) <= Potential(m, [i \in 0..n - 1 |-> d[i + 1]], n)
<1> DEFINE s == Scores(m, n)
           decoded == [i \in 0..n - 1 |-> d[i + 1]]
           a == Along(m, path, n)
           b == Along(m, decoded, n)
           ends == [t \in BioTags |-> s[SeqLen - 1][t] * m.end[t]]
           z == n - 1
<1>1. \A i \in 0..n - 1 : a[i] <= s[i][path[i]]
      BY PathsBelowScores
<1>2. a \in [0..n - 1 -> Nat]
      BY PotentialsAlong
<1>3. /\ decoded \in Paths(n) /\ d \in [1..n -> BioTags] /\ d[n] = BestOf(ends)
      /\ \A i \in 0..n - 1 : b[i] = s[i][decoded[i]]
  <2>1. decoded = PathOf(d, n) /\ ends = EndScores(m, s)
        BY DEF PathOf, EndScores
  <2> HIDE DEF s, decoded, ends
  <2>2. QED
        BY <2>1, DecodedScores DEF s
<1>4. s \in [Positions -> [BioTags -> Nat]] /\ s[SeqLen - 1] = s[n - 1]
  <2>1. n \in 0..SeqLen
        BY SeqLenAssumption
  <2>2. QED
        BY <2>1, ScoresOfTags, ScoresSettle
<1>5. z \in 0..n - 1 /\ z \in Positions /\ decoded[z] = d[n] /\ n \in 1..n
  <2>1. z \in 0..n - 1 /\ z \in Positions /\ z + 1 = n /\ n \in 1..n
        BY SeqLenAssumption DEF Positions
  <2>2. QED
        BY <2>1
<1>6. path[z] \in BioTags /\ d[n] \in BioTags
      BY <1>3, <1>5 DEF Paths
<1>7. /\ m.end \in [BioTags -> Nat] /\ s[z] \in [BioTags -> Nat]
      /\ s[SeqLen - 1] = s[z] /\ a[z] \in Nat
  <2> HIDE DEF s, a
  <2>1. QED
        BY <1>2, <1>4, <1>5 DEF IsModel
<1> DEFINE v == s[z]
<1>8. a[z] <= v[path[z]] /\ b[z] = v[d[n]]
      BY <1>1, <1>3, <1>5
<1>9. \A t \in BioTags : ends[t] = v[t] * m.end[t]
      BY <1>7
<1>10. /\ Potential(m, path, n) = a[z] * m.end[path[z]]
       /\ Potential(m, decoded, n) = b[z] * m.end[d[n]]
       BY <1>5 DEF Potential
<1> HIDE DEF s, decoded, a, b, ends, z
<1>11. v \in [BioTags -> Nat]
       BY <1>7
<1> HIDE DEF v
<1>12. \A t \in BioTags : v[t] \in Nat /\ m.end[t] \in Nat /\ ends[t] \in Nat
  <2>1. ASSUME NEW t \in BioTags PROVE v[t] \in Nat /\ m.end[t] \in Nat /\ ends[t] \in Nat
    <3>1. v[t] \in Nat /\ m.end[t] \in Nat
          BY <1>7, <1>11
    <3>2. QED
          BY <1>9, <3>1, Products
  <2>2. QED
        BY <2>1
<1>13. ends[d[n]] >= ends[path[z]]
  <2>1. \A t \in BioTags : ends[t] \in Int
        BY <1>12
  <2>2. \A u \in BioTags : ends[BestOf(ends)] >= ends[u]
        BY <2>1, BestIsBest
  <2>3. QED
        BY <1>3, <1>6, <2>2
<1>14. a[z] * m.end[path[z]] <= ends[path[z]] /\ a[z] * m.end[path[z]] \in Nat
  <2>1. v[path[z]] \in Nat /\ m.end[path[z]] \in Nat /\ ends[path[z]] = v[path[z]] * m.end[path[z]]
        BY <1>6, <1>9, <1>12
  <2>2. a[z] \in Nat /\ a[z] <= v[path[z]]
        BY <1>7, <1>8
  <2>3. QED
        BY <2>1, <2>2, MoreTimes, Products
<1>15. b[z] * m.end[d[n]] = ends[d[n]]
       BY <1>6, <1>8, <1>9
<1>16. ends[path[z]] \in Nat /\ ends[d[n]] \in Nat
       BY <1>6, <1>12
<1>17. ASSUME NEW x \in Nat, NEW y \in Nat, NEW w \in Nat, x <= y, w >= y PROVE x <= w
       BY <1>17
<1>18. a[z] * m.end[path[z]] <= b[z] * m.end[d[n]]
       BY <1>13, <1>14, <1>15, <1>16, <1>17
<1>19. Potential(m, path, n) <= Potential(m, decoded, n)
       BY <1>10, <1>18
<1>20. QED
       BY <1>19 DEF decoded

-----------------------------------------------------------------------------
(***************************************************************************)
(* The runs of the same tag.                                               *)
(***************************************************************************)
Within(run, tgs) ==
  /\ run.start \in Nat /\ run.end \in Nat /\ run.start < run.end /\ run.end <= Len(tgs)
  /\ \A p \in run.start..run.end - 1 : tgs[p + 1] = run.bioTag

(* They follow each other, and neighbours differ.                          *)
RunsOf(runs, tgs) ==
  /\ Len(runs) \in Nat \ {0} /\ runs[1].start = 0 /\ runs[Len(runs)].end = Len(tgs)
  /\ \A k \in 1..Len(runs) : Within(runs[k], tgs)
  /\ \A k \in 1..Len(runs) - 1 :
       runs[k].end = runs[k + 1].start /\ runs[k].bioTag # runs[k + 1].bioTag

LEMMA GroupedToRuns ==
  ASSUME NEW tgs, IsSeq(tgs), Len(tgs) > 0
  PROVE  RunsOf(Grouped(tgs), tgs)
<1> DEFINE L == Len(tgs)
           places == [i \in DOMAIN tgs |-> i]
           begins == {i \in DOMAIN tgs : i = 1 \/ tgs[i] # tgs[i - 1]}
           starts == Kept(places, begins)
           R == Len(starts)
           EndAt(k) == IF k < R THEN starts[k + 1] - 1 ELSE L
           runs == Grouped(tgs)
<1>1. L \in Nat /\ L > 0 /\ DOMAIN tgs = 1..L
      BY AnySeq
<1>2. IsSeq(places) /\ Len(places) = L /\ \A i \in 1..L : places[i] = i
  <2>1. places \in [1..L -> 1..L]
        BY <1>1
  <2>2. places \in Seq(1..L) /\ Len(places) = L
    <3> HIDE DEF places, L
    <3>1. QED
          BY <1>1, <2>1
  <2>3. \A i \in 1..L : places[i] = i
        BY <1>1
  <2> HIDE DEF places
  <2>4. places \in Seq(Entries(places))
    <3> HIDE DEF L
    <3>1. \A i \in 1..L : places[i] \in Entries(places)
          BY <2>2 DEF Entries
    <3>2. places \in [1..L -> Entries(places)]
          BY <2>1, <3>1
    <3>3. QED
          BY <1>1, <3>2
  <2>5. QED
        BY <2>2, <2>3, <2>4 DEF IsSeq
<1>3. begins \subseteq 1..L /\ 1 \in begins
      BY <1>1
<1>4. IsSeq(starts) /\ Picks(starts, places, begins)
  <2>1. begins \cap (1..Len(places)) = begins
    <3> HIDE DEF begins, places
    <3>1. QED
          BY <1>2, <1>3
  <2> HIDE DEF places, begins
  <2>2. QED
        BY <1>2, <2>1, KeptPicks
<1>5. R \in Nat /\ DOMAIN starts = 1..R
  <2> HIDE DEF starts
  <2>1. QED
        BY <1>4, AnySeq
<1>6. /\ \A k \in 1..R : starts[k] \in begins
      /\ \A k, l \in 1..R : k < l => starts[k] < starts[l]
      /\ \A i \in begins : \E k \in 1..R : starts[k] = i
  <2> HIDE DEF places, begins, starts
  <2>1. PICK at \in [1..R -> begins] :
          /\ \A k \in 1..R : starts[k] = places[at[k]]
          /\ \A k, l \in 1..R : k < l => at[k] < at[l]
          /\ \A i \in begins : \E k \in 1..R : at[k] = i
        BY <1>4 DEF Picks
  <2>2. \A k \in 1..R : starts[k] = at[k]
        BY <1>2, <1>3, <2>1
  <2>3. QED
        BY <2>1, <2>2
<1>7. /\ runs = [k \in 1..R |-> [start |-> starts[k] - 1, end |-> EndAt(k), bioTag |-> tgs[starts[k]]]]
  <2> HIDE DEF starts
  <2>1. runs = [k \in DOMAIN starts |-> [start |-> starts[k] - 1, end |-> EndAt(k), bioTag |-> tgs[starts[k]]]]
        BY DEF Grouped, starts
  <2>2. QED
        BY <1>5, <2>1
<1> HIDE DEF runs, starts
<1>8. Len(runs) = R
      BY <1>5, <1>7
<1>9. \A k \in 1..R : /\ runs[k].start = starts[k] - 1 /\ runs[k].end = EndAt(k)
                      /\ runs[k].bioTag = tgs[starts[k]]
      BY <1>7
<1>10. R > 0 /\ starts[1] = 1
  <2>1. PICK k \in 1..R : starts[k] = 1
        BY <1>3, <1>6
  <2>2. R > 0 /\ 1 \in 1..R /\ starts[1] \in begins
        BY <1>5, <1>6
  <2>3. starts[1] >= 1
        BY <1>1, <1>3, <2>2
  <2>4. CASE k = 1
        BY <2>1, <2>2, <2>4
  <2>5. CASE k > 1
    <3>1. starts[1] < starts[k]
          BY <1>6, <2>2, <2>5
    <3>2. starts[1] \in Nat
          BY <1>3, <2>2
    <3>3. QED
          BY <2>1, <2>3, <3>1, <3>2
  <2>6. QED
        BY <1>5, <2>4, <2>5
<1>11. \A k \in 1..R : /\ starts[k] \in 1..L /\ EndAt(k) \in Nat /\ starts[k] <= EndAt(k) /\ EndAt(k) <= L
  <2>1. ASSUME NEW k \in 1..R
        PROVE  starts[k] \in 1..L /\ EndAt(k) \in Nat /\ starts[k] <= EndAt(k) /\ EndAt(k) <= L
    <3>1. starts[k] \in 1..L
          BY <1>3, <1>6
    <3>2. CASE k < R
      <4>1. k + 1 \in 1..R /\ k < k + 1
            BY <1>5, <3>2
      <4>2. starts[k + 1] \in 1..L /\ starts[k] < starts[k + 1]
            BY <1>3, <1>6, <4>1
      <4>3. QED
            BY <1>1, <3>1, <3>2, <4>2
    <3>3. CASE ~(k < R)
          BY <1>1, <3>1, <3>3
    <3>4. QED
          BY <3>2, <3>3
  <2>2. QED
        BY <2>1
<1>12. ASSUME NEW k \in 1..R, NEW i \in starts[k]..EndAt(k) PROVE tgs[i] = tgs[starts[k]]
  <2> DEFINE Wrong == {j \in starts[k]..EndAt(k) : tgs[j] # tgs[starts[k]]}
  <2>1. ASSUME NEW j \in Wrong, \A l \in Wrong : j <= l PROVE FALSE
    <3>1. j # starts[k] /\ j \in starts[k]..EndAt(k) /\ j \in 1..L
          BY <1>1, <1>11, <2>1
    <3>2. j > starts[k] /\ j - 1 \in starts[k]..EndAt(k) /\ j - 1 < j /\ j - 1 \in 1..L
          BY <1>1, <1>11, <3>1
    <3>3. tgs[j - 1] = tgs[starts[k]]
          BY <2>1, <3>2
    <3>4. j \in begins
          BY <1>1, <2>1, <3>1, <3>3
    <3> HIDE DEF begins
    <3>5. PICK l \in 1..R : starts[l] = j
          BY <1>6, <3>4
    <3>6. l > k
      <4>1. CASE l = k
            BY <3>1, <3>5, <4>1
      <4>2. CASE l < k
        <5>1. starts[l] < starts[k]
              BY <1>6, <4>2
        <5>2. QED
              BY <1>11, <3>2, <3>5, <5>1
      <4>3. QED
            BY <1>5, <4>1, <4>2
    <3>7. k < R /\ k + 1 \in 1..R /\ (l = k + 1 \/ k + 1 < l)
          BY <1>5, <3>6
    <3>8. starts[k + 1] <= starts[l]
      <4>1. CASE l = k + 1
            BY <1>11, <3>7, <4>1
      <4>2. CASE k + 1 < l
        <5>1. starts[k + 1] < starts[l] /\ starts[k + 1] \in 1..L /\ starts[l] \in 1..L
              BY <1>6, <1>11, <3>7, <4>2
        <5>2. QED
              BY <5>1
      <4>3. QED
            BY <3>7, <4>1, <4>2
    <3>9. EndAt(k) = starts[k + 1] - 1 /\ starts[k + 1] \in 1..L
          BY <1>11, <3>7
    <3>10. QED
           BY <1>1, <3>1, <3>5, <3>8, <3>9
  <2>2. Wrong \subseteq Nat
    <3>1. starts[k] \in Nat
          BY <1>11
    <3>2. QED
          BY <3>1
  <2>3. Wrong = {}
    <3> HIDE DEF Wrong
    <3>1. QED
          BY <2>1, <2>2, LeastElement
  <2>4. QED
        BY <1>12, <2>3
<1>13. ASSUME NEW k \in 1..R PROVE Within(runs[k], tgs)
  <2>1. /\ runs[k].start \in Nat /\ runs[k].end \in Nat /\ runs[k].start < runs[k].end
        /\ runs[k].end <= L
    <3> HIDE DEF EndAt
    <3>1. QED
          BY <1>1, <1>9, <1>11
  <2>2. ASSUME NEW p \in runs[k].start..runs[k].end - 1 PROVE tgs[p + 1] = runs[k].bioTag
    <3> HIDE DEF EndAt
    <3>1. p + 1 \in starts[k]..EndAt(k)
          BY <1>1, <1>9, <1>11
    <3>2. QED
          BY <1>9, <1>12, <3>1
  <2>3. QED
        BY <2>1, <2>2 DEF Within
<1>14. ASSUME NEW k \in 1..R - 1 PROVE runs[k].end = runs[k + 1].start /\ runs[k].bioTag # runs[k + 1].bioTag
  <2>1. k \in 1..R /\ k + 1 \in 1..R /\ k < R /\ k < k + 1
        BY <1>5
  <2>2. EndAt(k) = starts[k + 1] - 1 /\ starts[k] < starts[k + 1]
        BY <1>6, <2>1
  <2>3. starts[k + 1] # 1 /\ starts[k + 1] - 1 \in starts[k]..EndAt(k) /\ starts[k + 1] \in begins
    <3>1. starts[k] \in 1..L /\ starts[k + 1] \in 1..L
          BY <1>11, <2>1
    <3>2. QED
          BY <1>1, <1>6, <2>1, <2>2, <3>1
  <2>4. tgs[starts[k + 1] - 1] = tgs[starts[k]]
    <3> HIDE DEF EndAt
    <3>1. QED
          BY <1>12, <2>1, <2>3
  <2>5. tgs[starts[k + 1]] # tgs[starts[k + 1] - 1]
        BY <2>3
  <2> HIDE DEF EndAt
  <2>6. QED
        BY <1>9, <2>1, <2>2, <2>4, <2>5
<1>15. /\ runs[1].start = 0 /\ runs[R].end = L
  <2>1. 1 \in 1..R /\ R \in 1..R /\ ~(R < R)
        BY <1>5, <1>10
  <2>2. EndAt(R) = L
        BY <2>1
  <2> HIDE DEF EndAt
  <2>3. QED
        BY <1>9, <1>10, <2>1, <2>2
<1>16. QED
  <2> HIDE DEF L
  <2>1. R \in Nat \ {0}
        BY <1>5, <1>10
  <2>2. QED
        BY <1>8, <1>13, <1>14, <1>15, <2>1 DEF RunsOf, runs, L

-----------------------------------------------------------------------------
(***************************************************************************)
(* The spans made of the runs, one by one.                                 *)
(***************************************************************************)
SpanTags == {t.tag : t \in BioTags} \cup {"OTHER"}
SpanSet == [start : Nat, end : Nat, tag : SpanTags]

(* Spans without a gap from the first character to the position e.         *)
Tiles(w, e) ==
  /\ w \in Seq(SpanSet) /\ EndOf(w) = e
  /\ w # <<>> => w[1].start = 0
  /\ \A j \in 1..Len(w) : w[j].start < w[j].end
  /\ \A j \in 1..Len(w) - 1 : w[j].end = w[j + 1].start

(* Spans of characters of their tag, which neighbours do not share.        *)
Follows(w, tgs) ==
  /\ \A j \in 1..Len(w) : \A p \in w[j].start..w[j].end - 1 : tgs[p + 1].tag = w[j].tag
  /\ \A j \in 1..Len(w) - 1 : w[j].tag # w[j + 1].tag

LEMMA NoSpans == ASSUME NEW tgs PROVE Tiles(<<>>, 0) /\ Follows(<<>>, tgs)
<1>1. <<>> \in Seq(SpanSet) /\ Len(<<>>) = 0
      BY EmptySeq
<1>2. EndOf(<<>>) = 0
      BY DEF EndOf
<1>3. QED
      BY <1>1, <1>2 DEF Tiles, Follows

LEMMA LastEnd ==
  ASSUME NEW w \in Seq(SpanSet)
  PROVE  /\ EndOf(w) \in Nat
         /\ w # <<>> => Len(w) \in Nat \ {0} /\ EndOf(w) = w[Len(w)].end /\ Last(w) = w[Len(w)]
         /\ w = <<>> => EndOf(w) = 0 /\ Len(w) = 0
<1>1. Len(w) \in Nat /\ (w = <<>> <=> Len(w) = 0)
      BY LenProperties, EmptySeq
<1>2. CASE w = <<>>
      BY <1>1, <1>2 DEF EndOf
<1>3. CASE w # <<>>
  <2>1. Len(w) \in 1..Len(w) /\ w[Len(w)] \in SpanSet
        BY <1>1, <1>3, ElementOfSeq
  <2>2. QED
        BY <1>1, <1>3, <2>1 DEF EndOf, Last, SpanSet
<1>4. QED
      BY <1>2, <1>3

(* A span that begins where the last one ends goes on with the tiling.     *)
LEMMA TileMore ==
  ASSUME NEW w, NEW e, Tiles(w, e), NEW sp \in SpanSet, sp.start = e, sp.start < sp.end
  PROVE  /\ Tiles(Append(w, sp), sp.end)
         /\ Len(w) \in Nat /\ Len(Append(w, sp)) = Len(w) + 1
         /\ \A j \in 1..Len(w) : Append(w, sp)[j] = w[j]
         /\ Append(w, sp)[Len(w) + 1] = sp
<1> DEFINE v == Append(w, sp)
           L == Len(w)
<1>1. w \in Seq(SpanSet) /\ L \in Nat /\ (w = <<>> <=> L = 0)
  <2>1. w \in Seq(SpanSet)
        BY DEF Tiles
  <2>2. QED
        BY <2>1, LenProperties, EmptySeq
<1>2. /\ v \in Seq(SpanSet) /\ Len(v) = L + 1 /\ v # <<>>
      /\ \A j \in 1..L : v[j] = w[j]
      /\ v[L + 1] = sp
      BY <1>1, AppendProperties
<1> HIDE DEF v
<1>3. EndOf(v) = sp.end
      BY <1>1, <1>2, LastEnd
<1>4. v[1].start = 0
  <2>1. CASE w = <<>>
    <3>1. e = 0
          BY <2>1 DEF Tiles, EndOf
    <3>2. v[1] = sp
          BY <1>1, <1>2, <2>1
    <3>3. QED
          BY <3>1, <3>2
  <2>2. CASE w # <<>>
    <3>1. 1 \in 1..L
          BY <1>1, <2>2
    <3>2. QED
          BY <1>2, <2>2, <3>1 DEF Tiles
  <2>3. QED
        BY <2>1, <2>2
<1>5. ASSUME NEW j \in 1..L + 1 PROVE v[j].start < v[j].end
  <2>1. CASE j \in 1..L
        BY <1>2, <2>1 DEF Tiles
  <2>2. CASE j = L + 1
        BY <1>2, <2>2
  <2>3. QED
        BY <1>1, <2>1, <2>2
<1>6. ASSUME NEW j \in 1..L PROVE v[j].end = v[j + 1].start
  <2>1. CASE j = L
    <3>1. EndOf(w) = w[L].end /\ EndOf(w) = e
          BY <1>1, <1>6, LastEnd DEF Tiles
    <3>2. QED
          BY <1>2, <2>1, <3>1
  <2>2. CASE j # L
    <3>1. j \in 1..L - 1 /\ j + 1 \in 1..L
          BY <1>1, <2>2
    <3>2. w[j].end = w[j + 1].start
          BY <3>1 DEF Tiles
    <3>3. QED
          BY <1>2, <3>1, <3>2
  <2>3. QED
        BY <2>1, <2>2
<1>7. Tiles(v, sp.end)
  <2>1. L + 1 - 1 = L
        BY <1>1
  <2>2. QED
        BY <1>2, <1>3, <1>4, <1>5, <1>6, <2>1 DEF Tiles
<1>8. QED
      BY <1>1, <1>2, <1>7 DEF v

(* _get_span with one run more.                                            *)
LEMMA RunAdded ==
  ASSUME NEW tgs, NEW w, NEW run, Tiles(w, run.start), Follows(w, tgs), Within(run, tgs),
         run.bioTag \in BioTags
  PROVE  Tiles(WithRun(w, run), run.end) /\ Follows(WithRun(w, run), tgs)
<1> DEFINE sp == Span(run.start, run.end, run.bioTag.tag)
           L == Len(w)
           v == WithRun(w, run)
<1>1. /\ sp \in SpanSet /\ sp.start = run.start /\ sp.end = run.end /\ sp.tag = run.bioTag.tag
      /\ run.start < run.end /\ run.start \in Nat /\ run.end \in Nat
      BY DEF Within, SpanSet, SpanTags, Span
<1>2. w \in Seq(SpanSet) /\ L \in Nat
  <2>1. w \in Seq(SpanSet)
        BY DEF Tiles
  <2>2. QED
        BY <2>1, LenProperties
<1>3. \A p \in run.start..run.end - 1 : tgs[p + 1].tag = run.bioTag.tag
      BY DEF Within
<1>4. CASE ~(w # <<>> /\ Last(w).tag = run.bioTag.tag)
  <2>1. v = Append(w, sp)
        BY <1>4 DEF WithRun
  <2> HIDE DEF v, sp
  <2>2. /\ Tiles(v, run.end) /\ Len(v) = L + 1
        /\ \A j \in 1..L : v[j] = w[j]
        /\ v[L + 1] = sp
        BY <1>1, <2>1, TileMore
  <2>3. ASSUME NEW j \in 1..L + 1, NEW p \in v[j].start..v[j].end - 1 PROVE tgs[p + 1].tag = v[j].tag
    <3>1. CASE j \in 1..L
          BY <2>2, <2>3, <3>1 DEF Follows
    <3>2. CASE j = L + 1
          BY <1>1, <1>3, <2>2, <2>3, <3>2
    <3>3. QED
          BY <1>2, <3>1, <3>2
  <2>4. ASSUME NEW j \in 1..L PROVE v[j].tag # v[j + 1].tag
    <3>1. CASE j = L
      <4>1. w # <<>> /\ Last(w) = w[L]
            BY <1>2, <2>4, LastEnd
      <4>2. w[L].tag # run.bioTag.tag
            BY <1>4, <4>1
      <4>3. QED
            BY <1>1, <2>2, <3>1, <4>2
    <3>2. CASE j # L
      <4>1. j \in 1..L - 1 /\ j + 1 \in 1..L
            BY <1>2, <3>2
      <4>2. w[j].tag # w[j + 1].tag
            BY <4>1 DEF Follows
      <4>3. QED
            BY <2>2, <4>1, <4>2
    <3>3. QED
          BY <3>1, <3>2
  <2>5. L + 1 - 1 = L
        BY <1>2
  <2>6. Follows(v, tgs)
        BY <2>2, <2>3, <2>4, <2>5 DEF Follows
  <2>7. QED
        BY <2>2, <2>6 DEF v
<1>5. CASE w # <<>> /\ Last(w).tag = run.bioTag.tag
  <2> DEFINE long == [w[L] EXCEPT !.end = run.end]
  <2>1. L \in Nat \ {0} /\ Last(w) = w[L] /\ w[L].end = run.start /\ L \in 1..L
        BY <1>2, <1>5, LastEnd DEF Tiles
  <2>2. w[L] \in SpanSet
        BY <1>2, <2>1, ElementOfSeq
  <2>3. /\ long \in SpanSet /\ long.start = w[L].start /\ long.end = run.end
        /\ long.tag = run.bioTag.tag
        BY <1>1, <1>5, <2>1, <2>2 DEF SpanSet
  <2>4. v = [w EXCEPT ![L] = long]
        BY <1>5 DEF WithRun
  <2>5. \A j \in 1..L : w[j] \in SpanSet
        BY <1>2, ElementOfSeq
  <2>6. DOMAIN w = 1..L
        BY <1>2, LenProperties
  <2> HIDE DEF v, long
  <2>7. v \in Seq(SpanSet) /\ Len(v) = L /\ v[L] = long /\ \A j \in 1..L : j # L => v[j] = w[j]
    <3>1. v[L] = long /\ \A j \in 1..L : j # L => v[j] = w[j]
          BY <2>1, <2>4, <2>6
    <3>2. DOMAIN v = 1..L /\ v = [j \in DOMAIN v |-> v[j]]
          BY <2>4, <2>6
    <3>3. v \in [1..L -> SpanSet]
      <4> HIDE DEF L
      <4>1. QED
            BY <2>3, <2>5, <3>1, <3>2
    <3>4. v \in Seq(SpanSet) /\ Len(v) = L
      <4> HIDE DEF L
      <4>1. QED
            BY <1>2, <3>3
    <3>5. QED
          BY <3>1, <3>4
  <2>8. v # <<>> /\ EndOf(v) = run.end
    <3>1. v # <<>>
          BY <2>1, <2>7, EmptySeq
    <3>2. QED
          BY <2>3, <2>7, <3>1, LastEnd
  <2>9. /\ w[1].start = 0
        /\ \A j \in 1..L : w[j].start < w[j].end
        /\ \A j \in 1..L - 1 : w[j].end = w[j + 1].start /\ w[j].tag # w[j + 1].tag
        BY <1>5 DEF Tiles, Follows
  <2>10. \A j \in 1..L : v[j].start = w[j].start /\ v[j].tag = w[j].tag
    <3>1. w[L].tag = run.bioTag.tag
          BY <1>5, <2>1
    <3>2. QED
          BY <2>3, <2>7, <3>1
  <2>11. 1 \in 1..L /\ \A j \in 1..L - 1 : j \in 1..L /\ j # L /\ j + 1 \in 1..L
         BY <2>1
  <2>12. ASSUME NEW j \in 1..L PROVE v[j].start < v[j].end
    <3>1. CASE j = L
      <4>1. w[L].start \in Nat /\ w[L].start < run.start
            BY <2>1, <2>2, <2>9 DEF SpanSet
      <4>2. QED
            BY <1>1, <2>3, <2>7, <3>1, <4>1
    <3>2. QED
          BY <2>7, <2>9, <3>1
  <2>13. Tiles(v, run.end)
    <3>1. \A j \in 1..L - 1 : v[j].end = v[j + 1].start
          BY <2>7, <2>9, <2>10, <2>11
    <3>2. v[1].start = 0
          BY <2>9, <2>10, <2>11
    <3>3. QED
          BY <2>7, <2>8, <2>12, <3>1, <3>2 DEF Tiles
  <2>14. ASSUME NEW j \in 1..L, NEW p \in v[j].start..v[j].end - 1 PROVE tgs[p + 1].tag = v[j].tag
    <3>1. CASE j # L
          BY <2>7, <2>14, <3>1 DEF Follows
    <3>2. CASE j = L /\ p \in run.start..run.end - 1
          BY <1>3, <2>3, <2>7, <3>2
    <3>3. CASE j = L /\ p \notin run.start..run.end - 1
      <4>1. w[L].start \in Nat
            BY <2>2 DEF SpanSet
      <4>2. p \in w[L].start..w[L].end - 1
            BY <1>1, <2>1, <2>3, <2>7, <2>14, <3>3, <4>1
      <4>3. tgs[p + 1].tag = w[L].tag
            BY <2>1, <4>2 DEF Follows
      <4>4. QED
            BY <2>10, <3>3, <4>3
    <3>4. QED
          BY <3>1, <3>2, <3>3
  <2>15. Follows(v, tgs)
    <3>1. \A j \in 1..L - 1 : v[j].tag # v[j + 1].tag
          BY <2>9, <2>10, <2>11
    <3>2. QED
          BY <2>7, <2>14, <3>1 DEF Follows
  <2>16. QED
         BY <2>13, <2>15 DEF v
<1>6. QED
      BY <1>4, <1>5

TypedRun(run) == run.start \in Nat /\ run.end \in Nat /\ run.bioTag \in BioTags

LEMMA RunAddedType ==
  ASSUME NEW w \in Seq(SpanSet), NEW run, TypedRun(run)
  PROVE  WithRun(w, run) \in Seq(SpanSet)
<1> DEFINE sp == Span(run.start, run.end, run.bioTag.tag)
           L == Len(w)
           v == WithRun(w, run)
<1>1. sp \in SpanSet /\ run.end \in Nat
      BY DEF TypedRun, SpanSet, SpanTags, Span
<1>2. L \in Nat /\ DOMAIN w = 1..L /\ \A j \in 1..L : w[j] \in SpanSet
      BY LenProperties, ElementOfSeq
<1>3. CASE ~(w # <<>> /\ Last(w).tag = run.bioTag.tag)
  <2>1. v = Append(w, sp)
        BY <1>3 DEF WithRun
  <2> HIDE DEF v, sp
  <2>2. v \in Seq(SpanSet)
        BY <1>1, <2>1, AppendProperties
  <2>3. QED
        BY <2>2 DEF v
<1>4. CASE w # <<>> /\ Last(w).tag = run.bioTag.tag
  <2> DEFINE long == [w[L] EXCEPT !.end = run.end]
  <2>1. L \in 1..L
        BY <1>2, <1>4, LastEnd
  <2>2. long \in SpanSet
        BY <1>1, <1>2, <2>1 DEF SpanSet
  <2>3. v = [w EXCEPT ![L] = long]
        BY <1>4 DEF WithRun
  <2> HIDE DEF v, long
  <2>4. DOMAIN v = 1..L /\ v = [j \in DOMAIN v |-> v[j]]
        BY <1>2, <2>3
  <2>5. \A j \in 1..L : v[j] \in SpanSet
        BY <1>2, <2>2, <2>3
  <2>6. v \in Seq(SpanSet)
    <3> HIDE DEF L
    <3>1. v \in [1..L -> SpanSet]
          BY <2>4, <2>5
    <3>2. QED
          BY <1>2, <3>1
  <2>7. QED
        BY <2>6 DEF v
<1>5. QED
      BY <1>3, <1>4

LEMMA PaddedType ==
  ASSUME NEW w \in Seq(SpanSet), NEW e \in Nat
  PROVE  PaddedTo(w, e) \in Seq(SpanSet)
<1> DEFINE sp == Span(EndOf(w), e, "OTHER")
<1>1. sp \in SpanSet
      BY LastEnd DEF SpanSet, SpanTags, Span
<1> HIDE DEF sp
<1>2. Append(w, sp) \in Seq(SpanSet)
      BY <1>1, AppendProperties
<1>3. QED
      BY <1>2 DEF PaddedTo, sp

LEMMA EntityAddedType ==
  ASSUME NEW w \in Seq(SpanSet), NEW run, TypedRun(run), NEW next, TypedRun(next)
  PROVE  WithEntity(w, run, next) \in Seq(SpanSet)
<1> DEFINE sp == Span(run.start, next.end, run.bioTag.tag)
           v == PaddedTo(w, run.start)
<1>1. sp \in SpanSet /\ run.start \in Nat
      BY DEF TypedRun, SpanSet, SpanTags, Span
<1>2. v \in Seq(SpanSet)
      BY <1>1, PaddedType
<1> HIDE DEF sp, v
<1>3. Append(v, sp) \in Seq(SpanSet)
      BY <1>1, <1>2, AppendProperties
<1>4. QED
      BY <1>3 DEF WithEntity, sp, v

(* The loops over the runs, as the lists of spans after each run.          *)
LEMMA LooseLoop ==
  ASSUME NEW runs, Len(runs) \in Nat, \A k \in 1..Len(runs) : TypedRun(runs[k])
  PROVE  \E f : /\ LooseSpans(runs) = f[Len(runs)] /\ f[0] = <<>>
                /\ \A k \in 1..Len(runs) : f[k] = WithRun(f[k - 1], runs[k])
<1> DEFINE N == Len(runs)
           S == Seq(SpanSet)
           Body(f, k) == IF k = 0 THEN <<>> ELSE WithRun(f[k - 1], runs[k])
           Loop(f) == f = [k \in 0..N |-> Body(f, k)]
           step == [p \in (1..N) \X S |-> WithRun(p[2], runs[p[1]])]
           upto == CHOOSE f : Loop(f)
<1>1. \E f : Loop(f)
  <2>1. /\ step \in [(1..N) \X S -> S]
        /\ \A k \in 1..N, v \in S : step[<<k, v>>] = WithRun(v, runs[k])
    <3>1. \A k \in 1..N, v \in S : WithRun(v, runs[k]) \in S
          BY RunAddedType
    <3> HIDE DEF N, S
    <3>2. QED
          BY <3>1
  <2>2. <<>> \in S
        BY EmptySeq
  <2> HIDE DEF step, S
  <2>3. PICK f \in [0..N -> S] : f[0] = <<>> /\ \A k \in 1..N : f[k] = step[<<k, f[k - 1]>>]
    <3>1. \E f : Solves(f, S, <<>>, N, step)
          BY <2>1, <2>2, Recursion
    <3>2. QED
          BY <3>1 DEF Solves
  <2>4. ASSUME NEW k \in 0..N PROVE f[k] = Body(f, k)
    <3>1. CASE k = 0
          BY <2>3, <3>1
    <3>2. CASE k \in 1..N
      <4>1. k - 1 \in 0..N /\ f[k - 1] \in S /\ k # 0
            BY <2>3, <3>2
      <4>2. QED
            BY <2>1, <2>3, <3>2, <4>1
    <3>3. QED
          BY <3>1, <3>2
  <2>5. f = [k \in 0..N |-> f[k]]
        OBVIOUS
  <2> HIDE DEF Body, N
  <2>6. Loop(f)
        BY <2>4, <2>5
  <2>7. QED
        BY <2>6
<1>2. Loop(upto)
      BY <1>1
<1>3. \A k \in 0..N : upto[k] = Body(upto, k)
  <2> HIDE DEF upto, Body, N
  <2>1. QED
        BY <1>2
<1>4. LooseSpans(runs) = upto[N]
      BY DEF LooseSpans
<1> HIDE DEF upto, Loop
<1>5. 0 \in 0..N /\ \A k \in 1..N : k \in 0..N /\ k # 0
      OBVIOUS
<1>6. upto[0] = <<>> /\ \A k \in 1..N : upto[k] = WithRun(upto[k - 1], runs[k])
      BY <1>3, <1>5
<1>7. QED
      BY <1>4, <1>6

LEMMA StrictLoop ==
  ASSUME NEW runs, Len(runs) \in Nat \ {0}, \A k \in 1..Len(runs) : TypedRun(runs[k])
  PROVE  \E f : /\ StrictSpans(runs) = f[Len(runs)] /\ f[1] = <<>>
                /\ \A k \in 2..Len(runs) : f[k] = WithEntity(f[k - 1], runs[k - 1], runs[k])
<1> DEFINE N == Len(runs)
           S == Seq(SpanSet)
           Next1(k, v) == IF k < 2 THEN <<>> ELSE WithEntity(v, runs[k - 1], runs[k])
           Body(f, k) == IF k < 2 THEN <<>> ELSE WithEntity(f[k - 1], runs[k - 1], runs[k])
           Loop(f) == f = [k \in 0..N |-> Body(f, k)]
           step == [p \in (1..N) \X S |-> Next1(p[1], p[2])]
           upto == CHOOSE f : Loop(f)
<1>1. \E f : Loop(f)
  <2>1. /\ step \in [(1..N) \X S -> S]
        /\ \A k \in 1..N, v \in S : step[<<k, v>>] = Next1(k, v)
    <3>1. ASSUME NEW k \in 1..N, NEW v \in S PROVE Next1(k, v) \in S
      <4>1. <<>> \in S
            BY EmptySeq
      <4>2. CASE k < 2
            BY <4>1, <4>2
      <4>3. CASE ~(k < 2)
        <5>1. k - 1 \in 1..N
              BY <4>3
        <5>2. WithEntity(v, runs[k - 1], runs[k]) \in S
              BY <5>1, EntityAddedType
        <5>3. QED
              BY <4>3, <5>2
      <4>4. QED
            BY <4>2, <4>3
    <3> HIDE DEF N, S, Next1
    <3>2. QED
          BY <3>1
  <2>2. <<>> \in S /\ N \in Nat
        BY EmptySeq
  <2> HIDE DEF step, S
  <2>3. PICK f \in [0..N -> S] : f[0] = <<>> /\ \A k \in 1..N : f[k] = step[<<k, f[k - 1]>>]
    <3> HIDE DEF N
    <3>1. \E f : Solves(f, S, <<>>, N, step)
          BY <2>1, <2>2, Recursion
    <3>2. QED
          BY <3>1 DEF Solves
  <2>4. ASSUME NEW k \in 0..N PROVE f[k] = Body(f, k)
    <3>1. CASE k = 0
          BY <2>3, <3>1
    <3>2. CASE k \in 1..N
      <4>1. k - 1 \in 0..N /\ f[k - 1] \in S
            BY <2>3, <3>2
      <4>2. f[k] = Next1(k, f[k - 1])
        <5> HIDE DEF Next1
        <5>1. QED
              BY <2>1, <2>3, <3>2, <4>1
      <4>3. QED
            BY <4>2
    <3>3. QED
          BY <3>1, <3>2
  <2>5. f = [k \in 0..N |-> f[k]]
        OBVIOUS
  <2> HIDE DEF Body, N
  <2>6. Loop(f)
        BY <2>4, <2>5
  <2>7. QED
        BY <2>6
<1>2. Loop(upto)
      BY <1>1
<1>3. \A k \in 0..N : upto[k] = Body(upto, k)
  <2> HIDE DEF upto, Body, N
  <2>1. QED
        BY <1>2
<1>4. StrictSpans(runs) = upto[N]
      BY DEF StrictSpans
<1> HIDE DEF upto, Loop
<1>5. 1 \in 0..N /\ 1 < 2 /\ \A k \in 2..N : k \in 0..N /\ ~(k < 2)
      OBVIOUS
<1>6. upto[1] = <<>> /\ \A k \in 2..N : upto[k] = WithEntity(upto[k - 1], runs[k - 1], runs[k])
      BY <1>3, <1>5
<1>7. QED
      BY <1>4, <1>6

LEMMA RunsAreTyped ==
  ASSUME NEW tgs, \A i \in 1..Len(tgs) : tgs[i] \in BioTags, NEW runs, RunsOf(runs, tgs)
  PROVE  /\ Len(runs) \in Nat \ {0}
         /\ \A k \in 1..Len(runs) : TypedRun(runs[k]) /\ Within(runs[k], tgs)
<1>1. ASSUME NEW k \in 1..Len(runs) PROVE TypedRun(runs[k]) /\ Within(runs[k], tgs)
  <2> DEFINE run == runs[k]
  <2>1. Within(run, tgs)
        BY DEF RunsOf
  <2> HIDE DEF run
  <2>2. run.start \in Nat /\ run.end \in Nat /\ run.start < run.end /\ run.end <= Len(tgs)
        BY <2>1 DEF Within
  <2>3. Len(tgs) \in Nat
        BY DEF RunsOf, Within
  <2>4. tgs[run.start + 1] = run.bioTag
        BY <2>1, <2>2 DEF Within
  <2>5. run.start + 1 \in 1..Len(tgs)
        BY <2>2, <2>3
  <2>6. QED
        BY <2>1, <2>2, <2>4, <2>5 DEF TypedRun, run
<1>2. QED
      BY <1>1 DEF RunsOf

LEMMA LooseSpansFollow ==
  ASSUME NEW tgs, \A i \in 1..Len(tgs) : tgs[i] \in BioTags, NEW runs, RunsOf(runs, tgs)
  PROVE  Tiles(LooseSpans(runs), Len(tgs)) /\ Follows(LooseSpans(runs), tgs)
<1> DEFINE N == Len(runs)
           EndAfter(k) == IF k = 0 THEN 0 ELSE runs[k].end
<1>1. N \in Nat \ {0} /\ \A k \in 1..N : TypedRun(runs[k]) /\ Within(runs[k], tgs)
      BY RunsAreTyped
<1>2. PICK f : /\ LooseSpans(runs) = f[N] /\ f[0] = <<>>
               /\ \A k \in 1..N : f[k] = WithRun(f[k - 1], runs[k])
      BY <1>1, LooseLoop
<1> DEFINE Wrong == {k \in 0..N : ~(Tiles(f[k], EndAfter(k)) /\ Follows(f[k], tgs))}
<1>3. ASSUME NEW k \in Wrong, \A l \in Wrong : k <= l PROVE FALSE
  <2>1. k # 0
        BY <1>2, <1>3, NoSpans
  <2>2. k \in 1..N /\ k - 1 \in 0..N /\ k - 1 < k
        BY <1>1, <2>1
  <2>3. Tiles(f[k - 1], EndAfter(k - 1)) /\ Follows(f[k - 1], tgs)
        BY <1>1, <1>3, <2>2
  <2>4. EndAfter(k - 1) = runs[k].start
    <3>1. CASE k = 1
          BY <3>1 DEF RunsOf
    <3>2. CASE k # 1
      <4>1. k - 1 \in 1..N - 1 /\ k - 1 # 0 /\ k - 1 + 1 = k
            BY <1>1, <2>2, <3>2
      <4>2. runs[k - 1].end = runs[k - 1 + 1].start
            BY <4>1 DEF RunsOf
      <4>3. QED
            BY <4>1, <4>2
    <3>3. QED
          BY <3>1, <3>2
  <2>5. runs[k].bioTag \in BioTags /\ Within(runs[k], tgs)
        BY <1>1, <2>2 DEF TypedRun
  <2>6. Tiles(f[k], runs[k].end) /\ Follows(f[k], tgs)
    <3> HIDE DEF EndAfter
    <3>1. f[k] = WithRun(f[k - 1], runs[k])
          BY <1>2, <2>2
    <3>2. Tiles(f[k - 1], runs[k].start)
          BY <2>3, <2>4
    <3>3. QED
          BY <2>3, <2>5, <3>1, <3>2, RunAdded
  <2>7. QED
        BY <1>3, <2>1, <2>6
<1>4. Wrong \subseteq Nat
      BY <1>1
<1>5. Wrong = {}
  <2> HIDE DEF Wrong
  <2>1. QED
        BY <1>3, <1>4, LeastElement
<1>6. N \in 0..N /\ EndAfter(N) = Len(tgs)
      BY <1>1 DEF RunsOf
<1> HIDE DEF EndAfter
<1>7. Tiles(f[N], EndAfter(N)) /\ Follows(f[N], tgs)
      BY <1>5, <1>6
<1>8. QED
      BY <1>2, <1>6, <1>7

(* The gap before a position is filled.                                    *)
LEMMA PaddedTiles ==
  ASSUME NEW w, NEW e, Tiles(w, e), NEW x \in Nat, e <= x
  PROVE  /\ Tiles(PaddedTo(w, x), x)
         /\ PaddedTo(w, x) = IF e = x THEN w ELSE Append(w, Span(e, x, "OTHER"))
<1> DEFINE sp == Span(e, x, "OTHER")
<1>1. EndOf(w) = e /\ e \in Nat
      BY LastEnd DEF Tiles
<1>2. CASE e = x
      BY <1>1, <1>2 DEF PaddedTo
<1>3. CASE e # x
  <2>1. sp \in SpanSet /\ sp.start = e /\ sp.end = x /\ sp.start < sp.end
        BY <1>1, <1>3 DEF SpanSet, SpanTags, Span
  <2>2. PaddedTo(w, x) = Append(w, sp)
        BY <1>1, <1>3 DEF PaddedTo
  <2> HIDE DEF sp
  <2>3. Tiles(Append(w, sp), x)
        BY <2>1, TileMore
  <2>4. QED
        BY <1>3, <2>2, <2>3 DEF sp
<1>4. QED
      BY <1>2, <1>3

(* _get_strict_span with one pair of runs more.                            *)
LEMMA EntityAdded ==
  ASSUME NEW w, NEW e, Tiles(w, e), NEW run, TypedRun(run), NEW next, TypedRun(next),
         run.start < next.end, e <= run.start, IsEntity(run, next)
  PROVE  Tiles(WithEntity(w, run, next), next.end)
<1> DEFINE sp == Span(run.start, next.end, run.bioTag.tag)
           v == PaddedTo(w, run.start)
<1>1. /\ sp \in SpanSet /\ sp.start = run.start /\ sp.end = next.end /\ sp.start < sp.end
      /\ run.start \in Nat
      BY DEF TypedRun, SpanSet, SpanTags, Span
<1>2. Tiles(v, run.start)
      BY <1>1, PaddedTiles
<1>3. WithEntity(w, run, next) = Append(v, sp)
      BY DEF WithEntity
<1> HIDE DEF sp, v
<1>4. QED
      BY <1>1, <1>2, <1>3, TileMore

(* What is behind the spans after the k-th run: the run itself if it may   *)
(* open an entity.                                                         *)
Behind(w, run) ==
  /\ Tiles(w, EndOf(w)) /\ EndOf(w) <= run.end
  /\ run.bioTag.bio = "B-" => EndOf(w) <= run.start

LEMMA StrictSpansBehind ==
  ASSUME NEW tgs, \A i \in 1..Len(tgs) : tgs[i] \in BioTags, NEW runs, RunsOf(runs, tgs),
         NEW f, f[1] = <<>>,
         \A k \in 2..Len(runs) : f[k] = WithEntity(f[k - 1], runs[k - 1], runs[k])
  PROVE  \A k \in 1..Len(runs) : Behind(f[k], runs[k])
<1> DEFINE N == Len(runs)
           Wrong == {k \in 1..N : ~Behind(f[k], runs[k])}
<1>1. N \in Nat \ {0} /\ \A k \in 1..N : TypedRun(runs[k]) /\ Within(runs[k], tgs)
      BY RunsAreTyped
<1>2. ASSUME NEW k \in Wrong, \A l \in Wrong : k <= l PROVE FALSE
  <2>1. k # 1
    <3>1. Tiles(<<>>, 0) /\ EndOf(<<>>) = 0
          BY NoSpans DEF EndOf
    <3>2. 1 \in 1..N
          BY <1>1
    <3>3. runs[1].start \in Nat /\ runs[1].end \in Nat
          BY <1>1, <3>2 DEF TypedRun
    <3>4. Behind(<<>>, runs[1])
          BY <3>1, <3>3 DEF Behind
    <3>5. QED
          BY <1>2, <3>4
  <2>2. k \in 2..N /\ k \in 1..N /\ k - 1 \in 1..N /\ k - 1 \in 1..N - 1 /\ k - 1 < k /\ k - 1 + 1 = k
        BY <1>1, <2>1
  <2> DEFINE run == runs[k - 1]
             next == runs[k]
             w == f[k - 1]
  <2>3. Behind(w, run)
        BY <1>2, <2>2
  <2>4. f[k] = WithEntity(w, run, next)
        BY <2>2
  <2>5. run.end = next.start
    <3>1. runs[k - 1].end = runs[k - 1 + 1].start
          BY <2>2 DEF RunsOf
    <3>2. QED
          BY <2>2, <3>1
  <2>6. TypedRun(run) /\ TypedRun(next) /\ run.start < run.end /\ next.start < next.end
        BY <1>1, <2>2 DEF Within
  <2>7. ~Behind(f[k], next)
        BY <1>2
  <2> HIDE DEF run, next, w
  <2>8. w \in Seq(SpanSet) /\ EndOf(w) \in Nat
    <3>1. w \in Seq(SpanSet)
          BY <2>3 DEF Behind, Tiles
    <3>2. QED
          BY <3>1, LastEnd
  <2>9. CASE IsEntity(run, next)
    <3>1. EndOf(w) <= run.start /\ Tiles(w, EndOf(w))
          BY <2>3, <2>9 DEF Behind, IsEntity
    <3>2. run.start < next.end
          BY <2>5, <2>6 DEF TypedRun
    <3>3. Tiles(f[k], next.end)
          BY <2>4, <2>6, <2>9, <3>1, <3>2, EntityAdded
    <3>4. EndOf(f[k]) = next.end
          BY <3>3 DEF Tiles
    <3>5. next.bioTag.bio # "B-" /\ next.end \in Nat
          BY <2>6, <2>9 DEF IsEntity, TypedRun
    <3>6. QED
          BY <2>7, <3>3, <3>4, <3>5 DEF Behind
  <2>10. CASE ~IsEntity(run, next)
    <3>1. f[k] = w
          BY <2>4, <2>10 DEF WithEntity
    <3>2. EndOf(w) <= next.start /\ EndOf(w) <= next.end
          BY <2>3, <2>5, <2>6, <2>8 DEF Behind, TypedRun
    <3>3. QED
          BY <2>3, <2>7, <3>1, <3>2 DEF Behind
  <2>11. QED
         BY <2>9, <2>10
<1>3. Wrong \subseteq Nat
      BY <1>1
<1>4. Wrong = {}
  <2> HIDE DEF Wrong
  <2>1. QED
        BY <1>2, <1>3, LeastElement
<1>5. QED
      BY <1>4

LEMMA StrictSpansTile ==
  ASSUME NEW tgs, \A i \in 1..Len(tgs) : tgs[i] \in BioTags, NEW runs, RunsOf(runs, tgs)
  PROVE  /\ Tiles(StrictSpans(runs), EndOf(StrictSpans(runs)))
         /\ EndOf(StrictSpans(runs)) <= Len(tgs)
<1>1. /\ Len(runs) \in Nat \ {0} /\ \A k \in 1..Len(runs) : TypedRun(runs[k])
      /\ runs[Len(runs)].end = Len(tgs)
      BY RunsAreTyped DEF RunsOf
<1>2. PICK f : /\ StrictSpans(runs) = f[Len(runs)] /\ f[1] = <<>>
               /\ \A k \in 2..Len(runs) : f[k] = WithEntity(f[k - 1], runs[k - 1], runs[k])
      BY <1>1, StrictLoop
<1>3. Len(runs) \in 1..Len(runs)
      BY <1>1
<1>4. Behind(f[Len(runs)], runs[Len(runs)])
      BY <1>2, <1>3, StrictSpansBehind
<1>5. QED
      BY <1>1, <1>2, <1>4 DEF Behind

(* create_details_from_biotags.                                            *)
LEMMA DetailsTile ==
  ASSUME NEW tgs, IsSeq(tgs), \A i \in 1..Len(tgs) : tgs[i] \in BioTags, Len(tgs) > 0,
         NEW strict
  PROVE  /\ Tiles(CreateDetails(Len(tgs), tgs, strict), Len(tgs))
         /\ ~strict => Follows(CreateDetails(Len(tgs), tgs, strict), tgs)
<1> DEFINE runs == Grouped(tgs)
           L == Len(tgs)
<1>1. RunsOf(runs, tgs) /\ L \in Nat
      BY GroupedToRuns, AnySeq
<1> HIDE DEF runs
<1>2. /\ Tiles(StrictSpans(runs), EndOf(StrictSpans(runs))) /\ EndOf(StrictSpans(runs)) <= L
      /\ Tiles(LooseSpans(runs), L) /\ Follows(LooseSpans(runs), tgs)
      BY <1>1, StrictSpansTile, LooseSpansFollow
<1>3. Tiles(PaddedTo(StrictSpans(runs), L), L)
      BY <1>1, <1>2, PaddedTiles
<1>4. PaddedTo(LooseSpans(runs), L) = LooseSpans(runs)
      BY <1>2 DEF Tiles, PaddedTo
<1>5. QED
      BY <1>2, <1>3, <1>4 DEF CreateDetails, runs

-----------------------------------------------------------------------------
(***************************************************************************)
(* The entities of the strict mode.                                        *)
(***************************************************************************)
Named(w) == {w[j] : j \in {j \in 1..Len(w) : w[j].tag # "OTHER"}}

LEMMA NamedAppend ==
  ASSUME NEW w \in Seq(SpanSet), NEW sp \in SpanSet
  PROVE  /\ sp.tag = "OTHER" => Named(Append(w, sp)) = Named(w)
         /\ sp.tag # "OTHER" => Named(Append(w, sp)) = Named(w) \cup {sp}
<1> DEFINE v == Append(w, sp)
           L == Len(w)
<1>1. /\ Len(v) = L + 1 /\ v[L + 1] = sp /\ L \in Nat
      /\ \A j \in 1..L : v[j] = w[j]
      BY LenProperties, AppendProperties
<1> HIDE DEF v
<1>2. 1..L + 1 = (1..L) \cup {L + 1}
      BY <1>1
<1>3. ASSUME NEW x PROVE x \in Named(v) <=> x \in Named(w) \/ (x = sp /\ sp.tag # "OTHER")
  <2>1. x \in Named(v) <=> \E j \in 1..L + 1 : v[j].tag # "OTHER" /\ x = v[j]
        BY <1>1 DEF Named
  <2>2. x \in Named(w) <=> \E j \in 1..L : w[j].tag # "OTHER" /\ x = w[j]
        BY DEF Named
  <2> HIDE DEF L
  <2>3. QED
        BY <1>1, <1>2, <2>1, <2>2
<1>4. sp.tag = "OTHER" => Named(v) = Named(w)
      BY <1>3
<1>5. sp.tag # "OTHER" => Named(v) = Named(w) \cup {sp}
      BY <1>3
<1>6. QED
      BY <1>4, <1>5 DEF v

LEMMA NamedPadded ==
  ASSUME NEW w \in Seq(SpanSet), NEW e \in Nat
  PROVE  Named(PaddedTo(w, e)) = Named(w)
<1> DEFINE sp == Span(EndOf(w), e, "OTHER")
<1>1. sp \in SpanSet /\ sp.tag = "OTHER"
      BY LastEnd DEF SpanSet, SpanTags, Span
<1>2. PaddedTo(w, e) = w \/ PaddedTo(w, e) = Append(w, sp)
      BY DEF PaddedTo
<1> HIDE DEF sp
<1>3. Named(Append(w, sp)) = Named(w)
      BY <1>1, NamedAppend
<1>4. QED
      BY <1>2, <1>3

(* The entity of the l-th run with the one before it.                      *)
EntityOf(runs, l) == Span(runs[l - 1].start, runs[l].end, runs[l - 1].bioTag.tag)
Opened(runs, l) == IsEntity(runs[l - 1], runs[l]) /\ runs[l - 1].bioTag.tag # "OTHER"
EntitiesUpTo(runs, k) == {EntityOf(runs, l) : l \in {l \in 2..k : Opened(runs, l)}}

LEMMA StrictSpansNamed ==
  ASSUME NEW tgs, \A i \in 1..Len(tgs) : tgs[i] \in BioTags, NEW runs, RunsOf(runs, tgs)
  PROVE  /\ StrictSpans(runs) \in Seq(SpanSet)
         /\ Named(StrictSpans(runs)) = EntitiesUpTo(runs, Len(runs))
<1> DEFINE N == Len(runs)
<1>1. N \in Nat \ {0} /\ \A k \in 1..N : TypedRun(runs[k])
      BY RunsAreTyped
<1>2. PICK f : /\ StrictSpans(runs) = f[N] /\ f[1] = <<>>
               /\ \A k \in 2..N : f[k] = WithEntity(f[k - 1], runs[k - 1], runs[k])
      BY <1>1, StrictLoop
<1>3. \A k \in 1..N : f[k] \in Seq(SpanSet)
      BY <1>2, StrictSpansBehind DEF Behind, Tiles
<1> DEFINE Wrong == {k \in 1..N : Named(f[k]) # EntitiesUpTo(runs, k)}
<1>4. ASSUME NEW k \in Wrong, \A l \in Wrong : k <= l PROVE FALSE
  <2>1. k # 1
    <3>1. Named(<<>>) = {}
          BY EmptySeq DEF Named
    <3>2. EntitiesUpTo(runs, 1) = {}
          BY DEF EntitiesUpTo
    <3>3. QED
          BY <1>2, <1>4, <3>1, <3>2
  <2>2. k \in 2..N /\ k \in 1..N /\ k - 1 \in 1..N /\ k - 1 < k
        BY <1>1, <2>1
  <2>3. Named(f[k - 1]) = EntitiesUpTo(runs, k - 1)
        BY <1>4, <2>2
  <2>4. 2..k = (2..k - 1) \cup {k}
        BY <2>2
  <2>5. /\ ~Opened(runs, k) => EntitiesUpTo(runs, k) = EntitiesUpTo(runs, k - 1)
        /\ Opened(runs, k) => EntitiesUpTo(runs, k) = EntitiesUpTo(runs, k - 1) \cup {EntityOf(runs, k)}
    <3>1. ASSUME NEW x
          PROVE  x \in EntitiesUpTo(runs, k)
                   <=> x \in EntitiesUpTo(runs, k - 1) \/ (Opened(runs, k) /\ x = EntityOf(runs, k))
          BY <2>4 DEF EntitiesUpTo
    <3>2. QED
          BY <3>1
  <2> DEFINE run == runs[k - 1]
             next == runs[k]
             w == f[k - 1]
             sp == Span(run.start, next.end, run.bioTag.tag)
             v == PaddedTo(w, run.start)
  <2>6. w \in Seq(SpanSet) /\ TypedRun(run) /\ TypedRun(next)
        BY <1>1, <1>3, <2>2
  <2>7. f[k] = IF IsEntity(run, next) THEN Append(v, sp) ELSE w
        BY <1>2, <2>2 DEF WithEntity
  <2>8. sp = EntityOf(runs, k) /\ sp.tag = run.bioTag.tag
        BY DEF EntityOf, Span
  <2>9. Opened(runs, k) <=> IsEntity(run, next) /\ sp.tag # "OTHER"
        BY <2>8 DEF Opened
  <2>10. Named(w) = EntitiesUpTo(runs, k - 1)
         BY <2>3
  <2>11. Named(f[k]) # EntitiesUpTo(runs, k)
         BY <1>4
  <2>12. sp \in SpanSet /\ run.start \in Nat
         BY <2>6 DEF TypedRun, SpanSet, SpanTags, Span
  <2> HIDE DEF run, next, w, sp
  <2>13. v \in Seq(SpanSet) /\ Named(v) = Named(w)
         BY <2>6, <2>12, PaddedType, NamedPadded
  <2> HIDE DEF v
  <2>14. /\ sp.tag = "OTHER" => Named(Append(v, sp)) = Named(v)
         /\ sp.tag # "OTHER" => Named(Append(v, sp)) = Named(v) \cup {sp}
         BY <2>12, <2>13, NamedAppend
  <2>15. QED
         BY <2>5, <2>7, <2>8, <2>9, <2>10, <2>11, <2>13, <2>14
<1>5. Wrong \subseteq Nat
      BY <1>1
<1>6. Wrong = {}
  <2> HIDE DEF Wrong
  <2>1. QED
        BY <1>4, <1>5, LeastElement
<1>7. N \in 1..N
      BY <1>1
<1>8. QED
      BY <1>2, <1>3, <1>6, <1>7

(* A run goes as far as it can.                                            *)
LEMMA RunsAreMaximal ==
  ASSUME NEW tgs, NEW runs, RunsOf(runs, tgs), NEW k \in 1..Len(runs)
  PROVE  /\ runs[k].start > 0 => tgs[runs[k].start] # runs[k].bioTag
         /\ runs[k].end < Len(tgs) =>
              /\ k + 1 \in 1..Len(runs) /\ runs[k + 1].start = runs[k].end
              /\ tgs[runs[k].end + 1] # runs[k].bioTag
<1> DEFINE N == Len(runs)
<1>1. N \in Nat \ {0} /\ \A l \in 1..N : Within(runs[l], tgs)
      BY DEF RunsOf
<1>2. Len(tgs) \in Nat /\ runs[k].start \in Nat /\ runs[k].end \in Nat /\ runs[1].start = 0
      BY <1>1 DEF RunsOf, Within
<1>3. ASSUME runs[k].start > 0 PROVE tgs[runs[k].start] # runs[k].bioTag
  <2>1. k # 1
        BY <1>2, <1>3
  <2>2. k - 1 \in 1..N - 1 /\ k - 1 \in 1..N /\ k - 1 + 1 = k
        BY <1>1, <2>1
  <2>3. runs[k - 1].end = runs[k].start /\ runs[k - 1].bioTag # runs[k].bioTag
    <3>1. runs[k - 1].end = runs[k - 1 + 1].start /\ runs[k - 1].bioTag # runs[k - 1 + 1].bioTag
          BY <2>2 DEF RunsOf
    <3>2. QED
          BY <2>2, <3>1
  <2> DEFINE prev == runs[k - 1]
             p == prev.end - 1
  <2>4. Within(prev, tgs) /\ prev.end \in Nat
        BY <1>1, <2>2 DEF Within
  <2>5. prev.end = runs[k].start /\ prev.bioTag # runs[k].bioTag
        BY <2>3
  <2> HIDE DEF prev
  <2>6. p \in prev.start..prev.end - 1 /\ p + 1 = prev.end
        BY <2>4 DEF Within
  <2>7. tgs[p + 1] = prev.bioTag
    <3> HIDE DEF p
    <3>1. QED
          BY <2>4, <2>6 DEF Within
  <2>8. QED
        BY <2>5, <2>6, <2>7
<1>4. ASSUME runs[k].end < Len(tgs)
      PROVE  /\ k + 1 \in 1..N /\ runs[k + 1].start = runs[k].end
             /\ tgs[runs[k].end + 1] # runs[k].bioTag
  <2>1. k # N
        BY <1>2, <1>4 DEF RunsOf
  <2>2. k \in 1..N - 1 /\ k + 1 \in 1..N
        BY <1>1, <2>1
  <2>3. runs[k].end = runs[k + 1].start /\ runs[k].bioTag # runs[k + 1].bioTag
        BY <2>2 DEF RunsOf
  <2> DEFINE following == runs[k + 1]
             p == following.start
  <2>4. Within(following, tgs)
        BY <1>1, <2>2
  <2>5. runs[k].end = following.start /\ runs[k].bioTag # following.bioTag
        BY <2>3
  <2> HIDE DEF following
  <2>6. p \in following.start..following.end - 1
        BY <2>4 DEF Within
  <2>7. tgs[p + 1] = following.bioTag
    <3> HIDE DEF p
    <3>1. QED
          BY <2>4, <2>6 DEF Within
  <2>8. tgs[runs[k].end + 1] # runs[k].bioTag
        BY <2>5, <2>7
  <2>9. QED
        BY <2>2, <2>3, <2>8
<1>5. QED
      BY <1>3, <1>4

(* Every position lies in a run.                                           *)
LEMMA RunsCover ==
  ASSUME NEW tgs, NEW runs, RunsOf(runs, tgs), NEW q \in 0..Len(tgs) - 1
  PROVE  \E k \in 1..Len(runs) : q \in runs[k].start..runs[k].end - 1
<1> DEFINE N == Len(runs)
           L == Len(tgs)
           Wrong == {p \in 0..L - 1 : ~\E k \in 1..N : p \in runs[k].start..runs[k].end - 1}
<1>1. /\ N \in Nat \ {0} /\ \A l \in 1..N : Within(runs[l], tgs)
      /\ runs[1].start = 0
      BY DEF RunsOf
<1>2. /\ \A l \in 1..N : runs[l].start \in Nat /\ runs[l].end \in Nat /\ runs[l].start < runs[l].end
      /\ L \in Nat /\ 1 \in 1..N
      BY <1>1 DEF Within, RunsOf
<1>3. ASSUME NEW p \in Wrong, \A o \in Wrong : p <= o PROVE FALSE
  <2>1. p # 0
    <3>1. 0 \in runs[1].start..runs[1].end - 1
          BY <1>1, <1>2
    <3>2. QED
          BY <1>2, <1>3, <3>1
  <2>2. p \in 0..L - 1 /\ p - 1 \in 0..L - 1 /\ p - 1 < p
        BY <1>2, <2>1
  <2>3. PICK k \in 1..N : p - 1 \in runs[k].start..runs[k].end - 1
    <3>1. p \in Nat /\ \A o \in Wrong : p <= o
          BY <1>3, <2>2
    <3>2. p - 1 \notin Wrong
      <4> HIDE DEF Wrong
      <4>1. QED
            BY <3>1
    <3>3. QED
          BY <2>2, <3>2
  <2>4. p \notin runs[k].start..runs[k].end - 1
        BY <1>3
  <2>5. p = runs[k].end /\ runs[k].end < L
        BY <1>2, <2>2, <2>3, <2>4
  <2>6. k + 1 \in 1..N /\ runs[k + 1].start = p
        BY <2>5, RunsAreMaximal
  <2>7. p \in runs[k + 1].start..runs[k + 1].end - 1
    <3>1. ASSUME NEW a \in Nat, NEW b \in Nat, a < b PROVE a \in a..b - 1
          BY <3>1
    <3>2. runs[k + 1].start \in Nat /\ runs[k + 1].end \in Nat /\ runs[k + 1].start < runs[k + 1].end
          BY <1>2, <2>6
    <3>3. QED
          BY <2>6, <3>1, <3>2
  <2>8. QED
        BY <1>3, <2>6, <2>7
<1>4. Wrong \subseteq Nat
      BY <1>2
<1>5. Wrong = {}
  <2> HIDE DEF Wrong
  <2>1. QED
        BY <1>3, <1>4, LeastElement
<1>6. QED
      BY <1>5

(* Two runs that make an entity: it is as long as it can be.               *)
LEMMA RunsMakeLongest ==
  ASSUME NEW tgs, \A i \in 1..Len(tgs) : tgs[i] \in BioTags, NEW runs, RunsOf(runs, tgs),
         NEW l \in 2..Len(runs), IsEntity(runs[l - 1], runs[l])
  PROVE  /\ LongestAt(tgs, runs[l - 1].start, runs[l].end, runs[l - 1].bioTag.tag)
         /\ runs[l - 1].start \in 0..Len(tgs) /\ runs[l].end \in 0..Len(tgs)
         /\ runs[l - 1].bioTag \in BioTags
<1> DEFINE run == runs[l - 1]
           next == runs[l]
           a == run.start
           c == next.start
           b == next.end
           tag == run.bioTag.tag
           B == [tag |-> tag, bio |-> "B-"]
           I == [tag |-> tag, bio |-> "I-"]
<1>1. l - 1 \in 1..Len(runs) /\ l \in 1..Len(runs) /\ l - 1 \in 1..Len(runs) - 1 /\ l - 1 + 1 = l
      BY DEF RunsOf
<1>2. TypedRun(run) /\ TypedRun(next) /\ Within(run, tgs) /\ Within(next, tgs)
      BY <1>1, RunsAreTyped
<1>3. run.end = c /\ Len(tgs) \in Nat
  <2>1. runs[l - 1].end = runs[l - 1 + 1].start
        BY <1>1 DEF RunsOf
  <2>2. QED
        BY <1>1, <2>1 DEF RunsOf, Within
<1>4. /\ a > 0 => tgs[a] # run.bioTag
      /\ b < Len(tgs) => tgs[b + 1] # next.bioTag
      BY <1>1, RunsAreMaximal
<1>5. IsEntity(run, next)
      OBVIOUS
<1> HIDE DEF run, next
<1>6. a \in Nat /\ c \in Nat /\ b \in Nat /\ a < c /\ c < b /\ b <= Len(tgs)
      BY <1>2, <1>3 DEF Within
<1>7. run.bioTag = B /\ next.bioTag = I
  <2>1. run.bioTag \in BioTags /\ next.bioTag \in BioTags
        BY <1>2 DEF TypedRun
  <2>2. ASSUME NEW t \in BioTags PROVE t = [tag |-> t.tag, bio |-> t.bio]
        BY SentencesAssumption
  <2>3. QED
        BY <1>5, <2>1, <2>2 DEF IsEntity
<1>8. /\ \A p \in a..c - 1 : tgs[p + 1] = B
      /\ \A p \in c..b - 1 : tgs[p + 1] = I
      BY <1>2, <1>3, <1>7 DEF Within
<1>9. EntityAt(tgs, a, b, tag)
  <2>1. c \in a + 1..b - 1
        BY <1>6
  <2>2. QED
        BY <1>8, <2>1 DEF EntityAt
<1> HIDE DEF a, b, c
<1>10. ASSUME a > 0, EntityAt(tgs, a - 1, b, tag) PROVE FALSE
  <2>1. PICK e \in (a - 1) + 1..b - 1 : \A p \in a - 1..e - 1 : tgs[p + 1] = B
        BY <1>10 DEF EntityAt
  <2>2. a - 1 \in a - 1..e - 1 /\ a - 1 + 1 = a
        BY <1>6, <1>10
  <2>3. tgs[a] = B
        BY <2>1, <2>2
  <2>4. QED
        BY <1>4, <1>7, <1>10, <2>3
<1>11. ASSUME b < Len(tgs), EntityAt(tgs, a, b + 1, tag) PROVE FALSE
  <2> DEFINE z == b + 1
  <2>1. EntityAt(tgs, a, z, tag)
        BY <1>11
  <2> HIDE DEF z
  <2>2. PICK e \in a + 1..z - 1 : \A p \in e..z - 1 : tgs[p + 1] = I
        BY <2>1 DEF EntityAt
  <2>3. z = b + 1
        BY DEF z
  <2>4. b \in e..z - 1
        BY <1>6, <2>2, <2>3
  <2>5. tgs[b + 1] = I
        BY <2>2, <2>4
  <2>6. QED
        BY <1>4, <1>7, <1>11, <2>5
<1>12. LongestAt(tgs, a, b, tag)
       BY <1>9, <1>10, <1>11 DEF LongestAt
<1>13. a \in 0..Len(tgs) /\ b \in 0..Len(tgs) /\ run.bioTag \in BioTags
       BY <1>2, <1>3, <1>6 DEF TypedRun
<1>14. QED
       BY <1>12, <1>13 DEF a, b, run, next

(* An entity that is as long as it can be is made of two runs.             *)
LEMMA LongestAreOfRuns ==
  ASSUME NEW tgs, NEW runs, RunsOf(runs, tgs), NEW a \in 0..Len(tgs), NEW b \in 0..Len(tgs),
         NEW tag, LongestAt(tgs, a, b, tag)
  PROVE  \E l \in 2..Len(runs) :
           /\ IsEntity(runs[l - 1], runs[l]) /\ runs[l - 1].bioTag.tag = tag
           /\ runs[l - 1].start = a /\ runs[l].end = b
<1> DEFINE B == [tag |-> tag, bio |-> "B-"]
           I == [tag |-> tag, bio |-> "I-"]
           N == Len(runs)
<1>1. PICK c \in a + 1..b - 1 :
        /\ \A p \in a..c - 1 : tgs[p + 1] = B
        /\ \A p \in c..b - 1 : tgs[p + 1] = I
      BY DEF LongestAt, EntityAt
<1>2. Len(tgs) \in Nat /\ N \in Nat \ {0} /\ \A k \in 1..N : Within(runs[k], tgs)
  <2>1. N \in Nat \ {0} /\ runs[N].end = Len(tgs) /\ \A k \in 1..N : Within(runs[k], tgs)
        BY DEF RunsOf
  <2>2. N \in 1..N
        BY <2>1
  <2>3. runs[N].end \in Nat
        BY <2>1, <2>2 DEF Within
  <2>4. QED
        BY <2>1, <2>3
<1>3. a \in Nat /\ b \in Nat /\ c \in Nat /\ a < c /\ c < b /\ b <= Len(tgs) /\ a \in 0..Len(tgs) - 1
      BY <1>2
<1>4. PICK k \in 1..N : a \in runs[k].start..runs[k].end - 1
      BY <1>3, RunsCover
<1> DEFINE run == runs[k]
<1>5. /\ Within(run, tgs) /\ a \in run.start..run.end - 1
      /\ run.end < Len(tgs) =>
           k + 1 \in 1..N /\ runs[k + 1].start = run.end /\ tgs[run.end + 1] # run.bioTag
      BY <1>2, <1>4, RunsAreMaximal
<1> HIDE DEF run
<1>6. /\ run.start \in Nat /\ run.end \in Nat /\ run.end <= Len(tgs)
      /\ run.start <= a /\ a < run.end
      /\ \A p \in run.start..run.end - 1 : tgs[p + 1] = run.bioTag
      BY <1>5 DEF Within
<1>7. run.bioTag = B
  <2>1. a \in run.start..run.end - 1 /\ a \in a..c - 1
        BY <1>3, <1>6
  <2>2. QED
        BY <1>1, <1>6, <2>1
<1>8. run.start = a
  <2>1. SUFFICES ASSUME run.start < a PROVE FALSE
        BY <1>3, <1>6
  <2>2. a - 1 \in run.start..run.end - 1 /\ a - 1 \in Nat
        BY <1>3, <1>6, <2>1
  <2>3. tgs[a - 1 + 1] = B
        BY <1>6, <1>7, <2>2
  <2>4. \A p \in a - 1..c - 1 : p = a - 1 \/ p \in a..c - 1
        BY <1>3
  <2>5. c \in (a - 1) + 1..b - 1
        BY <1>3
  <2>6. \A p \in a - 1..c - 1 : tgs[p + 1] = B
        BY <1>1, <2>3, <2>4
  <2>7. EntityAt(tgs, a - 1, b, tag)
        BY <1>1, <2>5, <2>6 DEF EntityAt
  <2>8. a > 0
        BY <1>6, <2>1
  <2>9. QED
        BY <2>7, <2>8 DEF LongestAt
<1>9. run.end = c
  <2>1. CASE run.end > c
    <3>1. c \in run.start..run.end - 1 /\ c \in c..b - 1
          BY <1>3, <1>6, <2>1
    <3>2. tgs[c + 1] = B /\ tgs[c + 1] = I
          BY <1>1, <1>6, <1>7, <3>1
    <3>3. QED
          BY <3>2
  <2>2. CASE run.end < c
    <3>1. run.end \in a..c - 1 /\ run.end < Len(tgs)
          BY <1>3, <1>6, <2>2
    <3>2. tgs[run.end + 1] = B
          BY <1>1, <3>1
    <3>3. QED
          BY <1>5, <1>7, <3>1, <3>2
  <2>3. QED
        BY <1>3, <1>6, <2>1, <2>2
<1>10. k + 1 \in 1..N /\ runs[k + 1].start = c
       BY <1>3, <1>5, <1>9
<1> DEFINE next == runs[k + 1]
<1>11. /\ Within(next, tgs)
       /\ next.end < Len(tgs) => tgs[next.end + 1] # next.bioTag
       BY <1>2, <1>10, RunsAreMaximal
<1>12. next.start = c
       BY <1>10
<1> HIDE DEF next
<1>13. /\ next.end \in Nat /\ next.end <= Len(tgs) /\ c < next.end
       /\ \A p \in c..next.end - 1 : tgs[p + 1] = next.bioTag
       BY <1>11, <1>12 DEF Within
<1>14. next.bioTag = I
  <2>1. c \in c..next.end - 1 /\ c \in c..b - 1
        BY <1>3, <1>13
  <2>2. QED
        BY <1>1, <1>13, <2>1
<1>15. next.end = b
  <2>1. CASE next.end > b
    <3>1. b \in c..next.end - 1 /\ b < Len(tgs)
          BY <1>3, <1>13, <2>1
    <3>2. tgs[b + 1] = I
          BY <1>13, <1>14, <3>1
    <3>3. \A p \in c..b + 1 - 1 : p = b \/ p \in c..b - 1
          BY <1>3
    <3>4. c \in a + 1..b + 1 - 1
          BY <1>3
    <3>5. \A p \in c..b + 1 - 1 : tgs[p + 1] = I
          BY <1>1, <3>2, <3>3
    <3>6. EntityAt(tgs, a, b + 1, tag)
      <4> DEFINE z == b + 1
      <4>1. /\ c \in a + 1..z - 1
            /\ \A p \in a..c - 1 : tgs[p + 1] = B
            /\ \A p \in c..z - 1 : tgs[p + 1] = I
            BY <1>1, <3>4, <3>5
      <4> HIDE DEF z
      <4>2. EntityAt(tgs, a, z, tag)
            BY <4>1 DEF EntityAt
      <4>3. QED
            BY <4>2 DEF z
    <3>7. QED
          BY <3>1, <3>6 DEF LongestAt
  <2>2. CASE next.end < b
    <3>1. next.end \in c..b - 1 /\ next.end < Len(tgs)
          BY <1>3, <1>13, <2>2
    <3>2. tgs[next.end + 1] = I
          BY <1>1, <3>1
    <3>3. QED
          BY <1>11, <1>14, <3>1, <3>2
  <2>3. QED
        BY <1>3, <1>13, <2>1, <2>2
<1>16. IsEntity(run, next) /\ run.bioTag.tag = tag
       BY <1>7, <1>14 DEF IsEntity
<1>17. k + 1 \in 2..N /\ k + 1 - 1 = k
       BY <1>10
<1>18. QED
       BY <1>8, <1>15, <1>16, <1>17 DEF run, next

(* The named spans of the strict mode are the longest entities.            *)
LEMMA StrictDetails ==
  ASSUME NEW tgs, IsSeq(tgs), \A i \in 1..Len(tgs) : tgs[i] \in BioTags, Len(tgs) > 0, NEW sp
  PROVE  sp \in Named(CreateDetails(Len(tgs), tgs, TRUE))
           <=> \E a, b \in 0..Len(tgs) : \E tag \in {t.tag : t \in BioTags} \ {"OTHER"} :
                 sp = Span(a, b, tag) /\ LongestAt(tgs, a, b, tag)
<1> DEFINE runs == Grouped(tgs)
           L == Len(tgs)
           names == {t.tag : t \in BioTags} \ {"OTHER"}
<1>1. RunsOf(runs, tgs) /\ L \in Nat
      BY GroupedToRuns, AnySeq
<1> HIDE DEF runs
<1>2. /\ StrictSpans(runs) \in Seq(SpanSet)
      /\ Named(StrictSpans(runs)) = EntitiesUpTo(runs, Len(runs))
      BY <1>1, StrictSpansNamed
<1>3. Named(CreateDetails(L, tgs, TRUE)) = EntitiesUpTo(runs, Len(runs))
      BY <1>1, <1>2, NamedPadded DEF CreateDetails, runs
<1>4. ASSUME NEW l \in 2..Len(runs), Opened(runs, l), sp = EntityOf(runs, l)
      PROVE  \E a, b \in 0..L : \E tag \in names : sp = Span(a, b, tag) /\ LongestAt(tgs, a, b, tag)
  <2> DEFINE a == runs[l - 1].start
             b == runs[l].end
             tag == runs[l - 1].bioTag.tag
  <2>1. /\ LongestAt(tgs, a, b, tag) /\ a \in 0..L /\ b \in 0..L
        /\ runs[l - 1].bioTag \in BioTags
        BY <1>1, <1>4, RunsMakeLongest DEF Opened
  <2>2. tag \in names /\ sp = Span(a, b, tag)
        BY <1>4, <2>1 DEF Opened, EntityOf
  <2> HIDE DEF a, b, tag, names
  <2>3. QED
        BY <2>1, <2>2
<1>5. ASSUME NEW a \in 0..L, NEW b \in 0..L, NEW tag \in names,
             sp = Span(a, b, tag), LongestAt(tgs, a, b, tag)
      PROVE  \E l \in 2..Len(runs) : Opened(runs, l) /\ sp = EntityOf(runs, l)
  <2>1. PICK l \in 2..Len(runs) :
          /\ IsEntity(runs[l - 1], runs[l]) /\ runs[l - 1].bioTag.tag = tag
          /\ runs[l - 1].start = a /\ runs[l].end = b
        BY <1>1, <1>5, LongestAreOfRuns
  <2>2. Opened(runs, l) /\ sp = EntityOf(runs, l)
        BY <1>5, <2>1 DEF Opened, EntityOf
  <2>3. QED
        BY <2>2
<1>6. sp \in EntitiesUpTo(runs, Len(runs)) <=> \E l \in 2..Len(runs) : Opened(runs, l) /\ sp = EntityOf(runs, l)
      BY DEF EntitiesUpTo
<1> HIDE DEF names
<1>7. sp \in Named(CreateDetails(L, tgs, TRUE))
        <=> \E a, b \in 0..L : \E tag \in names : sp = Span(a, b, tag) /\ LongestAt(tgs, a, b, tag)
      BY <1>3, <1>4, <1>5, <1>6
<1>8. QED
      BY <1>7 DEF names

-----------------------------------------------------------------------------
(***************************************************************************)
(* The sums of the forward and the backward pass.                          *)
(***************************************************************************)

(* What reaches the tag u at the position i from the scores v of the tags  *)
(* before it; and what leaves the tag t for the position i, where the tags *)
(* have the scores v.                                                      *)
Inflow(m, i, v, u) ==
  Total([t \in BioTags |-> v[t] * Transition(m, t, u) * m.emissions[i][u]])
Outflow(m, i, v, t) ==
  Total([u \in BioTags |-> v[u] * Transition(m, t, u) * m.emissions[i][u]])

LEMMA TotalIsSum == ASSUME NEW f PROVE Total(f) = SumOn(f, DOMAIN f)
  BY DEF Total, FoldFunction, SumOn

(* A sum of natural numbers is one.                                        *)
LEMMA SumOfNats ==
  ASSUME NEW S, IsFiniteSet(S), NEW w, \A x \in S : w[x] \in Nat
  PROVE  SumOn(w, S) \in Nat
<1> DEFINE Wrong == {T \in SUBSET S : SumOn(w, T) \notin Nat}
<1>1. ASSUME NEW T \in Wrong, \A x \in T : T \ {x} \notin Wrong PROVE FALSE
  <2>1. T \in SUBSET S /\ SumOn(w, T) \notin Nat /\ IsFiniteSet(T)
        BY FS_Subset
  <2>2. T # {}
        BY <2>1, NoSum
  <2>3. PICK x \in T : TRUE
        BY <2>2
  <2>4. SumOn(w, T \ {x}) \in Nat
        BY <1>1, <2>1
  <2>5. SumOn(w, T) = w[x] + SumOn(w, T \ {x})
    <3>1. \A y \in T : w[y] \in Int
          BY <2>1
    <3>2. QED
          BY <2>1, <3>1, SumTakesOut
  <2>6. w[x] \in Nat
        BY <2>1
  <2>7. QED
        BY <2>1, <2>4, <2>5, <2>6
<1>2. Wrong \subseteq SUBSET S
      OBVIOUS
<1> HIDE DEF Wrong
<1>3. Wrong = {}
      BY <1>1, <1>2, SmallestSubset
<1>4. QED
      BY <1>3 DEF Wrong

(* A step from a tag to the next, as one factor.                           *)
Step(m, i, t, u) == Transition(m, t, u) * m.emissions[i][u]

LEMMA StepType ==
  ASSUME NEW m, IsModel(m), NEW i \in Positions, NEW t \in BioTags, NEW u \in BioTags, NEW x \in Nat
  PROVE  /\ Step(m, i, t, u) \in Nat
         /\ x * Transition(m, t, u) * m.emissions[i][u] = x * Step(m, i, t, u)
         /\ x * Step(m, i, t, u) \in Nat
<1>1. m.emissions[i][u] \in Nat
      BY DEF IsModel
<1>2. Transition(m, t, u) \in Nat
      BY TransitionType
<1>3. ASSUME NEW a \in Nat, NEW b \in Nat
      PROVE  a * b \in Nat /\ x * (a * b) \in Nat /\ (x * a) * b = x * (a * b)
      BY SMT
<1>4. QED
      BY <1>1, <1>2, <1>3 DEF Step

LEMMA FlowTypes ==
  ASSUME NEW m, IsModel(m), NEW i \in Positions, NEW v \in [BioTags -> Nat], NEW t \in BioTags
  PROVE  /\ Inflow(m, i, v, t) \in Nat /\ Outflow(m, i, v, t) \in Nat
         /\ Inflow(m, i, v, t) = SumOn([u \in BioTags |-> v[u] * Step(m, i, u, t)], BioTags)
         /\ Outflow(m, i, v, t) = SumOn([u \in BioTags |-> v[u] * Step(m, i, t, u)], BioTags)
<1>1. \A u \in BioTags : /\ v[u] * Transition(m, u, t) * m.emissions[i][t] = v[u] * Step(m, i, u, t)
                         /\ v[u] * Transition(m, t, u) * m.emissions[i][u] = v[u] * Step(m, i, t, u)
                         /\ v[u] * Step(m, i, u, t) \in Nat /\ v[u] * Step(m, i, t, u) \in Nat
      BY StepType
<1> DEFINE into == [u \in BioTags |-> v[u] * Step(m, i, u, t)]
           out == [u \in BioTags |-> v[u] * Step(m, i, t, u)]
<1>2. Inflow(m, i, v, t) = Total(into) /\ Outflow(m, i, v, t) = Total(out)
      BY <1>1 DEF Inflow, Outflow
<1>3. /\ \A u \in BioTags : into[u] \in Nat /\ out[u] \in Nat
      /\ DOMAIN into = BioTags /\ DOMAIN out = BioTags
      BY <1>1
<1> HIDE DEF into, out
<1>4. SumOn(into, BioTags) \in Nat /\ SumOn(out, BioTags) \in Nat
      BY <1>3, SumOfNats, SentencesAssumption
<1>5. QED
      BY <1>2, <1>3, <1>4, TotalIsSum DEF into, out

(* What _forward_algorithm computes of the tags up to each position.       *)
LEMMA ForwardSums ==
  ASSUME NEW m, IsModel(m), NEW n \in 0..SeqLen, NEW a, a = Alpha(m, n)
  PROVE  /\ a \in [Positions -> [BioTags -> Nat]] /\ a[0] = First(m)
         /\ \A i \in 1..SeqLen - 1 : i < n => \A u \in BioTags : a[i][u] = Inflow(m, i, a[i - 1], u)
         /\ \A i \in 1..SeqLen - 1 : i >= n => a[i] = a[i - 1]
<1> DEFINE N == SeqLen - 1
           S == [BioTags -> Nat]
           Next1(i, v) == IF i < n THEN [u \in BioTags |-> Inflow(m, i, v, u)] ELSE v
           Body(f, i) == IF i = 0 THEN First(m)
                         ELSE IF i < n THEN [u \in BioTags |-> Inflow(m, i, f[i - 1], u)]
                         ELSE f[i - 1]
           Loop(f) == f = [i \in Positions |-> Body(f, i)]
           step == [p \in (1..N) \X S |-> Next1(p[1], p[2])]
<1>1. N \in Nat /\ Positions = 0..N /\ N = SeqLen - 1
      BY SeqLenAssumption DEF Positions
<1>2. First(m) \in S
  <2>1. ASSUME NEW t \in BioTags PROVE m.start[t] * m.emissions[0][t] \in Nat
    <3>1. 0 \in Positions
          BY <1>1
    <3>2. m.start[t] \in Nat /\ m.emissions[0][t] \in Nat
          BY <3>1 DEF IsModel
    <3>3. QED
          BY <3>2, Products
  <2>2. QED
        BY <2>1 DEF First
<1>3. ASSUME NEW i \in 1..N, NEW v \in S PROVE Next1(i, v) \in S
  <2>1. i \in Positions
        BY <1>1
  <2>2. \A u \in BioTags : Inflow(m, i, v, u) \in Nat
        BY <2>1, FlowTypes
  <2> HIDE DEF N
  <2>3. QED
        BY <2>2
<1>4. \E f : f \in [0..N -> S] /\ Loop(f)
  <2>1. step \in [(1..N) \X S -> S] /\ \A i \in 1..N, v \in S : step[<<i, v>>] = Next1(i, v)
    <3> HIDE DEF Next1, N, S
    <3>1. QED
          BY <1>3
  <2> HIDE DEF step
  <2>2. PICK f \in [0..N -> S] : f[0] = First(m) /\ \A i \in 1..N : f[i] = step[<<i, f[i - 1]>>]
    <3> HIDE DEF N, S
    <3>1. \E f : Solves(f, S, First(m), N, step)
          BY <1>1, <1>2, <2>1, Recursion
    <3>2. QED
          BY <3>1 DEF Solves
  <2>3. ASSUME NEW i \in 0..N PROVE f[i] = Body(f, i)
    <3> HIDE DEF N, S
    <3>1. CASE i = 0
          BY <2>2, <3>1
    <3>2. CASE i \in 1..N
      <4>1. i - 1 \in 0..N /\ f[i - 1] \in S /\ i # 0
            BY <1>1, <3>2
      <4>2. f[i] = Next1(i, f[i - 1])
            BY <2>1, <2>2, <3>2, <4>1
      <4>3. QED
            BY <4>1, <4>2
    <3>3. QED
          BY <1>1, <3>1, <3>2
  <2>4. f = [i \in 0..N |-> f[i]]
        OBVIOUS
  <2> HIDE DEF Body, N, S
  <2>5. Loop(f)
        BY <1>1, <2>3, <2>4
  <2>6. QED
        BY <2>5
<1>5. ASSUME NEW f, Loop(f)
      PROVE  /\ f = [i \in Positions |-> Body(f, i)] /\ f[0] = First(m)
             /\ \A i \in 1..N : f[i] = Next1(i, f[i - 1])
  <2>1. f = [i \in Positions |-> Body(f, i)]
    <3> HIDE DEF Body
    <3>1. QED
          BY <1>5
  <2>2. \A i \in 0..N : f[i] = Body(f, i)
    <3> HIDE DEF Body, N
    <3>1. QED
          BY <1>1, <2>1
  <2>3. 0 \in 0..N /\ \A i \in 1..N : i \in 0..N /\ i # 0
        BY <1>1
  <2>4. QED
        BY <2>1, <2>2, <2>3
<1>6. ASSUME NEW f, Loop(f) PROVE f \in [0..N -> S]
  <2> DEFINE Wrong == {i \in 0..N : f[i] \notin S}
  <2>1. ASSUME NEW i \in Wrong, \A k \in Wrong : i <= k PROVE FALSE
    <3> HIDE DEF S, Next1, N
    <3>1. i # 0
          BY <1>2, <1>5, <1>6, <2>1
    <3>2. i \in 1..N /\ i - 1 \in 0..N /\ i - 1 \notin Wrong
          BY <1>1, <2>1, <3>1
    <3>3. f[i - 1] \in S
          BY <3>2
    <3>4. f[i] \in S
          BY <1>3, <1>5, <1>6, <3>2, <3>3
    <3>5. QED
          BY <2>1, <3>4
  <2>2. Wrong \subseteq Nat
        BY <1>1
  <2> HIDE DEF N, S
  <2>3. Wrong = {}
    <3> HIDE DEF Wrong
    <3>1. QED
          BY <2>1, <2>2, LeastElement
  <2>4. f = [i \in 0..N |-> f[i]]
    <3> HIDE DEF Body
    <3>1. QED
          BY <1>1, <1>5, <1>6
  <2>5. QED
        BY <2>3, <2>4
<1>7. Alpha(m, n) = CHOOSE f : Loop(f)
      BY DEF Alpha, Inflow
<1> HIDE DEF Loop
<1>8. Loop(a)
      BY <1>4, <1>7
<1>9. /\ a \in [0..N -> S] /\ a[0] = First(m)
      /\ \A i \in 1..N : a[i] = Next1(i, a[i - 1])
      BY <1>5, <1>6, <1>8
<1>10. ASSUME NEW i \in 1..N, i < n, NEW u \in BioTags
       PROVE  a[i][u] = Inflow(m, i, a[i - 1], u)
       BY <1>9, <1>10
<1>11. ASSUME NEW i \in 1..N, i >= n PROVE a[i] = a[i - 1]
  <2>1. ~(i < n)
        BY <1>1, <1>11
  <2>2. QED
        BY <1>9, <2>1
<1>12. QED
       BY <1>1, <1>9, <1>10, <1>11

(* What _forward_algorithm computes of the tags from each position on,     *)
(* from the last position back.                                            *)
LEMMA BackwardSums ==
  ASSUME NEW m, IsModel(m), NEW n \in 0..SeqLen, NEW b, b = Beta(m, n)
  PROVE  /\ b \in [Positions -> [BioTags -> Nat]] /\ b[SeqLen - 1] = m.end
         /\ \A i \in 1..SeqLen - 1 : i < n => \A t \in BioTags : b[i - 1][t] = Outflow(m, i, b[i], t)
         /\ \A i \in 1..SeqLen - 1 : i >= n => b[i - 1] = b[i]
<1> DEFINE N == SeqLen - 1
           S == [BioTags -> Nat]
           Next1(k, v) ==
             IF SeqLen - k < n THEN [t \in BioTags |-> Outflow(m, SeqLen - k, v, t)] ELSE v
           Body(f, i) == IF i = SeqLen - 1 THEN m.end
                         ELSE IF i + 1 < n THEN [t \in BioTags |-> Outflow(m, i + 1, f[i + 1], t)]
                         ELSE f[i + 1]
           Loop(f) == f = [i \in Positions |-> Body(f, i)]
           step == [p \in (1..N) \X S |-> Next1(p[1], p[2])]
<1>1. N \in Nat /\ Positions = 0..N /\ N = SeqLen - 1 /\ SeqLen \in Nat
      BY SeqLenAssumption DEF Positions
<1>2. m.end \in S
      BY DEF IsModel
<1>3. ASSUME NEW k \in 1..N, NEW v \in S PROVE Next1(k, v) \in S
  <2>1. SeqLen - k \in Positions
        BY <1>1
  <2>2. \A t \in BioTags : Outflow(m, SeqLen - k, v, t) \in Nat
        BY <2>1, FlowTypes
  <2> HIDE DEF N
  <2>3. QED
        BY <2>2
<1>4. \E f : f \in [0..N -> S] /\ Loop(f)
  <2>1. step \in [(1..N) \X S -> S] /\ \A k \in 1..N, v \in S : step[<<k, v>>] = Next1(k, v)
    <3> HIDE DEF Next1, N, S
    <3>1. QED
          BY <1>3
  <2> HIDE DEF step
  <2>2. PICK g \in [0..N -> S] : g[0] = m.end /\ \A k \in 1..N : g[k] = step[<<k, g[k - 1]>>]
    <3> HIDE DEF N, S
    <3>1. \E f : Solves(f, S, m.end, N, step)
          BY <1>1, <1>2, <2>1, Recursion
    <3>2. QED
          BY <3>1 DEF Solves
  <2> DEFINE f == [i \in 0..N |-> g[N - i]]
  <2>3. f \in [0..N -> S] /\ \A i \in 0..N : f[i] = g[N - i]
    <3> HIDE DEF S, N
    <3>1. \A i \in 0..N : N - i \in 0..N
          BY <1>1
    <3>2. QED
          BY <3>1
  <2> HIDE DEF f
  <2>4. ASSUME NEW i \in 0..N PROVE f[i] = Body(f, i)
    <3> HIDE DEF S
    <3>1. CASE i = N
      <4>1. N - i = 0 /\ i = SeqLen - 1
            BY <1>1, <3>1
      <4>2. QED
            BY <2>2, <2>3, <4>1
    <3>2. CASE i # N
      <4> DEFINE k == N - i
      <4>1. k \in 1..N /\ k - 1 = N - (i + 1) /\ i + 1 \in 0..N /\ SeqLen - k = i + 1 /\ i # SeqLen - 1
        <5> HIDE DEF N
        <5>1. QED
              BY <1>1, <3>2
      <4> HIDE DEF N
      <4>2. f[i] = g[k] /\ f[i + 1] = g[k - 1] /\ f[i + 1] \in S
            BY <2>3, <4>1
      <4> HIDE DEF k
      <4>3. f[i] = Next1(k, f[i + 1])
        <5> HIDE DEF Next1
        <5>1. QED
              BY <2>1, <2>2, <4>1, <4>2
      <4>4. QED
            BY <4>1, <4>3
    <3>3. QED
          BY <3>1, <3>2
  <2>5. f = [i \in 0..N |-> f[i]]
        BY <2>3
  <2> HIDE DEF Body, N, S
  <2>6. Loop(f)
        BY <1>1, <2>4, <2>5
  <2>7. QED
        BY <2>3, <2>6
<1>5. ASSUME NEW f, Loop(f)
      PROVE  /\ f = [i \in Positions |-> Body(f, i)] /\ f[N] = m.end
             /\ \A i \in 1..N : f[i - 1] = IF i < n THEN [t \in BioTags |-> Outflow(m, i, f[i], t)] ELSE f[i]
  <2>1. f = [i \in Positions |-> Body(f, i)]
    <3> HIDE DEF Body
    <3>1. QED
          BY <1>5
  <2>2. \A i \in 0..N : f[i] = Body(f, i)
    <3> HIDE DEF Body, N
    <3>1. QED
          BY <1>1, <2>1
  <2>3. N \in 0..N /\ \A i \in 1..N : i - 1 \in 0..N /\ i - 1 # SeqLen - 1 /\ (i - 1) + 1 = i
        BY <1>1
  <2>4. QED
        BY <2>1, <2>2, <2>3
<1>6. ASSUME NEW f, Loop(f) PROVE f \in [0..N -> S]
  <2> DEFINE Wrong == {k \in 0..N : f[N - k] \notin S}
  <2>1. ASSUME NEW k \in Wrong, \A l \in Wrong : k <= l PROVE FALSE
    <3> HIDE DEF S, N
    <3>1. k # 0
      <4>1. N - 0 = N
            BY <1>1
      <4>2. QED
            BY <1>2, <1>5, <1>6, <2>1, <4>1
    <3> DEFINE i == N - (k - 1)
    <3>2. k \in 1..N /\ k - 1 \in 0..N /\ k - 1 \notin Wrong
          BY <1>1, <2>1, <3>1
    <3>3. i \in 1..N /\ i - 1 = N - k /\ i = SeqLen - k
          BY <1>1, <3>2
    <3>4. f[i] \in S
          BY <3>2
    <3>5. f[i - 1] = Next1(k, f[i])
      <4> HIDE DEF i
      <4>1. f[i - 1] = IF i < n THEN [t \in BioTags |-> Outflow(m, i, f[i], t)] ELSE f[i]
            BY <1>5, <1>6, <3>3
      <4>2. QED
            BY <3>3, <4>1
    <3> HIDE DEF i, Next1
    <3>6. f[i - 1] \in S
          BY <1>3, <3>2, <3>4, <3>5
    <3>7. QED
          BY <2>1, <3>3, <3>6
  <2>2. Wrong \subseteq Nat
        BY <1>1
  <2> HIDE DEF N, S
  <2>3. Wrong = {}
    <3> HIDE DEF Wrong
    <3>1. QED
          BY <2>1, <2>2, LeastElement
  <2>4. \A i \in 0..N : f[i] \in S
    <3>1. ASSUME NEW i \in 0..N PROVE f[i] \in S
      <4>1. N - i \in 0..N /\ N - (N - i) = i
            BY <1>1
      <4>2. QED
            BY <2>3, <4>1
    <3>2. QED
          BY <3>1
  <2>5. f = [i \in 0..N |-> f[i]]
    <3> HIDE DEF Body
    <3>1. QED
          BY <1>1, <1>5, <1>6
  <2>6. QED
        BY <2>4, <2>5
<1>7. Beta(m, n) = CHOOSE f : Loop(f)
      BY DEF Beta, Outflow
<1> HIDE DEF Loop
<1>8. Loop(b)
      BY <1>4, <1>7
<1>9. /\ b \in [0..N -> S] /\ b[N] = m.end
      /\ \A i \in 1..N : b[i - 1] = IF i < n THEN [t \in BioTags |-> Outflow(m, i, b[i], t)] ELSE b[i]
      BY <1>5, <1>6, <1>8
<1>10. ASSUME NEW i \in 1..N, i < n, NEW t \in BioTags
       PROVE  b[i - 1][t] = Outflow(m, i, b[i], t)
       BY <1>9, <1>10
<1>11. ASSUME NEW i \in 1..N, i >= n PROVE b[i - 1] = b[i]
  <2>1. ~(i < n)
        BY <1>1, <1>11
  <2>2. QED
        BY <1>9, <2>1
<1>12. QED
       BY <1>1, <1>9, <1>10, <1>11

-----------------------------------------------------------------------------
(***************************************************************************)
(* The paths up to the position k, those of them that pass the position i, *)
(* if it is one of theirs, with a tag of Y, and those that end in u.       *)
(***************************************************************************)
PathsTo(k) == [0..k -> BioTags]
Through(k, i, Y) == {q \in PathsTo(k) : i <= k => q[i] \in Y}
Ending(k, i, Y, u) == {q \in Through(k, i, Y) : q[k] = u}

(* The path q up to k, and the path r with u after its last position.      *)
Before(q, k) == [j \in 0..k |-> q[j]]
With(r, k, u) == [j \in 0..k |-> IF j = k THEN u ELSE r[j]]

(* The weight of a path up to k.                                           *)
Weight(m, q, k) == Along(m, q, k + 1)[k]
Weights(m, k) == [q \in PathsTo(k) |-> Weight(m, q, k)]

LEMMA PathsToPosition ==
  ASSUME NEW k \in Positions
  PROVE  /\ k \in Nat /\ k + 1 \in 1..SeqLen /\ (k + 1) - 1 = k
         /\ Paths(k + 1) = PathsTo(k)
         /\ k # 0 => k \in 1..SeqLen - 1 /\ k - 1 \in Positions /\ (k - 1) + 1 = k
<1>1. k \in Nat /\ k + 1 \in 1..SeqLen /\ (k + 1) - 1 = k
      BY SeqLenAssumption DEF Positions
<1>2. k # 0 => k \in 1..SeqLen - 1 /\ k - 1 \in Positions /\ (k - 1) + 1 = k
      BY SeqLenAssumption DEF Positions
<1>3. QED
      BY <1>1, <1>2 DEF Paths, PathsTo

(* There are finitely many paths.                                          *)
LEMMA FinitelyManyPaths ==
  ASSUME NEW k \in Positions
  PROVE  IsFiniteSet(PathsTo(k))
<1> DEFINE Wrong == {l \in Positions : ~IsFiniteSet(PathsTo(l))}
<1>1. ASSUME NEW l \in Wrong, \A j \in Wrong : l <= j PROVE FALSE
  <2>1. l \in Positions /\ ~IsFiniteSet(PathsTo(l)) /\ l \in Nat
        BY PathsToPosition
  <2>2. l # 0
    <3> DEFINE one == [t \in BioTags |-> [j \in 0..0 |-> t]]
    <3>1. one \in [BioTags -> PathsTo(0)]
          BY DEF PathsTo
    <3>2. ASSUME NEW q \in PathsTo(0) PROVE \E t \in BioTags : one[t] = q
      <4>1. q \in [0..0 -> BioTags] /\ q[0] \in BioTags
            BY <3>2 DEF PathsTo
      <4>2. [j \in 0..0 |-> q[0]] = q
        <5>1. \A j \in 0..0 : j = 0
              OBVIOUS
        <5>2. QED
              BY <4>1, <5>1
      <4>3. one[q[0]] = q
            BY <4>1, <4>2
      <4>4. QED
            BY <4>1, <4>3
    <3> HIDE DEF one
    <3>3. one \in Surjection(BioTags, PathsTo(0))
          BY <3>1, <3>2 DEF Surjection
    <3>4. IsFiniteSet(PathsTo(0))
          BY <3>3, FS_Surjection, SentencesAssumption
    <3>5. QED
          BY <2>1, <3>4
  <2>3. l - 1 \in Positions /\ l - 1 \notin Wrong /\ ~(l <= l - 1)
        BY <1>1, <2>1, <2>2, PathsToPosition
  <2> DEFINE P == PathsTo(l - 1)
             longer == [p \in P \X BioTags |-> With(p[1], l, p[2])]
  <2>4. IsFiniteSet(P \X BioTags)
    <3>1. IsFiniteSet(P) /\ IsFiniteSet(BioTags)
          BY <2>3, SentencesAssumption
    <3>2. QED
          BY <3>1, FS_Product
  <2>5. ASSUME NEW r \in P, NEW u \in BioTags PROVE With(r, l, u) \in PathsTo(l)
    <3>1. \A j \in 0..l : j # l => j \in 0..l - 1
          BY <2>1
    <3>2. r \in [0..l - 1 -> BioTags]
          BY DEF PathsTo
    <3>3. QED
          BY <3>1, <3>2 DEF PathsTo, With
  <2>6. longer \in [P \X BioTags -> PathsTo(l)]
        BY <2>5
  <2>7. ASSUME NEW q \in PathsTo(l) PROVE \E p \in P \X BioTags : longer[p] = q
    <3>1. q \in [0..l -> BioTags] /\ l \in 0..l /\ \A j \in 0..l - 1 : j \in 0..l /\ j # l
          BY <2>1 DEF PathsTo
    <3>2. Before(q, l - 1) \in P /\ q[l] \in BioTags
          BY <3>1 DEF Before, PathsTo
    <3>3. With(Before(q, l - 1), l, q[l]) = q
      <4>1. \A j \in 0..l : j # l => j \in 0..l - 1
            BY <2>1
      <4>2. \A j \in 0..l : (IF j = l THEN q[l] ELSE Before(q, l - 1)[j]) = q[j]
            BY <4>1 DEF Before
      <4>3. QED
            BY <3>1, <4>2 DEF With
    <3> DEFINE p == <<Before(q, l - 1), q[l]>>
    <3>4. p \in P \X BioTags /\ longer[p] = q
          BY <3>2, <3>3
    <3>5. QED
          BY <3>4
  <2> HIDE DEF longer, P
  <2>8. longer \in Surjection(P \X BioTags, PathsTo(l))
        BY <2>6, <2>7 DEF Surjection
  <2>9. QED
        BY <2>1, <2>4, <2>8, FS_Surjection
<1>2. Wrong \subseteq Nat
      BY PathsToPosition
<1> HIDE DEF Wrong
<1>3. Wrong = {}
      BY <1>1, <1>2, LeastElement
<1>4. QED
      BY <1>3 DEF Wrong

(* The weight of a path is that of the path before its last position,      *)
(* times the last step.                                                    *)
LEMMA WeightOfLonger ==
  ASSUME NEW m, IsModel(m), NEW k \in Positions, NEW q \in PathsTo(k)
  PROVE  /\ Weight(m, q, k) \in Nat
         /\ k = 0 => Weight(m, q, 0) = First(m)[q[0]]
         /\ k # 0 => /\ Before(q, k - 1) \in PathsTo(k - 1)
                     /\ q[k - 1] \in BioTags /\ q[k] \in BioTags
                     /\ Weight(m, Before(q, k - 1), k - 1) \in Nat
                     /\ Weight(m, q, k)
                          = Weight(m, Before(q, k - 1), k - 1) * Step(m, k, q[k - 1], q[k])
<1>1. ASSUME NEW l \in Positions, NEW r \in PathsTo(l), NEW a, a = Along(m, r, l + 1)
      PROVE  /\ a \in [0..l -> Nat] /\ a[0] = m.start[r[0]] * m.emissions[0][r[0]]
             /\ \A i \in 1..l :
                  a[i] = a[i - 1] * Transition(m, r[i - 1], r[i]) * m.emissions[i][r[i]]
  <2>1. l + 1 \in 1..SeqLen /\ (l + 1) - 1 = l /\ r \in Paths(l + 1)
        BY PathsToPosition
  <2>2. /\ a \in [0..(l + 1) - 1 -> Nat] /\ a[0] = m.start[r[0]] * m.emissions[0][r[0]]
        /\ \A i \in 1..(l + 1) - 1 :
             a[i] = a[i - 1] * Transition(m, r[i - 1], r[i]) * m.emissions[i][r[i]]
        BY <1>1, <2>1, PotentialsAlong
  <2>3. QED
        BY <2>1, <2>2
<1>2. k \in Nat /\ \A j \in 0..k : j \in Positions /\ q[j] \in BioTags
  <2>1. k \in Nat /\ \A j \in 0..k : j \in Positions
        BY SeqLenAssumption DEF Positions
  <2>2. QED
        BY <2>1 DEF PathsTo
<1> DEFINE a == Along(m, q, k + 1)
<1>3. /\ a \in [0..k -> Nat] /\ a[0] = m.start[q[0]] * m.emissions[0][q[0]]
      /\ \A i \in 1..k :
           a[i] = a[i - 1] * Transition(m, q[i - 1], q[i]) * m.emissions[i][q[i]]
      BY <1>1
<1>4. Weight(m, q, k) = a[k]
      BY DEF Weight
<1> HIDE DEF a
<1>5. a[k] \in Nat
      BY <1>2, <1>3
<1>6. ASSUME k = 0 PROVE Weight(m, q, 0) = First(m)[q[0]]
  <2>1. q[0] \in BioTags
        BY <1>2, <1>6
  <2>2. QED
        BY <1>3, <1>4, <1>6, <2>1 DEF First
<1>7. ASSUME k # 0
      PROVE  /\ Before(q, k - 1) \in PathsTo(k - 1)
             /\ q[k - 1] \in BioTags /\ q[k] \in BioTags
             /\ Weight(m, Before(q, k - 1), k - 1) \in Nat
             /\ Weight(m, q, k)
                  = Weight(m, Before(q, k - 1), k - 1) * Step(m, k, q[k - 1], q[k])
  <2> DEFINE l == k - 1
             r == Before(q, l)
             b == Along(m, r, l + 1)
  <2>1. l \in Positions /\ l \in 0..k /\ k \in 0..k /\ k \in 1..k /\ \A j \in 0..l : j \in 0..k
        BY <1>2, <1>7, SeqLenAssumption
  <2>2. r \in PathsTo(l) /\ \A j \in 0..l : r[j] = q[j]
        BY <1>2, <2>1 DEF Before, PathsTo
  <2>3. Weight(m, r, l) = b[l]
        BY DEF Weight
  <2> HIDE DEF r
  <2>4. /\ b \in [0..l -> Nat] /\ b[0] = m.start[r[0]] * m.emissions[0][r[0]]
        /\ \A i \in 1..l :
             b[i] = b[i - 1] * Transition(m, r[i - 1], r[i]) * m.emissions[i][r[i]]
        BY <1>1, <2>1, <2>2
  <2> HIDE DEF b
  <2> DEFINE Wrong == {j \in 0..l : a[j] # b[j]}
  <2>5. ASSUME NEW j \in Wrong, \A i \in Wrong : j <= i PROVE FALSE
    <3>1. j # 0
      <4>1. 0 \in 0..l
            BY <1>2, <1>7
      <4>2. QED
            BY <1>3, <2>2, <2>4, <2>5, <4>1
    <3>2. j \in 1..l /\ j \in 1..k /\ j - 1 \in 0..l /\ j \in 0..l /\ j - 1 \notin Wrong
          BY <1>2, <1>7, <2>5, <3>1
    <3>3. a[j - 1] = b[j - 1] /\ r[j - 1] = q[j - 1] /\ r[j] = q[j]
          BY <2>2, <3>2
    <3>4. a[j] = b[j]
          BY <1>3, <2>4, <3>2, <3>3
    <3>5. QED
          BY <2>5, <3>4
  <2>6. Wrong = {}
    <3>1. Wrong \subseteq Nat
          BY <1>2, <1>7
    <3> HIDE DEF Wrong
    <3>2. QED
          BY <2>5, <3>1, LeastElement
  <2>7. l \in 0..l
        BY <1>2, <1>7
  <2>8. a[l] = b[l] /\ b[l] \in Nat
        BY <2>4, <2>6, <2>7
  <2>9. a[k] = a[l] * Transition(m, q[l], q[k]) * m.emissions[k][q[k]]
        BY <1>3, <2>1
  <2>10. q[l] \in BioTags /\ q[k] \in BioTags
         BY <1>2, <2>1
  <2>11. a[l] * Transition(m, q[l], q[k]) * m.emissions[k][q[k]] = a[l] * Step(m, k, q[l], q[k])
         BY <2>8, <2>10, StepType
  <2> HIDE DEF l
  <2>12. QED
         BY <1>4, <2>2, <2>3, <2>8, <2>9, <2>10, <2>11 DEF l, r
<1>8. QED
      BY <1>4, <1>5, <1>6, <1>7

(* The weight of all the paths up to k that pass i with a tag of Y and end *)
(* in u.                                                                   *)
Sums(m, k, i, Y, u) == SumOn(Weights(m, k), Ending(k, i, Y, u))

LEMMA SumOfOne ==
  ASSUME NEW w, NEW x, w[x] \in Int
  PROVE  SumOn(w, {x}) = w[x]
<1>1. SumOn(w, {} \cup {x}) = w[x] + SumOn(w, {})
  <2>1. IsFiniteSet({}) /\ x \notin {} /\ \A y \in {} \cup {x} : w[y] \in Int
        BY FS_EmptySet
  <2>2. QED
        BY <2>1, SumAddsOne
<1>2. {} \cup {x} = {x} /\ SumOn(w, {}) = 0
      BY NoSum
<1>3. QED
      BY <1>1, <1>2

LEMMA PartsOfPaths ==
  ASSUME NEW m, IsModel(m), NEW k \in Positions, NEW T, T \subseteq PathsTo(k)
  PROVE  /\ IsFiniteSet(T) /\ \A q \in T : Weights(m, k)[q] = Weight(m, q, k) /\ Weights(m, k)[q] \in Nat
         /\ SumOn(Weights(m, k), T) \in Nat
<1>1. IsFiniteSet(T)
      BY FinitelyManyPaths, FS_Subset
<1>2. \A q \in T : Weights(m, k)[q] = Weight(m, q, k) /\ Weights(m, k)[q] \in Nat
  <2>1. \A q \in T : Weight(m, q, k) \in Nat
        BY WeightOfLonger
  <2>2. QED
        BY <2>1 DEF Weights
<1>3. QED
      BY <1>1, <1>2, SumOfNats

LEMMA SumsAreNats ==
  ASSUME NEW m, IsModel(m), NEW k \in Positions, NEW i, NEW Y, NEW u
  PROVE  Sums(m, k, i, Y, u) \in Nat
<1>1. Ending(k, i, Y, u) \subseteq PathsTo(k)
      BY DEF Ending, Through
<1>2. QED
      BY <1>1, PartsOfPaths DEF Sums

LEMMA FirstSums ==
  ASSUME NEW m, IsModel(m), NEW i \in Positions, NEW Y, NEW u \in BioTags
  PROVE  Sums(m, 0, i, Y, u) = IF i = 0 /\ u \notin Y THEN 0 ELSE First(m)[u]
<1> DEFINE q == [j \in 0..0 |-> u]
<1>1. q \in PathsTo(0) /\ q[0] = u /\ \A r \in PathsTo(0) : r[0] = u => r = q
  <2>1. \A j \in 0..0 : j = 0
        OBVIOUS
  <2>2. QED
        BY <2>1 DEF PathsTo
<1> HIDE DEF q
<1>2. 0 \in Positions /\ (i <= 0 <=> i = 0)
      BY SeqLenAssumption DEF Positions
<1>3. CASE i = 0 /\ u \notin Y
  <2>1. Ending(0, i, Y, u) = {}
        BY <1>2, <1>3 DEF Ending, Through
  <2>2. QED
        BY <1>3, <2>1, NoSum DEF Sums
<1>4. CASE ~(i = 0 /\ u \notin Y)
  <2>1. Ending(0, i, Y, u) = {q}
        BY <1>1, <1>2, <1>4 DEF Ending, Through
  <2>2. Weights(m, 0)[q] = First(m)[u] /\ Weights(m, 0)[q] \in Int
    <3>1. Weight(m, q, 0) = First(m)[q[0]]
          BY <1>1, <1>2, WeightOfLonger
    <3>2. {q} \subseteq PathsTo(0)
          BY <1>1
    <3>3. Weights(m, 0)[q] = Weight(m, q, 0) /\ Weights(m, 0)[q] \in Nat
          BY <1>2, <3>2, PartsOfPaths
    <3>4. QED
          BY <1>1, <3>1, <3>3
  <2>3. QED
        BY <1>4, <2>1, <2>2, SumOfOne DEF Sums
<1>5. QED
      BY <1>3, <1>4

(* The paths that end in u after t are the paths that end in t, with u.    *)
LEMMA PathsAfter ==
  ASSUME NEW k \in Positions, k # 0, NEW i \in Positions, NEW Y, NEW t \in BioTags, NEW u \in BioTags,
         i = k => u \in Y
  PROVE  /\ \A r \in Ending(k - 1, i, Y, t) :
              /\ With(r, k, u) \in Ending(k, i, Y, u) /\ With(r, k, u)[k - 1] = t
              /\ With(r, k, u)[k] = u /\ Before(With(r, k, u), k - 1) = r
         /\ \A q \in Ending(k, i, Y, u) : q[k - 1] = t =>
              Before(q, k - 1) \in Ending(k - 1, i, Y, t) /\ With(Before(q, k - 1), k, u) = q
<1>1. /\ k \in Nat /\ i \in Nat /\ k - 1 \in 0..k - 1 /\ k \in 0..k /\ k - 1 # k
      /\ \A j \in 0..k - 1 : j \in 0..k /\ j # k
      /\ \A j \in 0..k : j # k => j \in 0..k - 1
      /\ i <= k <=> (i <= k - 1 \/ i = k)
      /\ i <= k - 1 => i \in 0..k - 1
      BY SeqLenAssumption DEF Positions
<1>2. ASSUME NEW r \in Ending(k - 1, i, Y, t)
      PROVE  /\ With(r, k, u) \in Ending(k, i, Y, u) /\ With(r, k, u)[k - 1] = t
             /\ With(r, k, u)[k] = u /\ Before(With(r, k, u), k - 1) = r
  <2>1. r \in [0..k - 1 -> BioTags] /\ r[k - 1] = t /\ (i <= k - 1 => r[i] \in Y)
        BY DEF Ending, Through, PathsTo
  <2> DEFINE q == With(r, k, u)
  <2>2. q \in [0..k -> BioTags] /\ q[k] = u /\ \A j \in 0..k - 1 : q[j] = r[j]
        BY <1>1, <2>1 DEF With
  <2> HIDE DEF q
  <2>3. q[k - 1] = t
        BY <1>1, <2>1, <2>2
  <2>4. i <= k => q[i] \in Y
        BY <1>1, <2>1, <2>2
  <2>5. q \in Ending(k, i, Y, u)
        BY <2>2, <2>4 DEF Ending, Through, PathsTo
  <2>6. Before(q, k - 1) = r
        BY <2>1, <2>2 DEF Before
  <2>7. QED
        BY <2>2, <2>3, <2>5, <2>6 DEF q
<1>3. ASSUME NEW q \in Ending(k, i, Y, u), q[k - 1] = t
      PROVE  Before(q, k - 1) \in Ending(k - 1, i, Y, t) /\ With(Before(q, k - 1), k, u) = q
  <2>1. q \in [0..k -> BioTags] /\ q[k] = u /\ (i <= k => q[i] \in Y)
        BY DEF Ending, Through, PathsTo
  <2> DEFINE r == Before(q, k - 1)
  <2>2. r \in [0..k - 1 -> BioTags] /\ \A j \in 0..k - 1 : r[j] = q[j]
        BY <1>1, <2>1 DEF Before
  <2> HIDE DEF r
  <2>3. i <= k - 1 => r[i] \in Y
        BY <1>1, <2>1, <2>2
  <2>4. r[k - 1] = t
        BY <1>1, <1>3, <2>2
  <2>5. r \in Ending(k - 1, i, Y, t)
        BY <2>2, <2>3, <2>4 DEF Ending, Through, PathsTo
  <2>6. With(r, k, u) = q
    <3>1. \A j \in 0..k : (IF j = k THEN u ELSE r[j]) = q[j]
          BY <1>1, <2>1, <2>2
    <3>2. QED
          BY <2>1, <3>1 DEF With
  <2>7. QED
        BY <2>5, <2>6 DEF r
<1>4. QED
      BY <1>2, <1>3

LEMMA NextSums ==
  ASSUME NEW m, IsModel(m), NEW k \in Positions, k # 0, NEW i \in Positions, NEW Y, NEW u \in BioTags,
         NEW v, v = [t \in BioTags |-> Sums(m, k - 1, i, Y, t)]
  PROVE  /\ v \in [BioTags -> Nat]
         /\ Sums(m, k, i, Y, u) = IF i = k /\ u \notin Y THEN 0 ELSE Inflow(m, k, v, u)
<1>1. k - 1 \in Positions /\ k \in Nat /\ i \in Nat /\ k - 1 \in 0..k /\ k \in 0..k
      BY SeqLenAssumption DEF Positions
<1>2. v \in [BioTags -> Nat]
      BY <1>1, SumsAreNats
<1> DEFINE S == Ending(k, i, Y, u)
           w == Weights(m, k)
<1>3. CASE i = k /\ u \notin Y
  <2>1. S = {}
        BY <1>1, <1>3 DEF Ending, Through
  <2> HIDE DEF S
  <2>2. QED
        BY <1>2, <1>3, <2>1, NoSum DEF Sums, S
<1>4. CASE ~(i = k /\ u \notin Y)
  <2> DEFINE of == [q \in S |-> q[k - 1]]
             part == [t \in BioTags |-> SumOfPart(w, S, of, t)]
             into == [t \in BioTags |-> v[t] * Step(m, k, t, u)]
  <2>1. S \subseteq PathsTo(k)
        BY DEF Ending, Through
  <2>2. IsFiniteSet(S) /\ \A q \in S : w[q] = Weight(m, q, k) /\ w[q] \in Nat
    <3> HIDE DEF S, w
    <3>1. QED
          BY <2>1, PartsOfPaths DEF w
  <2>3. \A q \in S : of[q] = q[k - 1] /\ of[q] \in BioTags /\ q[k] = u
    <3>1. \A q \in S : q \in [0..k -> BioTags] /\ q[k] = u
          BY DEF Ending, Through, PathsTo
    <3> HIDE DEF S
    <3>2. QED
          BY <1>1, <3>1
  <2>4. ASSUME NEW t \in BioTags PROVE part[t] = into[t] /\ into[t] \in Nat
    <3> DEFINE R == Ending(k - 1, i, Y, t)
               g == [r \in R |-> With(r, k, u)]
               U == {q \in S : of[q] = t}
               x == Weights(m, k - 1)
               y == [r \in R |-> w[g[r]]]
               c == Step(m, k, t, u)
    <3>1. /\ \A r \in R : /\ g[r] = With(r, k, u) /\ g[r] \in S /\ g[r][k - 1] = t
                          /\ g[r][k] = u /\ Before(g[r], k - 1) = r
          /\ \A q \in S : q[k - 1] = t => Before(q, k - 1) \in R /\ With(Before(q, k - 1), k, u) = q
          BY <1>4, PathsAfter
    <3>2. R \subseteq PathsTo(k - 1)
          BY DEF Ending, Through
    <3>3. /\ IsFiniteSet(R) /\ SumOn(x, R) \in Nat
          /\ \A r \in R : x[r] = Weight(m, r, k - 1) /\ x[r] \in Nat
      <4> HIDE DEF R, x
      <4>1. QED
            BY <1>1, <3>2, PartsOfPaths DEF x
    <3>4. SumOn(x, R) = v[t]
          BY DEF Sums
    <3>5. c \in Nat /\ v[t] * c \in Nat
      <4>1. v[t] \in Nat
            BY <1>2
      <4> HIDE DEF c
      <4>2. QED
            BY <4>1, StepType DEF c
    <3>6. part[t] = SumOn(w, U) /\ into[t] = v[t] * c
          BY DEF SumOfPart
    <3> HIDE DEF S, R, w, x, c, part, into, of
    <3>7. \A r \in R : y[r] = w[g[r]]
          OBVIOUS
    <3>8. \A q \in S : With(Before(q, k - 1), k, u) = g[Before(q, k - 1)] \/ q[k - 1] # t
          BY <3>1
    <3> HIDE DEF g, y
    <3>9. U = {g[r] : r \in R}
      <4>1. ASSUME NEW q \in U PROVE \E r \in R : q = g[r]
        <5>1. q \in S /\ q[k - 1] = t
              BY <2>3, <4>1
        <5>2. QED
              BY <3>1, <3>8, <5>1
      <4>2. ASSUME NEW r \in R PROVE g[r] \in U
            BY <2>3, <3>1
      <4> HIDE DEF U
      <4>3. QED
            BY <4>1, <4>2
    <3>10. \A r, s \in R : g[r] = g[s] => r = s
           BY <3>1
    <3> HIDE DEF U
    <3>11. \A r \in R : y[r] \in Int /\ w[g[r]] \in Int /\ y[r] = c * x[r]
      <4>1. ASSUME NEW r \in R PROVE w[g[r]] = c * x[r] /\ w[g[r]] \in Int
        <5>1. g[r] \in S /\ g[r] \in PathsTo(k)
              BY <2>1, <3>1
        <5>2. Weight(m, g[r], k) = Weight(m, Before(g[r], k - 1), k - 1) * Step(m, k, g[r][k - 1], g[r][k])
              BY <5>1, WeightOfLonger
        <5>3. w[g[r]] = x[r] * c
              BY <2>2, <3>1, <3>3, <5>1, <5>2 DEF c
        <5>4. x[r] * c = c * x[r]
              BY <3>3, <3>5
        <5>5. w[g[r]] \in Int
              BY <2>2, <5>1
        <5>6. QED
              BY <5>3, <5>4, <5>5
      <4>2. QED
            BY <3>7, <4>1
    <3>12. SumOn(w, U) = SumOn(y, R)
           BY <3>3, <3>7, <3>9, <3>10, <3>11, SumRenamed
    <3>13. SumOn(y, R) = c * SumOn(x, R)
      <4>1. \A r \in R : x[r] \in Int
            BY <3>3
      <4>2. c \in Int
            BY <3>5
      <4>3. QED
            BY <3>3, <3>11, <4>1, <4>2, SumTimes
    <3>14. c * v[t] = v[t] * c
           BY <3>3, <3>4, <3>5
    <3>15. QED
           BY <3>4, <3>5, <3>6, <3>12, <3>13, <3>14
  <2>5. SumOn(w, S) = SumOn(part, BioTags)
    <3>1. \A t \in BioTags : part[t] = SumOfPart(w, S, of, t)
          OBVIOUS
    <3>2. IsFiniteSet(S) /\ IsFiniteSet(BioTags)
          BY <2>2, SentencesAssumption
    <3>3. \A q \in S : w[q] \in Int
          BY <2>2
    <3>4. \A q \in S : of[q] \in BioTags
          BY <2>3
    <3> HIDE DEF S, w, of, part
    <3>5. QED
          BY <3>1, <3>2, <3>3, <3>4, SumOfParts
  <2>6. SumOn(part, BioTags) = SumOn(into, BioTags)
    <3> HIDE DEF part, into
    <3>1. \A t \in BioTags : into[t] \in Int /\ part[t] = into[t]
          BY <2>4
    <3>2. QED
          BY <3>1, SumSame, SentencesAssumption
  <2>7. Inflow(m, k, v, u) = SumOn(into, BioTags)
        BY <1>2, FlowTypes
  <2> HIDE DEF S, w, into, part
  <2>8. QED
        BY <1>2, <1>4, <2>5, <2>6, <2>7 DEF Sums, S, w
<1>5. QED
      BY <1>3, <1>4

(* As long as nothing is asked of the tags, the sums over the paths are    *)
(* those of the forward pass.                                              *)
LEMMA SumsAreForward ==
  ASSUME NEW m, IsModel(m), NEW n \in 0..SeqLen, NEW a, a = Alpha(m, n),
         NEW i \in Positions, NEW Y,
         NEW k \in Positions, k = 0 \/ k < n, Y = BioTags \/ k < i
  PROVE  \A u \in BioTags : Sums(m, k, i, Y, u) = a[k][u]
<1>1. /\ a \in [Positions -> [BioTags -> Nat]] /\ a[0] = First(m)
      /\ \A j \in 1..SeqLen - 1 : j < n => \A u \in BioTags : a[j][u] = Inflow(m, j, a[j - 1], u)
      BY ForwardSums
<1>2. \A l \in Positions : /\ l \in Nat
                           /\ l # 0 => l \in 1..SeqLen - 1 /\ l - 1 \in Positions /\ l - 1 < l
      BY SeqLenAssumption DEF Positions
<1> DEFINE Wrong == {l \in Positions : l <= k /\ ~\A u \in BioTags : Sums(m, l, i, Y, u) = a[l][u]}
<1>3. ASSUME NEW l \in Wrong, \A j \in Wrong : l <= j PROVE FALSE
  <2>1. l \in Positions /\ l <= k /\ l \in Nat /\ k \in Nat /\ n \in Nat /\ i \in Nat
        BY <1>2
  <2>2. Y = BioTags \/ l # i
        BY <2>1
  <2>3. l # 0
    <3>1. ASSUME l = 0, NEW u \in BioTags PROVE Sums(m, 0, i, Y, u) = a[0][u]
      <4>1. ~(i = 0 /\ u \notin Y)
            BY <2>2, <3>1
      <4>2. QED
            BY <1>1, <4>1, FirstSums
    <3>2. QED
          BY <3>1
  <2>4. l - 1 \in Positions /\ l - 1 <= k /\ l < n /\ ~(l <= l - 1) /\ l \in 1..SeqLen - 1
        BY <1>2, <2>1, <2>3
  <2>5. \A t \in BioTags : Sums(m, l - 1, i, Y, t) = a[l - 1][t]
        BY <1>3, <2>4
  <2> DEFINE v == [t \in BioTags |-> Sums(m, l - 1, i, Y, t)]
  <2>6. v = a[l - 1]
    <3>1. a[l - 1] \in [BioTags -> Nat]
          BY <1>1, <2>4
    <3>2. QED
          BY <2>5, <3>1
  <2>7. ASSUME NEW u \in BioTags PROVE Sums(m, l, i, Y, u) = Inflow(m, l, v, u)
    <3>1. ~(i = l /\ u \notin Y)
          BY <2>2
    <3>2. v = [t \in BioTags |-> Sums(m, l - 1, i, Y, t)]
          OBVIOUS
    <3> HIDE DEF v
    <3>3. QED
          BY <2>1, <2>3, <3>1, <3>2, NextSums
  <2> HIDE DEF v
  <2>8. \A u \in BioTags : Sums(m, l, i, Y, u) = a[l][u]
        BY <1>1, <2>4, <2>6, <2>7
  <2>9. QED
        BY <2>8
<1>4. Wrong \subseteq Nat
      BY <1>2
<1>5. k <= k
      BY <1>2
<1> HIDE DEF Wrong
<1>6. Wrong = {}
      BY <1>3, <1>4, LeastElement
<1>7. QED
      BY <1>5, <1>6 DEF Wrong

(* The position i keeps those of them that have a tag of Y.                *)
LEMMA SumsAtPosition ==
  ASSUME NEW m, IsModel(m), NEW n \in 0..SeqLen, NEW a, a = Alpha(m, n),
         NEW i \in Positions, i = 0 \/ i < n, NEW Y, NEW u \in BioTags
  PROVE  Sums(m, i, i, Y, u) = IF u \in Y THEN a[i][u] ELSE 0
<1>1. /\ a \in [Positions -> [BioTags -> Nat]] /\ a[0] = First(m)
      /\ \A j \in 1..SeqLen - 1 : j < n => \A x \in BioTags : a[j][x] = Inflow(m, j, a[j - 1], x)
      BY ForwardSums
<1>2. CASE i = 0
      BY <1>1, <1>2, FirstSums
<1>3. CASE i # 0
  <2>1. i \in 1..SeqLen - 1 /\ i - 1 \in Positions /\ i - 1 < i /\ i - 1 < n /\ i < n
        BY <1>3, SeqLenAssumption DEF Positions
  <2> DEFINE v == [t \in BioTags |-> Sums(m, i - 1, i, Y, t)]
  <2>2. v = a[i - 1]
    <3>1. \A t \in BioTags : Sums(m, i - 1, i, Y, t) = a[i - 1][t]
          BY <2>1, SumsAreForward
    <3>2. a[i - 1] \in [BioTags -> Nat]
          BY <1>1, <2>1
    <3>3. QED
          BY <3>1, <3>2
  <2>3. Sums(m, i, i, Y, u) = IF u \notin Y THEN 0 ELSE Inflow(m, i, v, u)
    <3>1. v = [t \in BioTags |-> Sums(m, i - 1, i, Y, t)]
          OBVIOUS
    <3> HIDE DEF v
    <3>2. QED
          BY <1>3, <3>1, NextSums
  <2> HIDE DEF v
  <2>4. QED
        BY <1>1, <2>1, <2>2, <2>3
<1>4. QED
      BY <1>2, <1>3

(* What the paths that pass i with a tag of Y weigh up to k, with what     *)
(* follows their tags at k: the weight of a tag from k on is v.            *)
Flow(m, k, i, Y, v) == SumOn([u \in BioTags |-> Sums(m, k, i, Y, u) * v[u]], BioTags)

LEMMA FlowIsKept ==
  ASSUME NEW m, IsModel(m), NEW b, b = Beta(m, SeqLen),
         NEW i \in Positions, NEW Y, NEW k \in Positions, i < k
  PROVE  Flow(m, k, i, Y, b[k]) = Flow(m, k - 1, i, Y, b[k - 1])
<1>1. /\ k \in 1..SeqLen - 1 /\ k - 1 \in Positions /\ k # 0 /\ i # k /\ k < SeqLen
      /\ SeqLen \in 0..SeqLen
      BY SeqLenAssumption DEF Positions
<1>2. /\ b \in [Positions -> [BioTags -> Nat]]
      /\ \A t \in BioTags : b[k - 1][t] = Outflow(m, k, b[k], t)
      BY <1>1, BackwardSums
<1> DEFINE B == BioTags
           v == [t \in B |-> Sums(m, k - 1, i, Y, t)]
           x == b[k]
           y == b[k - 1]
           f == [p \in B \X B |-> v[p[1]] * Step(m, k, p[1], p[2]) * x[p[2]]]
           row == [t \in B |-> v[t] * y[t]]
           column == [u \in B |-> Sums(m, k, i, Y, u) * x[u]]
<1>3. x \in [B -> Nat] /\ y \in [B -> Nat]
      BY <1>1, <1>2
<1>4. /\ v \in [B -> Nat]
      /\ \A u \in B : Sums(m, k, i, Y, u) = Inflow(m, k, v, u)
  <2>1. v = [t \in BioTags |-> Sums(m, k - 1, i, Y, t)]
        OBVIOUS
  <2> HIDE DEF v
  <2>2. \A u \in B : Sums(m, k, i, Y, u) = Inflow(m, k, v, u)
        BY <1>1, <2>1, NextSums
  <2>3. v \in [B -> Nat]
        BY <1>1, <2>1, SumsAreNats
  <2>4. QED
        BY <2>2, <2>3
<1>5. /\ \A u \in B : Sums(m, k, i, Y, u) = SumOn([t \in B |-> v[t] * Step(m, k, t, u)], B)
      /\ \A t \in B : y[t] = SumOn([u \in B |-> x[u] * Step(m, k, t, u)], B)
  <2> HIDE DEF v, x
  <2>1. QED
        BY <1>2, <1>3, <1>4, FlowTypes DEF x
<1>6. \A t, u \in B : /\ f[<<t, u>>] = v[t] * Step(m, k, t, u) * x[u]
                      /\ Step(m, k, t, u) \in Nat /\ v[t] \in Nat /\ x[u] \in Nat
  <2> HIDE DEF v, x
  <2>1. \A t, u \in B : Step(m, k, t, u) \in Nat
    <3>1. 0 \in Nat
          OBVIOUS
    <3>2. QED
          BY <3>1, StepType
  <2>2. QED
        BY <1>3, <1>4, <2>1
<1>7. \A t, u \in B : /\ f[<<t, u>>] \in Int
                      /\ f[<<t, u>>] = v[t] * (x[u] * Step(m, k, t, u))
                      /\ f[<<t, u>>] = x[u] * (v[t] * Step(m, k, t, u))
                      /\ x[u] * Step(m, k, t, u) \in Int /\ v[t] * Step(m, k, t, u) \in Int
  <2> HIDE DEF v, x, f
  <2>1. ASSUME NEW c \in Nat, NEW d \in Nat, NEW e \in Nat
        PROVE  /\ c * d * e \in Int /\ c * d * e = c * (e * d) /\ c * d * e = e * (c * d)
               /\ e * d \in Int /\ c * d \in Int
        BY SMT
  <2>2. ASSUME NEW t \in B, NEW u \in B
        PROVE  /\ f[<<t, u>>] \in Int
               /\ f[<<t, u>>] = v[t] * (x[u] * Step(m, k, t, u))
               /\ f[<<t, u>>] = x[u] * (v[t] * Step(m, k, t, u))
               /\ x[u] * Step(m, k, t, u) \in Int /\ v[t] * Step(m, k, t, u) \in Int
    <3> DEFINE c == v[t]  d == Step(m, k, t, u)  e == x[u]
    <3>1. c \in Nat /\ d \in Nat /\ e \in Nat /\ f[<<t, u>>] = c * d * e
          BY <1>6
    <3> HIDE DEF c, d, e
    <3>2. /\ c * d * e \in Int /\ c * d * e = c * (e * d) /\ c * d * e = e * (c * d)
          /\ e * d \in Int /\ c * d \in Int
          BY <2>1, <3>1
    <3>3. QED
          BY <3>1, <3>2 DEF c, d, e
  <2>3. QED
        BY <2>2
<1>8. ASSUME NEW t \in B PROVE row[t] = SumOfRow(f, t, B)
  <2> DEFINE g == [u \in B |-> x[u] * Step(m, k, t, u)]
             h == [u \in B |-> f[<<t, u>>]]
  <2>1. (\A u \in B : g[u] \in Int /\ h[u] = v[t] * g[u]) /\ v[t] \in Int
    <3> HIDE DEF f, v, x
    <3>1. \A u \in B : h[u] = f[<<t, u>>] /\ g[u] = x[u] * Step(m, k, t, u)
          OBVIOUS
    <3> HIDE DEF g, h
    <3>2. ASSUME NEW u \in B PROVE g[u] \in Int /\ h[u] = v[t] * g[u]
          BY <1>7, <3>1
    <3>3. v[t] \in Int
          BY <1>4
    <3>4. QED
          BY <3>2, <3>3
  <2>2. y[t] = SumOn(g, B) /\ row[t] = v[t] * y[t]
    <3> HIDE DEF v, x, y
    <3>1. QED
          BY <1>5
  <2> HIDE DEF g, h, v, y, row, f
  <2>3. SumOn(h, B) = v[t] * SumOn(g, B)
        BY <2>1, SumTimes, SentencesAssumption
  <2>4. QED
        BY <2>2, <2>3 DEF h, SumOfRow
<1>9. ASSUME NEW u \in B PROVE column[u] = SumOfColumn(f, B, u)
  <2> DEFINE g == [t \in B |-> v[t] * Step(m, k, t, u)]
             h == [t \in B |-> f[<<t, u>>]]
  <2>1. (\A t \in B : g[t] \in Int /\ h[t] = x[u] * g[t]) /\ x[u] \in Int
    <3> HIDE DEF f, v, x
    <3>1. \A t \in B : h[t] = f[<<t, u>>] /\ g[t] = v[t] * Step(m, k, t, u)
          OBVIOUS
    <3> HIDE DEF g, h
    <3>2. ASSUME NEW t \in B PROVE g[t] \in Int /\ h[t] = x[u] * g[t]
          BY <1>7, <3>1
    <3>3. x[u] \in Int
          BY <1>3
    <3>4. QED
          BY <3>2, <3>3
  <2>2. Sums(m, k, i, Y, u) = SumOn(g, B) /\ column[u] = Sums(m, k, i, Y, u) * x[u]
    <3> HIDE DEF v, x
    <3>1. QED
          BY <1>5
  <2>3. Sums(m, k, i, Y, u) \in Nat /\ x[u] \in Nat
        BY <1>6, SumsAreNats
  <2> HIDE DEF g, h, x, column, f
  <2>4. SumOn(h, B) = x[u] * SumOn(g, B)
        BY <2>1, SumTimes, SentencesAssumption
  <2>5. ASSUME NEW c \in Nat, NEW d \in Nat PROVE c * d = d * c
        BY SMT
  <2>6. QED
        BY <2>2, <2>3, <2>4, <2>5 DEF h, SumOfColumn
<1>10. \A t \in B : \A u \in B : f[<<t, u>>] \in Int
       BY <1>7
<1>11. Flow(m, k, i, Y, b[k]) = SumOn(column, B) /\ Flow(m, k - 1, i, Y, b[k - 1]) = SumOn(row, B)
       BY DEF Flow
<1>12. IsFiniteSet(B)
       BY SentencesAssumption
<1> HIDE DEF f, row, column, B
<1>13. SumOn(row, B) = SumOn(column, B)
       BY <1>8, <1>9, <1>10, <1>12, SumsSwap
<1>14. QED
       BY <1>11, <1>13

(* All that passes i with a tag of Y, by the last tag of the paths.        *)
LEMMA WeightOfPaths ==
  ASSUME NEW m, IsModel(m), NEW n \in 1..SeqLen, NEW i \in Positions, NEW Y,
         NEW w, w = [p \in Paths(n) |-> Potential(m, p, n)]
  PROVE  /\ \A p \in Paths(n) : w[p] \in Nat
         /\ SumOn(w, Through(n - 1, i, Y)) = Flow(m, n - 1, i, Y, m.end)
<1> DEFINE c == n - 1
           S == Through(c, i, Y)
           of == [p \in S |-> p[c]]
           x == Weights(m, c)
           part == [u \in BioTags |-> SumOfPart(w, S, of, u)]
           ends == [u \in BioTags |-> Sums(m, c, i, Y, u) * m.end[u]]
<1>1. c \in Positions /\ c + 1 = n /\ Paths(n) = PathsTo(c)
      BY SeqLenAssumption DEF Positions, Paths, PathsTo
<1>2. S \subseteq PathsTo(c)
      BY DEF Through
<1>3. \A u \in BioTags : m.end[u] \in Nat
      BY DEF IsModel
<1>4. \A p \in PathsTo(c) : p[c] \in BioTags
  <2>1. c \in 0..c
        BY SeqLenAssumption
  <2> HIDE DEF c
  <2>2. QED
        BY <2>1 DEF PathsTo
<1>5. ASSUME NEW p \in PathsTo(c)
      PROVE  /\ Weight(m, p, c) \in Nat
             /\ w[p] = Weight(m, p, c) * m.end[p[c]] /\ w[p] \in Nat
  <2>1. Weight(m, p, c) \in Nat
        BY <1>1, WeightOfLonger
  <2>2. w[p] = Potential(m, p, n)
        BY <1>1
  <2>3. Potential(m, p, n) = Along(m, p, n)[c] * m.end[p[c]]
        BY DEF Potential
  <2>4. Along(m, p, n)[c] = Weight(m, p, c)
        BY <1>1 DEF Weight
  <2>5. m.end[p[c]] \in Nat
        BY <1>3, <1>4
  <2> HIDE DEF c
  <2>6. QED
        BY <2>1, <2>2, <2>3, <2>4, <2>5, Products
<1>6. IsFiniteSet(S) /\ IsFiniteSet(BioTags)
  <2> HIDE DEF S
  <2>1. QED
        BY <1>1, <1>2, PartsOfPaths, SentencesAssumption
<1>7. \A p \in S : w[p] \in Int /\ of[p] \in BioTags /\ of[p] = p[c]
      BY <1>2, <1>4, <1>5
<1>8. SumOn(w, S) = SumOn(part, BioTags)
  <2>1. \A u \in BioTags : part[u] = SumOfPart(w, S, of, u)
        OBVIOUS
  <2>2. (\A p \in S : w[p] \in Int) /\ (\A p \in S : of[p] \in BioTags)
        BY <1>7
  <2> HIDE DEF S, of, part
  <2>3. QED
        BY <1>6, <2>1, <2>2, SumOfParts
<1>9. ASSUME NEW u \in BioTags PROVE part[u] = ends[u] /\ ends[u] \in Int
  <2> DEFINE T == Ending(c, i, Y, u)
             e == m.end[u]
  <2>1. T \subseteq PathsTo(c) /\ T \subseteq S
        BY DEF Ending, Through
  <2>2. {p \in S : of[p] = u} = T
        BY <1>7 DEF Ending
  <2>3. part[u] = SumOn(w, T)
    <3>1. part[u] = SumOn(w, {p \in S : of[p] = u})
          BY DEF SumOfPart
    <3>2. QED
          BY <2>2, <3>1
  <2>4. IsFiniteSet(T) /\ SumOn(x, T) \in Nat /\ \A p \in T : x[p] = Weight(m, p, c) /\ x[p] \in Nat
    <3> HIDE DEF T, x
    <3>1. QED
          BY <1>1, <2>1, PartsOfPaths DEF x
  <2>5. e \in Nat
        BY <1>3
  <2>6. \A p \in T : w[p] = e * x[p] /\ x[p] \in Int
    <3>1. ASSUME NEW p \in T PROVE w[p] = e * x[p] /\ x[p] \in Int
      <4>1. p \in PathsTo(c) /\ p[c] = u
            BY <2>1 DEF Ending
      <4> HIDE DEF T, x, e
      <4>2. w[p] = x[p] * e
            BY <1>5, <2>4, <4>1 DEF e
      <4>3. x[p] \in Nat
            BY <2>4
      <4>4. x[p] * e = e * x[p]
            BY <2>5, <4>3
      <4>5. QED
            BY <4>2, <4>3, <4>4
    <3>2. QED
          BY <3>1
  <2>7. SumOn(x, T) = Sums(m, c, i, Y, u)
        BY DEF Sums
  <2>8. ends[u] = Sums(m, c, i, Y, u) * e
        OBVIOUS
  <2> HIDE DEF T, x, e, part, ends, c
  <2>9. SumOn(w, T) = e * SumOn(x, T)
    <3>1. IsFiniteSet(T) /\ e \in Int
          BY <2>4, <2>5
    <3>2. \A p \in T : x[p] \in Int
          BY <2>6
    <3>3. \A p \in T : w[p] = e * x[p]
          BY <2>6
    <3>4. QED
          BY <3>1, <3>2, <3>3, SumTimes
  <2>10. e * SumOn(x, T) = SumOn(x, T) * e /\ e * SumOn(x, T) \in Int
         BY <2>4, <2>5
  <2>11. QED
         BY <2>3, <2>7, <2>8, <2>9, <2>10
<1>10. SumOn(part, BioTags) = SumOn(ends, BioTags)
  <2> HIDE DEF part, ends
  <2>1. QED
        BY <1>6, <1>9, SumSame
<1>11. Flow(m, c, i, Y, m.end) = SumOn(ends, BioTags)
       BY DEF Flow
<1> HIDE DEF part, ends
<1>12. \A p \in Paths(n) : w[p] \in Nat
       BY <1>1, <1>5
<1>13. QED
       BY <1>8, <1>10, <1>11, <1>12

(* The weight of all paths that pass i with a tag of Y is the sum, over    *)
(* these tags, of what is before and at i times what is after it.          *)
LEMMA MarginalSums ==
  ASSUME NEW m, IsModel(m), NEW i \in Positions, NEW Y, Y \subseteq BioTags,
         NEW a, a = Alpha(m, SeqLen), NEW b, b = Beta(m, SeqLen),
         NEW w, w = [p \in Paths(SeqLen) |-> Potential(m, p, SeqLen)],
         NEW x, \A t \in Y : x[t] = a[i][t] * b[i][t]
  PROVE  SumOn(w, Through(SeqLen - 1, i, Y)) = SumOn(x, Y)
<1> DEFINE c == SeqLen - 1
           flow == [u \in BioTags |-> Sums(m, i, i, Y, u) * b[i][u]]
           of == [t \in Y |-> t]
<1>1. /\ SeqLen \in 1..SeqLen /\ SeqLen \in 0..SeqLen /\ c \in Positions /\ i \in Nat /\ c \in Nat
      /\ i <= c /\ i < SeqLen
      BY SeqLenAssumption DEF Positions
<1>2. SumOn(w, Through(c, i, Y)) = Flow(m, c, i, Y, m.end)
      BY <1>1, WeightOfPaths
<1>3. b \in [Positions -> [BioTags -> Nat]] /\ b[c] = m.end
      BY <1>1, BackwardSums
<1>4. a \in [Positions -> [BioTags -> Nat]]
      BY <1>1, ForwardSums
<1>5. Flow(m, c, i, Y, b[c]) = Flow(m, i, i, Y, b[i])
  <2> DEFINE Wrong == {k \in Positions : i <= k /\ Flow(m, k, i, Y, b[k]) # Flow(m, i, i, Y, b[i])}
  <2>1. ASSUME NEW k \in Wrong, \A l \in Wrong : k <= l PROVE FALSE
    <3>1. k \in Positions /\ i <= k /\ k # i /\ k \in Nat
          BY <2>1 DEF Positions
    <3>2. i < k /\ k - 1 \in Positions /\ i <= k - 1 /\ ~(k <= k - 1)
          BY <1>1, <3>1, SeqLenAssumption DEF Positions
    <3>3. Flow(m, k - 1, i, Y, b[k - 1]) = Flow(m, i, i, Y, b[i])
          BY <2>1, <3>2
    <3>4. Flow(m, k, i, Y, b[k]) = Flow(m, k - 1, i, Y, b[k - 1])
          BY <3>1, <3>2, FlowIsKept
    <3>5. QED
          BY <2>1, <3>3, <3>4
  <2>2. Wrong \subseteq Nat
        BY DEF Positions
  <2> HIDE DEF Wrong
  <2>3. Wrong = {}
        BY <2>1, <2>2, LeastElement
  <2> HIDE DEF c
  <2>4. QED
        BY <1>1, <2>3 DEF Wrong
<1>6. Flow(m, i, i, Y, b[i]) = SumOn(flow, BioTags)
      BY DEF Flow
<1>7. \A u \in BioTags : b[i][u] \in Nat /\ a[i][u] \in Nat
      BY <1>3, <1>4
<1>8. \A u \in BioTags : flow[u] = IF u \in Y THEN a[i][u] * b[i][u] ELSE 0
  <2>1. \A u \in BioTags : Sums(m, i, i, Y, u) = IF u \in Y THEN a[i][u] ELSE 0
        BY <1>1, SumsAtPosition
  <2>2. \A z \in Nat : 0 * z = 0
        OBVIOUS
  <2>3. QED
        BY <1>7, <2>1, <2>2
<1>9. IsFiniteSet(Y) /\ IsFiniteSet(BioTags)
      BY SentencesAssumption, FS_Subset
<1>10. \A t \in Y : x[t] \in Int /\ flow[t] = x[t] /\ of[t] \in BioTags /\ of[t] = t
  <2> HIDE DEF flow
  <2>1. ASSUME NEW t \in Y PROVE x[t] \in Int /\ flow[t] = x[t]
    <3>1. t \in BioTags /\ b[i][t] \in Nat /\ a[i][t] \in Nat
          BY <1>7
    <3>2. a[i][t] * b[i][t] \in Nat
          BY <3>1, Products
    <3>3. QED
          BY <1>8, <3>1, <3>2
  <2>2. QED
        BY <2>1
<1>11. \A u \in BioTags : flow[u] = SumOfPart(x, Y, of, u)
  <2> HIDE DEF flow
  <2>1. ASSUME NEW u \in BioTags PROVE flow[u] = SumOn(x, {t \in Y : of[t] = u})
    <3>1. CASE u \in Y
      <4>1. {t \in Y : of[t] = u} = {u}
            BY <1>10, <3>1
      <4>2. SumOn(x, {u}) = x[u]
            BY <1>10, <3>1, SumOfOne
      <4> HIDE DEF of
      <4>3. QED
            BY <1>10, <3>1, <4>1, <4>2
    <3>2. CASE u \notin Y
      <4>1. {t \in Y : of[t] = u} = {}
            BY <1>10, <3>2
      <4>2. flow[u] = 0
            BY <1>8, <3>2
      <4> HIDE DEF of
      <4>3. QED
            BY <4>1, <4>2, NoSum
    <3>3. QED
          BY <3>1, <3>2
  <2>2. QED
        BY <2>1 DEF SumOfPart
<1> HIDE DEF flow, of
<1>12. SumOn(x, Y) = SumOn(flow, BioTags)
  <2>1. (\A t \in Y : x[t] \in Int) /\ (\A t \in Y : of[t] \in BioTags)
        BY <1>10
  <2>2. QED
        BY <1>9, <1>11, <2>1, SumOfParts
<1>13. QED
       BY <1>2, <1>3, <1>5, <1>6, <1>12

(* TotalOver, of the values of a function.                                 *)
TotalOf(paths, w) ==
  Total([t \in BioTags |-> Total([path \in {p \in paths : p[0] = t} |-> w[path]])])

LEMMA TotalOfPaths ==
  ASSUME NEW k \in Positions, NEW S, S \subseteq PathsTo(k), NEW w, \A p \in S : w[p] \in Nat
  PROVE  TotalOf(S, w) = SumOn(w, S)
<1> DEFINE of == [p \in S |-> p[0]]
           part == [t \in BioTags |-> Total([path \in {p \in S : p[0] = t} |-> w[path]])]
<1>1. IsFiniteSet(S) /\ IsFiniteSet(BioTags)
      BY FinitelyManyPaths, FS_Subset, SentencesAssumption
<1>2. \A p \in S : of[p] = p[0] /\ of[p] \in BioTags
  <2>1. 0 \in 0..k
        BY SeqLenAssumption DEF Positions
  <2>2. \A p \in S : p[0] \in BioTags
        BY <2>1 DEF PathsTo
  <2>3. QED
        BY <2>2
<1>3. ASSUME NEW t \in BioTags PROVE part[t] = SumOfPart(w, S, of, t)
  <2> DEFINE U == {p \in S : p[0] = t}
             v == [path \in U |-> w[path]]
  <2>1. part[t] = Total(v)
        OBVIOUS
  <2>2. DOMAIN v = U /\ (\A p \in U : v[p] = w[p]) /\ U \subseteq S
        OBVIOUS
  <2>3. {p \in S : of[p] = t} = U
        BY <1>2
  <2>4. SumOfPart(w, S, of, t) = SumOn(w, U)
    <3>1. SumOfPart(w, S, of, t) = SumOn(w, {p \in S : of[p] = t})
          BY DEF SumOfPart
    <3>2. QED
          BY <2>3, <3>1
  <2> HIDE DEF U, v, part, of
  <2>5. IsFiniteSet(U)
        BY <1>1, <2>2, FS_Subset
  <2>6. \A p \in U : w[p] \in Int /\ v[p] = w[p]
        BY <2>2
  <2>7. SumOn(v, U) = SumOn(w, U)
        BY <2>5, <2>6, SumSame
  <2>8. Total(v) = SumOn(v, U)
        BY <2>2, TotalIsSum
  <2>9. QED
        BY <2>1, <2>4, <2>7, <2>8
<1>4. TotalOf(S, w) = SumOn(part, BioTags)
  <2>1. TotalOf(S, w) = Total(part) /\ DOMAIN part = BioTags
        BY DEF TotalOf
  <2> HIDE DEF part
  <2>2. QED
        BY <2>1, TotalIsSum
<1>5. (\A p \in S : w[p] \in Int) /\ (\A p \in S : of[p] \in BioTags)
      BY <1>2
<1> HIDE DEF part, of
<1>6. SumOn(w, S) = SumOn(part, BioTags)
      BY <1>1, <1>3, <1>5, SumOfParts
<1>7. QED
      BY <1>4, <1>6

(* The marginals of a position: the weight of the paths through a tag, and *)
(* all of them together the partition function.                            *)
LEMMA MarginalsOfModel ==
  ASSUME NEW m, IsModel(m), NEW w, w = [p \in Paths(SeqLen) |-> Potential(m, p, SeqLen)],
         NEW i \in Positions, NEW row, row = Marginals(m, SeqLen)[i]
  PROVE  /\ row \in [BioTags -> Nat]
         /\ \A Y \in SUBSET BioTags : \A x :
              (\A t \in Y : x[t] = row[t]) => SumOn(w, Through(SeqLen - 1, i, Y)) = SumOn(x, Y)
         /\ Total(row) = Partition(m, SeqLen)
<1> DEFINE a == Alpha(m, SeqLen)
           b == Beta(m, SeqLen)
           c == SeqLen - 1
           ends == [t \in BioTags |-> a[c][t] * m.end[t]]
<1>1. /\ SeqLen \in 0..SeqLen /\ c \in Positions
      /\ a \in [Positions -> [BioTags -> Nat]] /\ b \in [Positions -> [BioTags -> Nat]]
      /\ b[c] = m.end
  <2>1. SeqLen \in 0..SeqLen /\ c \in Positions
        BY SeqLenAssumption DEF Positions
  <2>2. QED
        BY <2>1, ForwardSums, BackwardSums
<1>2. row = [t \in BioTags |-> a[i][t] * b[i][t]]
  <2>1. Marginals(m, SeqLen) = [j \in Positions |-> [t \in BioTags |-> a[j][t] * b[j][t]]]
        BY DEF Marginals
  <2> HIDE DEF a, b
  <2>2. QED
        BY <2>1
<1>3. Partition(m, SeqLen) = Total(ends)
      BY DEF Partition
<1>4. a = Alpha(m, SeqLen) /\ b = Beta(m, SeqLen)
      OBVIOUS
<1> HIDE DEF a, b
<1>5. \A t \in BioTags : /\ row[t] = a[i][t] * b[i][t] /\ row[t] \in Nat
                         /\ ends[t] = a[c][t] * b[c][t]
  <2>1. ASSUME NEW t \in BioTags PROVE a[i][t] * b[i][t] \in Nat
    <3>1. a[i][t] \in Nat /\ b[i][t] \in Nat
          BY <1>1
    <3>2. QED
          BY <3>1, Products
  <2>2. QED
        BY <1>1, <1>2, <2>1
<1>6. row \in [BioTags -> Nat] /\ DOMAIN row = BioTags
      BY <1>2, <1>5
<1>7. DOMAIN ends = BioTags
      OBVIOUS
<1> HIDE DEF ends
<1>8. ASSUME NEW Y \in SUBSET BioTags, NEW x, \A t \in Y : x[t] = row[t]
      PROVE  SumOn(w, Through(c, i, Y)) = SumOn(x, Y)
  <2>1. \A t \in Y : x[t] = a[i][t] * b[i][t]
        BY <1>5, <1>8
  <2>2. QED
        BY <1>4, <2>1, MarginalSums
<1>9. SumOn(w, Through(c, i, BioTags)) = SumOn(row, BioTags)
      BY <1>8
<1>10. SumOn(w, Through(c, c, BioTags)) = SumOn(ends, BioTags)
  <2>1. \A t \in BioTags : ends[t] = a[c][t] * b[c][t]
        BY <1>5
  <2> HIDE DEF c
  <2>2. QED
        BY <1>1, <1>4, <2>1, MarginalSums DEF c
<1>11. Through(c, i, BioTags) = Through(c, c, BioTags)
  <2>1. \A j \in Positions : j \in 0..c
        BY SeqLenAssumption DEF Positions
  <2> HIDE DEF c
  <2>2. QED
        BY <1>1, <2>1 DEF Through, PathsTo
<1>12. QED
       BY <1>3, <1>6, <1>7, <1>8, <1>9, <1>10, <1>11, TotalIsSum

(* The tags of a path, and its last one in the padding.                    *)
PaddedPath(path, n) == [i \in Positions |-> path[IF i < n THEN i ELSE n - 1]]

(* For transitions of the first order the score of a path is its           *)
(* potential (_numerator_score).                                           *)
LEMMA NumeratorIsPotential ==
  ASSUME NEW m, IsModel(m), m.transitions2 = [t \in BioTags |-> [u \in BioTags |-> 1]],
         NEW n \in 1..SeqLen, NEW path \in Paths(n), NEW p, p = PaddedPath(path, n)
  PROVE  Numerator(m, n, p) = Potential(m, path, n)
<1> DEFINE N == SeqLen - 2
           tr(i) == IF i + 1 < n THEN Transition(m, p[i], p[i + 1]) ELSE 1
           e(i) == IF i < n THEN m.emissions[i][p[i]] ELSE 1
           factor == [i \in 0..N |-> tr(i) * e(i)]
           W(k) == ProductOn(factor, 0..k - 1)
           upto(k) == IF k < n THEN k ELSE n - 1
           a == Along(m, path, n)
           s == m.start[path[0]]
           f == m.end[path[n - 1]]
<1>1. /\ N \in Nat /\ SeqLen = N + 2 /\ n \in Nat /\ n >= 1 /\ n <= N + 2
      /\ \A i \in 0..N + 1 : i \in Positions
      BY SeqLenAssumption DEF Positions
<1>2. \A i \in 0..n - 1 : path[i] \in BioTags
      BY DEF Paths
<1> HIDE DEF N
<1>3. \A i \in 0..N + 1 : p[i] \in BioTags /\ p[i] = path[IF i < n THEN i ELSE n - 1]
  <2>1. \A i \in 0..N + 1 : (IF i < n THEN i ELSE n - 1) \in 0..n - 1
        BY <1>1
  <2>2. QED
        BY <1>1, <1>2, <2>1 DEF PaddedPath
<1>4. \A i \in 0..N + 1 : e(i) \in Nat
  <2>1. ASSUME NEW i \in 0..N + 1 PROVE m.emissions[i][p[i]] \in Nat
    <3>1. i \in Positions /\ p[i] \in BioTags
          BY <1>1, <1>3
    <3>2. QED
          BY <3>1 DEF IsModel
  <2>2. QED
        BY <2>1
<1>5. \A i \in 0..N : tr(i) \in Nat
  <2>1. ASSUME NEW i \in 0..N PROVE Transition(m, p[i], p[i + 1]) \in Nat
    <3>1. p[i] \in BioTags /\ p[i + 1] \in BioTags
          BY <1>1, <1>3
    <3>2. QED
          BY <3>1, TransitionType
  <2>2. QED
        BY <2>1
<1>6. /\ a \in [0..n - 1 -> Nat] /\ a[0] = s * m.emissions[0][path[0]]
      /\ \A i \in 1..n - 1 :
           a[i] = a[i - 1] * Transition(m, path[i - 1], path[i]) * m.emissions[i][path[i]]
  <2> HIDE DEF a
  <2>1. QED
        BY PotentialsAlong DEF a
<1>7. s \in Nat /\ f \in Nat
  <2>1. path[0] \in BioTags /\ path[n - 1] \in BioTags
        BY <1>1, <1>2
  <2>2. QED
        BY <2>1 DEF IsModel
<1>8. Potential(m, path, n) = a[n - 1] * f
      BY DEF Potential
<1>9. \A i \in 0..N : factor[i] = tr(i) * e(i) /\ factor[i] \in Int
  <2>1. ASSUME NEW i \in 0..N PROVE tr(i) * e(i) \in Int
    <3>1. tr(i) \in Nat /\ e(i) \in Nat
      <4>1. i \in 0..N + 1
            BY <1>1
      <4> HIDE DEF tr, e
      <4>2. QED
            BY <1>4, <1>5, <4>1
    <3> HIDE DEF tr, e
    <3>2. QED
          BY <3>1, Products
  <2> HIDE DEF tr, e
  <2>2. QED
        BY <2>1
<1>10. W(0) = 1
  <2>1. 0..0 - 1 = {} /\ IsFiniteSet({}) /\ \A i \in {} : factor[i] \in Int
        BY FS_EmptySet
  <2> HIDE DEF factor
  <2>2. ProductOn(factor, {}) = 1
        BY <2>1, ProductTakesOut
  <2>3. QED
        BY <2>1, <2>2
<1>11. ASSUME NEW k \in 1..N + 1 PROVE W(k) = (tr(k - 1) * e(k - 1)) * W(k - 1) /\ W(k - 1) \in Int
  <2> DEFINE S == 0..k - 1
  <2>1. IsFiniteSet(S) /\ k - 1 \in S /\ S \ {k - 1} = 0..(k - 1) - 1 /\ S \subseteq 0..N /\ k - 1 \in 0..N
    <3>1. IsFiniteSet(S)
          BY <1>1, FS_Interval
    <3>2. QED
          BY <1>1, <3>1
  <2>2. \A i \in S : factor[i] \in Int
    <3> HIDE DEF factor, S
    <3>1. QED
          BY <1>9, <2>1
  <2>3. factor[k - 1] = tr(k - 1) * e(k - 1)
    <3> HIDE DEF factor, tr, e
    <3>1. QED
          BY <1>9, <2>1
  <2> HIDE DEF factor, S
  <2>4. /\ ProductOn(factor, S \ {k - 1}) \in Int
        /\ ProductOn(factor, S) = factor[k - 1] * ProductOn(factor, S \ {k - 1})
        BY <2>1, <2>2, ProductTakesOut
  <2>5. W(k) = ProductOn(factor, S) /\ W(k - 1) = ProductOn(factor, S \ {k - 1})
        BY <2>1 DEF S
  <2> HIDE DEF W, tr, e
  <2>6. QED
        BY <2>3, <2>4, <2>5
<1>12. \A k \in 0..N + 1 : W(k) \in Int
  <2>1. ASSUME NEW k \in 0..N + 1 PROVE W(k) \in Int
    <3>1. CASE k = N + 1
      <4> DEFINE S == 0..N
      <4>1. IsFiniteSet(S) /\ k - 1 = N
            BY <1>1, <3>1, FS_Interval
      <4>2. \A i \in S : factor[i] \in Int
        <5> HIDE DEF factor
        <5>1. QED
              BY <1>9
      <4>3. W(k) = ProductOn(factor, S)
            BY <4>1
      <4> HIDE DEF factor, S, W
      <4>4. QED
            BY <4>1, <4>2, <4>3, ProductTakesOut
    <3>2. CASE k # N + 1
      <4>1. k + 1 \in 1..N + 1 /\ (k + 1) - 1 = k
            BY <1>1, <3>2
      <4>2. W((k + 1) - 1) \in Int
        <5> HIDE DEF W, tr, e
        <5>1. QED
              BY <1>11, <4>1
      <4> HIDE DEF W
      <4>3. QED
            BY <4>1, <4>2
    <3>3. QED
          BY <3>1, <3>2
  <2> HIDE DEF W
  <2>2. QED
        BY <2>1
<1> HIDE DEF factor, W
<1>13. \A k \in 0..N + 1 : upto(k) \in 0..n - 1
       BY <1>1
<1> DEFINE Wrong == {k \in 0..N + 1 : s * W(k) * e(k) # a[upto(k)]}
<1>14. ASSUME NEW k \in Wrong, \A l \in Wrong : k <= l PROVE FALSE
  <2>1. k # 0
    <3>1. ASSUME k = 0 PROVE s * W(0) * e(0) = a[0]
      <4>1. e(0) = m.emissions[0][path[0]] /\ e(0) \in Nat
            BY <1>1, <1>3, <1>4
      <4> HIDE DEF e, s, a
      <4>2. s * 1 * e(0) = s * e(0)
            BY <1>7, <4>1
      <4>3. QED
            BY <1>6, <1>10, <4>1, <4>2
    <3>2. upto(0) = 0
          BY <1>1
    <3>3. QED
          BY <3>1, <3>2
  <2>2. k \in 1..N + 1 /\ k - 1 \in 0..N + 1 /\ k - 1 \in 0..N /\ k \in 0..N + 1 /\ k - 1 \notin Wrong
        BY <1>1, <1>14, <2>1
  <2> DEFINE j == k - 1  x == W(k - 1)  c == e(k - 1)  d == tr(k - 1)  g == e(k)
  <2>3. /\ x \in Int /\ c \in Nat /\ d \in Nat /\ g \in Nat /\ s \in Nat
        /\ W(k) = (d * c) * x /\ a[upto(j)] = s * x * c
    <3>1. a[upto(j)] = s * x * c
          BY <2>2
    <3> HIDE DEF e, tr, s, a, upto
    <3>2. QED
          BY <1>4, <1>5, <1>7, <1>11, <1>12, <2>2, <3>1
  <2>4. a[upto(j)] \in Nat /\ upto(j) \in 0..n - 1
    <3>1. upto(j) \in 0..n - 1
          BY <1>13, <2>2
    <3> HIDE DEF a, upto, j
    <3>2. QED
          BY <1>6, <3>1
  <2>5. s * W(k) * g = a[upto(j)] * d * g
    <3> DEFINE y == W(k)  z == a[upto(j)]
    <3>1. y = (d * c) * x /\ z = s * x * c
          BY <2>3
    <3> HIDE DEF x, c, d, g, s, y, z
    <3>2. ASSUME NEW s1 \in Int, NEW x1 \in Int, NEW c1 \in Int, NEW d1 \in Int, NEW g1 \in Int
          PROVE  s1 * ((d1 * c1) * x1) * g1 = s1 * x1 * c1 * d1 * g1
          BY SMT
    <3>3. s * y * g = z * d * g
          BY <2>3, <3>1, <3>2
    <3>4. QED
          BY <3>3 DEF y, z
  <2>6. a[upto(k)] = a[upto(j)] * d * g
    <3>1. CASE k < n
      <4>1. /\ upto(j) = k - 1 /\ upto(k) = k /\ k \in 1..n - 1
            /\ d = Transition(m, path[k - 1], path[k]) /\ g = m.emissions[k][path[k]]
            BY <1>1, <1>3, <2>2, <3>1
      <4> HIDE DEF a, d, g, upto, j
      <4>2. QED
            BY <1>6, <4>1
    <3>2. CASE ~(k < n)
      <4>1. upto(j) = n - 1 /\ upto(k) = n - 1 /\ d = 1 /\ g = 1
            BY <1>1, <2>2, <3>2
      <4> HIDE DEF a, d, g, upto
      <4>2. QED
            BY <2>4, <4>1
    <3>3. QED
          BY <3>1, <3>2
  <2> HIDE DEF a, s, g, d, upto, x, c, j
  <2>7. s * W(k) * g = a[upto(k)]
        BY <2>5, <2>6
  <2>8. QED
        BY <1>14, <2>7 DEF g
<1>15. Wrong = {}
  <2>1. Wrong \subseteq Nat
        BY <1>1
  <2> HIDE DEF Wrong
  <2>2. QED
        BY <1>14, <2>1, LeastElement
<1> DEFINE L == N + 1
<1>16. L \in 0..N + 1 /\ upto(L) = n - 1 /\ L = SeqLen - 1 /\ 0..L - 1 = 0..SeqLen - 2
       BY <1>1
<1>17. s * W(L) * e(L) = a[n - 1]
       BY <1>15, <1>16
<1>18. Numerator(m, n, p) = s * f * W(L) * e(L)
  <2>1. ASSUME NEW i \in 0..N
        PROVE  (IF i + 1 < n THEN m.transitions[p[i]][p[i + 1]]
                                   * m.transitions2[p[IF i = 0 THEN 0 ELSE i - 1]][p[i + 1]]
                ELSE 1) = tr(i)
    <3>1. /\ i \in 0..N + 1 /\ i + 1 \in 0..N + 1 /\ (IF i = 0 THEN 0 ELSE i - 1) \in 0..N + 1
          BY <1>1
    <3>2. /\ p[i] \in BioTags /\ p[i + 1] \in BioTags /\ p[IF i = 0 THEN 0 ELSE i - 1] \in BioTags
          BY <1>3, <3>1
    <3>3. m.transitions2[p[IF i = 0 THEN 0 ELSE i - 1]][p[i + 1]] = m.transitions2[p[i]][p[i + 1]]
          BY <3>2
    <3>4. QED
          BY <3>3 DEF Transition
  <2> DEFINE raw == [i \in 0..SeqLen - 2 |->
                       (IF i + 1 < n
                        THEN m.transitions[p[i]][p[i + 1]]
                               * m.transitions2[p[IF i = 0 THEN 0 ELSE i - 1]][p[i + 1]]
                        ELSE 1)
                       * (IF i < n THEN m.emissions[i][p[i]] ELSE 1)]
  <2>2. raw = factor
    <3>1. 0..SeqLen - 2 = 0..N
          BY DEF N
    <3>2. \A i \in 0..N : raw[i] = tr(i) * e(i)
          BY <2>1, <3>1
    <3>3. raw = [i \in 0..N |-> raw[i]]
          BY <3>1
    <3> HIDE DEF raw, tr, e
    <3>4. QED
          BY <3>2, <3>3 DEF factor
  <2>3. ProductOn(raw, 0..SeqLen - 2) = FoldFunction(LAMBDA x, y : x * y, 1, raw)
        BY DEF ProductOn, FoldFunction
  <2>4. /\ p[0] = path[0] /\ p[n - 1] = path[n - 1]
        /\ (IF SeqLen - 1 < n THEN m.emissions[SeqLen - 1][p[n - 1]] ELSE 1) = e(L)
    <3>1. 0 \in 0..N + 1 /\ n - 1 \in 0..N + 1 /\ 0 < n /\ n - 1 < n
          BY <1>1
    <3>2. SeqLen - 1 < n => n - 1 = L
          BY <1>1
    <3>3. QED
          BY <1>3, <1>16, <3>1, <3>2
  <2>5. Numerator(m, n, p)
          = m.start[p[0]] * m.end[p[n - 1]] * FoldFunction(LAMBDA x, y : x * y, 1, raw)
            * (IF SeqLen - 1 < n THEN m.emissions[SeqLen - 1][p[n - 1]] ELSE 1)
        BY DEF Numerator
  <2>6. W(L) = ProductOn(factor, 0..SeqLen - 2)
        BY <1>16 DEF W
  <2> HIDE DEF raw, e, L
  <2>7. QED
        BY <2>2, <2>3, <2>4, <2>5, <2>6
<1>19. W(L) \in Int /\ e(L) \in Nat /\ a[n - 1] \in Nat
  <2>1. a[n - 1] \in Nat
        BY <1>1, <1>6
  <2> HIDE DEF a, e, L
  <2>2. QED
        BY <1>4, <1>12, <1>16, <2>1
<1> HIDE DEF s, f, a, L, e
<1>20. ASSUME NEW s1 \in Int, NEW f1 \in Int, NEW w1 \in Int, NEW e1 \in Int
       PROVE  s1 * f1 * w1 * e1 = (s1 * w1 * e1) * f1
       BY SMT
<1>21. s * f * W(L) * e(L) = (s * W(L) * e(L)) * f
       BY <1>7, <1>19, <1>20
<1>22. QED
       BY <1>8, <1>17, <1>18, <1>21

(* The forward pass leaves the sums of the last character through the      *)
(* padding.                                                                *)
LEMMA ForwardThroughPadding ==
  ASSUME NEW m, IsModel(m), NEW n \in 1..SeqLen, NEW a, a = Alpha(m, n)
  PROVE  a[SeqLen - 1] = a[n - 1]
<1> DEFINE Wrong == {k \in Nat : k \in n - 1..SeqLen - 1 /\ a[k] # a[n - 1]}
<1>1. /\ n \in 0..SeqLen /\ n \in Nat /\ SeqLen \in Nat /\ n >= 1
      /\ SeqLen - 1 \in Nat /\ SeqLen - 1 \in n - 1..SeqLen - 1
      BY SeqLenAssumption
<1>2. \A i \in 1..SeqLen - 1 : i >= n => a[i] = a[i - 1]
      BY <1>1, ForwardSums
<1>3. ASSUME NEW k \in Wrong, \A l \in Wrong : k <= l PROVE FALSE
  <2>1. k # n - 1 /\ k \in Nat /\ k \in n - 1..SeqLen - 1
        OBVIOUS
  <2>2. k \in 1..SeqLen - 1 /\ k >= n /\ k - 1 \in Nat /\ k - 1 \in n - 1..SeqLen - 1 /\ ~(k <= k - 1)
        BY <1>1, <2>1
  <2>3. a[k - 1] = a[n - 1]
        BY <1>3, <2>2
  <2>4. QED
        BY <1>2, <1>3, <2>2, <2>3
<1>4. Wrong \subseteq Nat
      OBVIOUS
<1> HIDE DEF Wrong
<1>5. Wrong = {}
      BY <1>3, <1>4, LeastElement
<1>6. QED
      BY <1>1, <1>5 DEF Wrong

(* The partition function of the characters is the weight of all paths     *)
(* through them.                                                           *)
LEMMA PartitionOfModel ==
  ASSUME NEW m, IsModel(m), NEW n \in 1..SeqLen, NEW w, w = [p \in Paths(n) |-> Potential(m, p, n)]
  PROVE  Partition(m, n) = TotalOf(Paths(n), w)
<1> DEFINE c == n - 1
           a == Alpha(m, n)
           ends == [t \in BioTags |-> a[SeqLen - 1][t] * m.end[t]]
           flow == [u \in BioTags |-> Sums(m, c, 0, BioTags, u) * m.end[u]]
<1>1. /\ c \in Positions /\ Paths(n) = PathsTo(c) /\ n \in 0..SeqLen /\ 0 \in Positions
      /\ c = 0 \/ (c < n /\ 0 <= c)
      BY SeqLenAssumption DEF Positions, Paths, PathsTo
<1>2. \A p \in Paths(n) : w[p] \in Nat
      BY <1>1, WeightOfPaths
<1>3. TotalOf(Paths(n), w) = SumOn(w, Paths(n))
  <2>1. Paths(n) \subseteq PathsTo(c)
        BY <1>1
  <2> HIDE DEF c
  <2>2. QED
        BY <1>1, <1>2, <2>1, TotalOfPaths
<1>4. Paths(n) = Through(c, 0, BioTags)
  <2>1. 0 \in 0..c
        BY SeqLenAssumption
  <2>2. \A p \in PathsTo(c) : p[0] \in BioTags
        BY <2>1 DEF PathsTo
  <2> HIDE DEF c
  <2>3. QED
        BY <1>1, <2>2 DEF Through
<1>5. SumOn(w, Through(c, 0, BioTags)) = Flow(m, c, 0, BioTags, m.end)
      BY <1>1, WeightOfPaths
<1>6. Flow(m, c, 0, BioTags, m.end) = SumOn(flow, BioTags)
      BY DEF Flow
<1>7. \A u \in BioTags : Sums(m, c, 0, BioTags, u) = a[c][u]
  <2>1. c = 0 \/ c < n
        BY SeqLenAssumption
  <2>2. a = Alpha(m, n)
        OBVIOUS
  <2> HIDE DEF a, c
  <2>3. QED
        BY <1>1, <2>1, <2>2, SumsAreForward
<1>8. a[SeqLen - 1] = a[c]
  <2>1. a = Alpha(m, n)
        OBVIOUS
  <2> HIDE DEF a
  <2>2. QED
        BY <2>1, ForwardThroughPadding
<1> HIDE DEF a
<1>9. flow = ends
      BY <1>7, <1>8
<1>10. Partition(m, n) = Total(ends) /\ DOMAIN ends = BioTags
       BY DEF Partition, a
<1> HIDE DEF flow, ends
<1>11. Total(ends) = SumOn(ends, BioTags)
       BY <1>10, TotalIsSum
<1>12. QED
       BY <1>3, <1>4, <1>5, <1>6, <1>9, <1>10, <1>11

(* Spans without a gap: each position lies in one of them.                 *)
LEMMA TilesCover ==
  ASSUME NEW w, NEW e \in Nat, Tiles(w, e), e > 0
  PROVE  /\ Len(w) \in Nat /\ DOMAIN w = 1..Len(w)
         /\ \A k \in 1..Len(w) : w[k].start \in Nat /\ w[k].end \in Nat /\ w[k].end <= e
         /\ \A i \in 0..e - 1 : \E k \in 1..Len(w) :
              /\ w[k].start <= i /\ i < w[k].end
              /\ \A l \in 1..Len(w) : w[l].start <= i /\ i < w[l].end => l = k
<1> DEFINE n == Len(w)
<1>1. n \in Nat /\ DOMAIN w = 1..n
      BY LenProperties DEF Tiles
<1>2. \A k \in 1..n : w[k].start \in Nat /\ w[k].end \in Nat /\ w[k].start < w[k].end
  <2>1. \A k \in 1..n : w[k] \in SpanSet
        BY <1>1, ElementOfSeq DEF Tiles
  <2>2. \A x \in SpanSet : x.start \in Nat /\ x.end \in Nat
        BY DEF SpanSet
  <2> HIDE DEF n
  <2>3. \A k \in 1..n : w[k].start < w[k].end
        BY DEF Tiles, n
  <2>4. QED
        BY <2>1, <2>2, <2>3
<1>3. w # <<>>
      BY DEF Tiles, EndOf
<1>4. n \in 1..n /\ w[n].end = e /\ w[1].start = 0
  <2>1. n # 0
        BY <1>3, EmptySeq DEF Tiles
  <2>2. Last(w) = w[n] /\ EndOf(w) = Last(w).end
        BY <1>3 DEF Last, EndOf
  <2>3. EndOf(w) = e /\ w[1].start = 0
        BY <1>3 DEF Tiles
  <2> HIDE DEF n
  <2>4. QED
        BY <1>1, <2>1, <2>2, <2>3
<1>5. \A k \in 1..n - 1 : w[k].end = w[k + 1].start
      BY DEF Tiles
<1> HIDE DEF n
<1>6. ASSUME NEW j \in 1..n PROVE \A k \in 1..n : j < k => w[j].end <= w[k].start
  <2> DEFINE Wrong == {k \in 1..n : j < k /\ ~(w[j].end <= w[k].start)}
  <2>1. ASSUME NEW k \in Wrong, \A l \in Wrong : k <= l PROVE FALSE
    <3>1. k - 1 \in 1..n - 1 /\ k - 1 \in 1..n /\ (k - 1) + 1 = k /\ j <= k - 1 /\ ~(k <= k - 1) /\ k \in 1..n
          BY <1>1
    <3>2. w[k - 1].end = w[k].start /\ w[k - 1].start < w[k - 1].end
          BY <1>2, <1>5, <3>1
    <3>3. CASE j = k - 1
          BY <1>2, <2>1, <3>1, <3>2, <3>3
    <3>4. CASE j < k - 1
      <4>1. w[j].end <= w[k - 1].start
            BY <2>1, <3>1, <3>4
      <4>2. QED
            BY <1>2, <2>1, <3>1, <3>2, <4>1
    <3>5. QED
          BY <1>1, <3>1, <3>3, <3>4
  <2>2. Wrong \subseteq Nat
        BY <1>1
  <2> HIDE DEF Wrong
  <2>3. Wrong = {}
        BY <2>1, <2>2, LeastElement
  <2>4. QED
        BY <2>3 DEF Wrong
<1>7. ASSUME NEW k \in 1..n PROVE w[k].end <= e
  <2>1. CASE k = n
        BY <1>2, <1>4, <2>1
  <2>2. CASE k # n
    <3>1. w[k].end <= w[n].start /\ w[n].start < w[n].end
          BY <1>1, <1>2, <1>4, <1>6, <2>2
    <3>2. QED
          BY <1>2, <1>4, <3>1
  <2>3. QED
        BY <2>1, <2>2
<1>8. ASSUME NEW i \in 0..e - 1
      PROVE  \E k \in 1..n :
               /\ w[k].start <= i /\ i < w[k].end
               /\ \A l \in 1..n : w[l].start <= i /\ i < w[l].end => l = k
  <2> DEFINE Past == {k \in 1..n : i < w[k].end}
  <2>1. n \in Past /\ Past \subseteq Nat
        BY <1>1, <1>4
  <2> HIDE DEF Past
  <2>2. PICK k \in Past : \A l \in Past : k <= l
        BY <2>1, LeastElement
  <2>3. k \in 1..n /\ i < w[k].end
        BY <2>2 DEF Past
  <2>4. w[k].start <= i
    <3>1. CASE k = 1
          BY <1>4, <3>1
    <3>2. CASE k # 1
      <4>1. k - 1 \in 1..n - 1 /\ k - 1 \in 1..n /\ (k - 1) + 1 = k /\ ~(k <= k - 1)
            BY <1>1, <2>3, <3>2
      <4>2. ~(i < w[k - 1].end)
            BY <2>2, <4>1 DEF Past
      <4>3. w[k - 1].end = w[k].start
            BY <1>5, <4>1
      <4>4. QED
            BY <1>2, <2>3, <4>1, <4>2, <4>3
    <3>3. QED
          BY <3>1, <3>2
  <2>5. ASSUME NEW l \in 1..n, w[l].start <= i, i < w[l].end PROVE l = k
    <3>1. k < l => FALSE
      <4>1. ASSUME k < l PROVE w[k].end <= w[l].start
            BY <1>6, <2>3, <4>1
      <4>2. QED
            BY <1>2, <2>3, <2>5, <4>1
    <3>2. l < k => FALSE
      <4>1. ASSUME l < k PROVE w[l].end <= w[k].start
            BY <1>6, <2>3, <4>1
      <4>2. QED
            BY <1>2, <2>3, <2>4, <2>5, <4>1
    <3>3. QED
          BY <1>1, <2>3, <3>1, <3>2
  <2>6. QED
        BY <2>3, <2>4, <2>5
<1>9. QED
      BY <1>1, <1>2, <1>7, <1>8 DEF n

-----------------------------------------------------------------------------
(***************************************************************************)
(* The steps.                                                              *)
(***************************************************************************)

(* The predictions that RunnerCRF.tag makes of the spans.                  *)
PredictionsOfSpans ==
  [tag \in {spans[k].tag : k \in DOMAIN spans} \cup TagsToKeep |->
     {[start |-> s.start, end |-> s.end,
       total |-> Total([i \in s.start..s.end - 1 |-> WeightOfTag(tag)[i]])] :
        s \in {spans[k] : k \in {k \in DOMAIN spans : spans[k].tag = tag}}}]

(* What has been computed from the sentence so far.                        *)
ComputedFrom ==
  /\ pc \in {"idle", "encoded", "decoded", "weighed", "done", "tagged"}
  /\ pc # "idle" => sentence \in Sentences
  /\ pc \in {"idle", "encoded"} => tags = <<>>
  /\ pc \in {"decoded", "weighed", "done", "tagged"} =>
       tags = ViterbiDecode(sentence.model, sentence.length)
  /\ pc \in {"idle", "encoded", "decoded", "weighed"} => spans = <<>>
  /\ pc \in {"done", "tagged"} => spans = CreateDetails(sentence.length, tags, sentence.strict)
  /\ pc \in {"weighed", "done", "tagged"} => marginals = Marginals(sentence.model, SeqLen)
  /\ pc = "tagged" => ~sentence.strict /\ predictions = PredictionsOfSpans

(* Nothing of a sentence is changed once it is computed (TransformerCRF.   *)
(* predict_tags), so that the tags and spans stay those of the sentence.   *)
THEOREM ComputedFromInvariant == Spec => []ComputedFrom
<1>1. Init => ComputedFrom
      BY DEF Init, ComputedFrom
<1>2. ComputedFrom /\ [Next]_vars => ComputedFrom'
  <2> SUFFICES ASSUME ComputedFrom, [Next]_vars PROVE ComputedFrom'
      OBVIOUS
  <2>1. CASE Encode
        BY <2>1 DEF ComputedFrom, Encode, runnerVars
  <2>2. CASE Decode
        BY <2>2 DEF ComputedFrom, Decode, runnerVars
  <2>3. CASE ComputeMarginals
        BY <2>3 DEF ComputedFrom, ComputeMarginals, runnerVars
  <2>4. CASE GroupTags
        BY <2>4 DEF ComputedFrom, GroupTags, runnerVars
  <2>5. CASE GroupPredictions
    <3>1. /\ pc = "done" /\ pc' = "tagged" /\ ~sentence.strict
          /\ UNCHANGED <<sentence, tags, marginals, spans>>
          BY <2>5 DEF GroupPredictions
    <3>2. PredictionsOfSpans' = PredictionsOfSpans
          BY <3>1 DEF PredictionsOfSpans, WeightOfTag
    <3>3. predictions' = PredictionsOfSpans
          BY <2>5 DEF GroupPredictions, PredictionsOfSpans
    <3>4. QED
          BY <3>1, <3>2, <3>3 DEF ComputedFrom
  <2>6. CASE NextSentence
        BY <2>6 DEF ComputedFrom, NextSentence
  <2>7. CASE UNCHANGED vars
    <3>1. UNCHANGED <<pc, sentence, tags, marginals, spans, predictions>>
          BY <2>7 DEF vars
    <3>2. PredictionsOfSpans' = PredictionsOfSpans
          BY <3>1 DEF PredictionsOfSpans, WeightOfTag
    <3>3. QED
          BY <3>1, <3>2 DEF ComputedFrom
  <2>8. QED
        BY <2>1, <2>2, <2>3, <2>4, <2>5, <2>6, <2>7 DEF Next
<1>3. QED
      BY <1>1, <1>2, PTL DEF Spec

(* The tags of a text with characters: one for each.                       *)
LEMMA DecodedTags ==
  ASSUME EveryTextHasCharacters, NEW s \in Sentences
  PROVE  LET d == ViterbiDecode(s.model, s.length)
         IN /\ s.length \in 1..SeqLen /\ IsModel(s.model)
            /\ IsSeq(d) /\ Len(d) = s.length /\ DOMAIN d = 1..s.length
            /\ \A i \in 1..s.length : d[i] \in BioTags
<1> DEFINE n == s.length
           m == s.model
           d == ViterbiDecode(m, n)
<1>1. n \in 1..SeqLen /\ n \in Nat /\ n \in 0..SeqLen /\ IsModel(m)
  <2>1. n \in 0..SeqLen /\ IsModel(m)
        BY SentencesAssumption
  <2>2. n > 0
        BY DEF EveryTextHasCharacters
  <2> HIDE DEF n
  <2>3. QED
        BY <2>1, <2>2, SeqLenAssumption
<1> HIDE DEF n, m
<1>2. d \in [1..n -> BioTags]
  <2>1. d \in [1..StepsBack(n) + 1 -> BioTags]
        BY <1>1, TagsDecoded
  <2>2. StepsBack(n) + 1 = n
        BY <1>1, SeqLenAssumption DEF StepsBack
  <2>3. QED
        BY <2>1, <2>2
<1> HIDE DEF d
<1>3. d \in Seq(BioTags) /\ Len(d) = n
      BY <1>1, <1>2
<1>4. \A i \in 1..n : d[i] \in Entries(d)
      BY <1>3 DEF Entries
<1>5. d \in [1..n -> Entries(d)]
      BY <1>2, <1>4
<1>6. d \in Seq(Entries(d))
      BY <1>1, <1>5
<1>7. QED
      BY <1>1, <1>2, <1>3, <1>6 DEF IsSeq, n, m, d

(* What ComputedFrom says of the tags and the spans of a text with         *)
(* characters.                                                             *)
LEMMA ComputedShapes ==
  ASSUME EveryTextHasCharacters, ComputedFrom
  PROVE  /\ pc \in {"decoded", "weighed", "done", "tagged"} =>
              /\ IsSeq(tags) /\ Len(tags) = sentence.length /\ sentence.length \in 1..SeqLen
              /\ DOMAIN tags = 1..sentence.length
              /\ \A i \in 1..Len(tags) : tags[i] \in BioTags
         /\ pc \in {"done", "tagged"} =>
              /\ spans = CreateDetails(Len(tags), tags, sentence.strict)
              /\ Tiles(spans, Len(tags)) /\ (~sentence.strict => Follows(spans, tags))
<1>1. ASSUME pc \in {"decoded", "weighed", "done", "tagged"}
      PROVE  /\ IsSeq(tags) /\ Len(tags) = sentence.length /\ sentence.length \in 1..SeqLen
             /\ DOMAIN tags = 1..sentence.length
             /\ \A i \in 1..Len(tags) : tags[i] \in BioTags
  <2>1. sentence \in Sentences /\ tags = ViterbiDecode(sentence.model, sentence.length)
        BY <1>1 DEF ComputedFrom
  <2>2. QED
        BY <2>1, DecodedTags
<1>2. ASSUME pc \in {"done", "tagged"}
      PROVE  /\ spans = CreateDetails(Len(tags), tags, sentence.strict)
             /\ Tiles(spans, Len(tags)) /\ (~sentence.strict => Follows(spans, tags))
  <2>1. spans = CreateDetails(sentence.length, tags, sentence.strict)
        BY <1>2 DEF ComputedFrom
  <2>2. /\ IsSeq(tags) /\ Len(tags) = sentence.length /\ Len(tags) > 0
        /\ \A i \in 1..Len(tags) : tags[i] \in BioTags
        BY <1>1, <1>2
  <2>3. QED
        BY <2>1, <2>2, DetailsTile
<1>3. QED
      BY <1>1, <1>2

(* Types; there is a tag for every character and none for the padding.     *)
THEOREM CrfTypeOK == ASSUME EveryTextHasCharacters PROVE Spec => []TypeOK
<1>1. ComputedFrom => TypeOK
  <2> SUFFICES ASSUME ComputedFrom PROVE TypeOK
      OBVIOUS
  <2>1. ASSUME NEW i \in DOMAIN tags PROVE tags[i] \in BioTags
    <3>1. CASE pc \in {"idle", "encoded"}
      <4>1. tags = <<>> /\ DOMAIN tags = 1..0
            BY <3>1, EmptySeq DEF ComputedFrom
      <4>2. QED
            BY <2>1, <4>1
    <3>2. CASE pc \in {"decoded", "weighed", "done", "tagged"}
          BY <2>1, <3>2, ComputedShapes
    <3>3. QED
          BY <3>1, <3>2 DEF ComputedFrom
  <2>2. ASSUME NEW i \in DOMAIN spans PROVE spans[i].tag \in {t.tag : t \in BioTags} \cup {"OTHER"}
    <3>1. CASE pc \in {"idle", "encoded", "decoded", "weighed"}
      <4>1. spans = <<>> /\ DOMAIN spans = 1..0
            BY <3>1, EmptySeq DEF ComputedFrom
      <4>2. QED
            BY <2>2, <4>1
    <3>2. CASE pc \in {"done", "tagged"}
      <4>1. spans \in Seq(SpanSet)
            BY <3>2, ComputedShapes DEF Tiles
      <4>2. spans[i] \in SpanSet
            BY <2>2, <4>1, LenProperties, ElementOfSeq
      <4>3. QED
            BY <4>2 DEF SpanSet, SpanTags
    <3>3. QED
          BY <3>1, <3>2 DEF ComputedFrom
  <2>3. pc \in {"decoded", "weighed", "done", "tagged"} => Len(tags) = sentence.length
        BY ComputedShapes
  <2>4. QED
        BY <2>1, <2>2, <2>3 DEF TypeOK, ComputedFrom
<1>2. QED
      BY <1>1, ComputedFromInvariant, PTL

(* No path through the characters of the sentence has a higher score than  *)
(* the decoded one (viterbi_decode), whatever the padding holds.           *)
THEOREM DecodesBestPath == ASSUME EveryTextHasCharacters PROVE Spec => []BestPathIsDecoded
<1>1. ComputedFrom => BestPathIsDecoded
  <2> SUFFICES ASSUME ComputedFrom, pc = "decoded"
      PROVE \A path \in Paths(sentence.length) :
              Potential(sentence.model, path, sentence.length)
                <= Potential(sentence.model, [i \in 0..sentence.length - 1 |-> tags[i + 1]], sentence.length)
      BY DEF BestPathIsDecoded
  <2>1. sentence \in Sentences /\ tags = ViterbiDecode(sentence.model, sentence.length)
        BY DEF ComputedFrom
  <2>2. sentence.length \in 1..SeqLen /\ IsModel(sentence.model)
        BY <2>1, DecodedTags
  <2>3. QED
        BY <2>1, <2>2, DecodedIsBest
<1>2. QED
      BY <1>1, ComputedFromInvariant, PTL

(* The spans follow each other without a gap from the first character of   *)
(* the sentence to its last (create_details_from_biotags), in both modes.  *)
THEOREM DetailsTileTheText == ASSUME EveryTextHasCharacters PROVE Spec => []SpansTileTheText
<1>1. ComputedFrom => SpansTileTheText
  <2> SUFFICES ASSUME ComputedFrom, pc = "done"
      PROVE /\ spans # <<>> /\ spans[1].start = 0 /\ Last(spans).end = sentence.length
            /\ \A k \in DOMAIN spans : spans[k].start < spans[k].end
            /\ \A k \in 1..Len(spans) - 1 : spans[k].end = spans[k + 1].start
      BY DEF SpansTileTheText
  <2>1. Tiles(spans, sentence.length) /\ sentence.length \in 1..SeqLen
        BY ComputedShapes
  <2>2. spans \in Seq(SpanSet) /\ DOMAIN spans = 1..Len(spans)
        BY <2>1, LenProperties DEF Tiles
  <2>3. spans # <<>>
        BY <2>1 DEF Tiles, EndOf
  <2>4. Last(spans).end = sentence.length
        BY <2>1, <2>3 DEF Tiles, EndOf
  <2>5. QED
        BY <2>1, <2>2, <2>3, <2>4 DEF Tiles
<1>2. QED
      BY <1>1, ComputedFromInvariant, PTL

(* Without the strict mode each character lies in a span of its tag, and a *)
(* span ends only where the tag changes (_get_span).                       *)
THEOREM DetailsFollowTheTags == ASSUME EveryTextHasCharacters PROVE Spec => []SpansFollowTheTags
<1>1. ComputedFrom => SpansFollowTheTags
  <2> SUFFICES ASSUME ComputedFrom, pc = "done", ~sentence.strict
      PROVE /\ \A k \in DOMAIN spans : \A p \in spans[k].start..spans[k].end - 1 :
                 tags[p + 1].tag = spans[k].tag
            /\ \A k \in 1..Len(spans) - 1 : spans[k].tag # spans[k + 1].tag
      BY DEF SpansFollowTheTags
  <2>1. Tiles(spans, Len(tags)) /\ Follows(spans, tags)
        BY ComputedShapes
  <2>2. DOMAIN spans = 1..Len(spans)
        BY <2>1, LenProperties DEF Tiles
  <2>3. QED
        BY <2>1, <2>2 DEF Follows
<1>2. QED
      BY <1>1, ComputedFromInvariant, PTL

(* In the strict mode the spans of a tag are the longest pieces of the     *)
(* text that begin with B-*, go on with I-*, and hold both                 *)
(* (_get_strict_span).                                                     *)
THEOREM StrictDetailsAreEntities ==
  ASSUME EveryTextHasCharacters PROVE Spec => []StrictSpansAreEntities
<1>1. ComputedFrom => StrictSpansAreEntities
  <2> SUFFICES ASSUME ComputedFrom, pc = "done" /\ sentence.strict
      PROVE  {spans[k] : k \in {k \in DOMAIN spans : spans[k].tag # "OTHER"}}
               = {s \in {Span(a, b, tag) : a, b \in 0..Len(tags),
                                           tag \in {t.tag : t \in BioTags} \ {"OTHER"}} :
                    LongestAt(tags, s.start, s.end, s.tag)}
      BY DEF StrictSpansAreEntities
  <2> DEFINE found == {spans[k] : k \in {k \in DOMAIN spans : spans[k].tag # "OTHER"}}
             names == {t.tag : t \in BioTags} \ {"OTHER"}
             longest == {s \in {Span(a, b, tag) : a, b \in 0..Len(tags), tag \in names} :
                           LongestAt(tags, s.start, s.end, s.tag)}
  <2>1. /\ IsSeq(tags) /\ Len(tags) > 0 /\ \A i \in 1..Len(tags) : tags[i] \in BioTags
        /\ spans = CreateDetails(Len(tags), tags, sentence.strict)
        /\ Tiles(spans, Len(tags))
    <3>1. /\ IsSeq(tags) /\ Len(tags) \in 1..SeqLen /\ \A i \in 1..Len(tags) : tags[i] \in BioTags
          /\ spans = CreateDetails(Len(tags), tags, sentence.strict)
          /\ Tiles(spans, Len(tags))
          BY ComputedShapes
    <3>2. QED
          BY <3>1, SeqLenAssumption
  <2>2. sentence.strict = TRUE
    <3>1. sentence \in Sentences
          BY DEF ComputedFrom
    <3>2. sentence.strict \in BOOLEAN
          BY <3>1, SentencesAssumption
    <3>3. QED
          BY <3>2
  <2>3. DOMAIN spans = 1..Len(spans)
        BY <2>1, LenProperties DEF Tiles
  <2>4. found = Named(CreateDetails(Len(tags), tags, TRUE))
    <3>1. found = Named(spans)
          BY <2>3 DEF Named
    <3>2. QED
          BY <2>1, <2>2, <3>1
  <2>5. ASSUME NEW sp PROVE sp \in found <=> sp \in longest
    <3>1. sp \in found
            <=> \E a, b \in 0..Len(tags) : \E tag \in names : sp = Span(a, b, tag) /\ LongestAt(tags, a, b, tag)
          BY <2>1, <2>4, StrictDetails
    <3>2. \A a, b, tag : /\ Span(a, b, tag).start = a /\ Span(a, b, tag).end = b
                         /\ Span(a, b, tag).tag = tag
          BY DEF Span
    <3> HIDE DEF found, names
    <3>3. sp \in longest
            <=> \E a, b \in 0..Len(tags) : \E tag \in names : sp = Span(a, b, tag) /\ LongestAt(tags, a, b, tag)
          BY <3>2
    <3>4. QED
          BY <3>1, <3>3
  <2>6. found = longest
    <3> HIDE DEF found, longest
    <3>1. QED
          BY <2>5
  <2>7. QED
        BY <2>6
<1>2. QED
      BY <1>1, ComputedFromInvariant, PTL

(* The marginals of a position are the weights of all the paths through    *)
(* its tags, and add up to the partition function (marginal_probabilities  *)
(* against the sum over paths).                                            *)
THEOREM MarginalsCountPaths == Spec => []MarginalsAreExact
<1>1. ComputedFrom => MarginalsAreExact
  <2> SUFFICES ASSUME ComputedFrom, pc = "weighed" PROVE MarginalsAreExact
      BY DEF MarginalsAreExact
  <2> DEFINE m == sentence.model
             weight == [path \in Paths(SeqLen) |-> Potential(m, path, SeqLen)]
             c == SeqLen - 1
  <2>1. IsModel(m) /\ marginals = Marginals(m, SeqLen)
        BY SentencesAssumption DEF ComputedFrom
  <2>2. c \in Positions /\ c + 1 = SeqLen /\ SeqLen \in 1..SeqLen /\ Paths(SeqLen) = PathsTo(c)
        BY SeqLenAssumption DEF Positions, Paths, PathsTo
  <2>3. weight = [path \in Paths(SeqLen) |-> Potential(m, path, SeqLen)]
        OBVIOUS
  <2> SUFFICES ASSUME NEW i \in Positions
               PROVE  /\ \A t \in BioTags :
                           marginals[i][t] = TotalOf({p \in Paths(SeqLen) : p[i] = t}, weight)
                      /\ Total(marginals[i]) = Partition(m, SeqLen)
      BY DEF MarginalsAreExact, TotalOver, TotalOf
  <2> HIDE DEF m, weight, c
  <2>4. \A p \in Paths(SeqLen) : weight[p] \in Nat
        BY <2>1, <2>2, <2>3, WeightOfPaths
  <2>5. /\ marginals[i] \in [BioTags -> Nat]
        /\ \A Y \in SUBSET BioTags : \A x :
             (\A t \in Y : x[t] = marginals[i][t]) => SumOn(weight, Through(c, i, Y)) = SumOn(x, Y)
        /\ Total(marginals[i]) = Partition(m, SeqLen)
    <3>1. ASSUME NEW row, row = Marginals(m, SeqLen)[i]
          PROVE  /\ row \in [BioTags -> Nat]
                 /\ \A Y \in SUBSET BioTags : \A x :
                      (\A t \in Y : x[t] = row[t]) => SumOn(weight, Through(c, i, Y)) = SumOn(x, Y)
                 /\ Total(row) = Partition(m, SeqLen)
          BY <2>1, <2>3, <3>1, MarginalsOfModel DEF c
    <3>2. QED
          BY <2>1, <3>1
  <2>6. ASSUME NEW t \in BioTags
        PROVE  marginals[i][t] = TotalOf({p \in Paths(SeqLen) : p[i] = t}, weight)
    <3>1. {p \in Paths(SeqLen) : p[i] = t} = Through(c, i, {t})
      <4>1. i <= c
            BY SeqLenAssumption DEF Positions, c
      <4>2. QED
            BY <2>2, <4>1 DEF Through
    <3>2. Through(c, i, {t}) \subseteq PathsTo(c)
          BY DEF Through
    <3>3. \A p \in Through(c, i, {t}) : weight[p] \in Nat
          BY <2>2, <2>4, <3>2
    <3>4. TotalOf(Through(c, i, {t}), weight) = SumOn(weight, Through(c, i, {t}))
          BY <2>2, <3>2, <3>3, TotalOfPaths
    <3>5. SumOn(weight, Through(c, i, {t})) = SumOn(marginals[i], {t})
          BY <2>5
    <3>6. SumOn(marginals[i], {t}) = marginals[i][t]
          BY <2>5, SumOfOne
    <3>7. QED
          BY <3>1, <3>4, <3>5, <3>6
  <2>7. QED
        BY <2>5, <2>6
<1>2. QED
      BY <1>1, ComputedFromInvariant, PTL

(* The normaliser of the likelihood is the sum of the scores of all tag    *)
(* sequences of the characters, whatever part of the batch is padding, for *)
(* transitions of the first order (_numerator_score and                    *)
(* _denominator_score).                                                    *)
THEOREM NormaliserCountsPaths ==
  ASSUME EveryTextHasCharacters PROVE Spec => []NormaliserCountsEveryPath
<1>1. ComputedFrom => NormaliserCountsEveryPath
  <2> SUFFICES ASSUME ComputedFrom, pc = "encoded" PROVE NormaliserCountsEveryPath
      BY DEF NormaliserCountsEveryPath
  <2> DEFINE ones == [t \in BioTags |-> [u \in BioTags |-> 1]]
             m == [sentence.model EXCEPT !.transitions2 = ones]
             n == sentence.length
             w == [p \in Paths(n) |-> Potential(m, p, n)]
  <2>1. IsModel(sentence.model) /\ n \in 1..SeqLen
    <3>1. sentence \in Sentences
          BY DEF ComputedFrom
    <3>2. QED
          BY <3>1, DecodedTags
  <2>2. IsModel(m) /\ m.transitions2 = ones
    <3>1. ones \in [BioTags -> [BioTags -> Nat]]
          OBVIOUS
    <3> HIDE DEF ones
    <3>2. QED
          BY <2>1, <3>1 DEF IsModel
  <2>3. w = [p \in Paths(n) |-> Potential(m, p, n)]
        OBVIOUS
  <2> SUFFICES Total([t \in BioTags |->
                        Total([path \in {p \in Paths(n) : p[0] = t} |->
                                 Numerator(m, n, [i \in Positions |-> path[IF i < n THEN i ELSE n - 1]])])])
                 = Partition(m, n)
      BY DEF NormaliserCountsEveryPath, TotalOver
  <2> HIDE DEF m, n, w
  <2>4. ASSUME NEW path \in Paths(n)
        PROVE  Numerator(m, n, [i \in Positions |-> path[IF i < n THEN i ELSE n - 1]]) = w[path]
    <3> DEFINE q == PaddedPath(path, n)
    <3>1. q = [i \in Positions |-> path[IF i < n THEN i ELSE n - 1]]
          BY DEF PaddedPath
    <3> HIDE DEF q
    <3>2. Numerator(m, n, q) = Potential(m, path, n)
          BY <2>1, <2>2, NumeratorIsPotential DEF q, ones
    <3>3. w[path] = Potential(m, path, n)
          BY <2>3
    <3>4. QED
          BY <3>1, <3>2, <3>3
  <2> DEFINE score(path) == Numerator(m, n, [i \in Positions |-> path[IF i < n THEN i ELSE n - 1]])
  <2>5. \A path \in Paths(n) : score(path) = w[path]
        BY <2>4
  <2> HIDE DEF score
  <2>6. ASSUME NEW t \in BioTags
        PROVE  [path \in {p \in Paths(n) : p[0] = t} |-> score(path)]
                 = [path \in {p \in Paths(n) : p[0] = t} |-> w[path]]
        BY <2>5
  <2>7. Total([t \in BioTags |-> Total([path \in {p \in Paths(n) : p[0] = t} |-> score(path)])])
          = TotalOf(Paths(n), w)
        BY <2>6 DEF TotalOf
  <2>8. Partition(m, n) = TotalOf(Paths(n), w)
        BY <2>1, <2>2, <2>3, PartitionOfModel
  <2>9. QED
        BY <2>7, <2>8 DEF score
<1>2. QED
      BY <1>1, ComputedFromInvariant, PTL

(* The weight of a tag at a position, whether as B-* or as I-*: that of    *)
(* all paths through it.                                                   *)
LEMMA WeightOfTagIs ==
  ASSUME NEW m, IsModel(m), marginals = Marginals(m, SeqLen),
         NEW w, w = [p \in Paths(SeqLen) |-> Potential(m, p, SeqLen)],
         NEW i \in Positions, NEW tag
  PROVE  WeightOfTag(tag)[i] = TotalOf({p \in Paths(SeqLen) : p[i].tag = tag}, w)
<1> DEFINE c == SeqLen - 1
           Y == Rows(tag)
           row == marginals[i]
           x == [t \in Y |-> row[t]]
<1>1. /\ c \in Positions /\ SeqLen \in 1..SeqLen /\ Paths(SeqLen) = PathsTo(c)
      /\ i <= c /\ i \in 0..c
      BY SeqLenAssumption DEF Positions, Paths, PathsTo
<1>2. WeightOfTag(tag)[i] = Total(x)
      BY DEF WeightOfTag
<1>3. Y \in SUBSET BioTags /\ (\A t \in Y : x[t] = row[t]) /\ DOMAIN x = Y
      BY DEF Rows
<1>4. {p \in Paths(SeqLen) : p[i].tag = tag} = Through(c, i, Y)
  <2>1. \A p \in PathsTo(c) : p[i] \in BioTags
        BY <1>1 DEF PathsTo
  <2> HIDE DEF c
  <2>2. QED
        BY <1>1, <2>1 DEF Through, Rows
<1> HIDE DEF x, Y
<1>5. SumOn(w, Through(c, i, Y)) = SumOn(x, Y)
  <2>1. row = Marginals(m, SeqLen)[i]
        OBVIOUS
  <2> HIDE DEF row, c
  <2>2. \A Z \in SUBSET BioTags : \A z :
          (\A t \in Z : z[t] = row[t]) => SumOn(w, Through(SeqLen - 1, i, Z)) = SumOn(z, Z)
        BY <2>1, MarginalsOfModel
  <2>3. QED
        BY <1>3, <2>2 DEF c
<1>6. TotalOf(Through(c, i, Y), w) = SumOn(w, Through(c, i, Y))
  <2>1. \A p \in Paths(SeqLen) : w[p] \in Nat
        BY <1>1, WeightOfPaths
  <2>2. Through(c, i, Y) \subseteq PathsTo(c)
        BY DEF Through
  <2> HIDE DEF c
  <2>3. QED
        BY <1>1, <2>1, <2>2, TotalOfPaths
<1>7. Total(x) = SumOn(x, Y)
      BY <1>3, TotalIsSum
<1>8. QED
      BY <1>2, <1>4, <1>5, <1>6, <1>7

(* The confidence of a prediction adds up, over its characters, what the   *)
(* paths through its tag weigh, and each character is in one prediction of *)
(* one tag, that of its decoded tag (RunnerCRF.tag).                       *)
THEOREM ConfidenceCountsPaths ==
  ASSUME EveryTextHasCharacters PROVE Spec => []ConfidenceIsTheProbabilityOfItsTag
<1>1. ComputedFrom => ConfidenceIsTheProbabilityOfItsTag
  <2> SUFFICES ASSUME ComputedFrom, pc = "tagged" PROVE ConfidenceIsTheProbabilityOfItsTag
      BY DEF ConfidenceIsTheProbabilityOfItsTag
  <2> DEFINE m == sentence.model
             weight == [path \in Paths(SeqLen) |-> Potential(m, path, SeqLen)]
             n == sentence.length
             Total1(tag, s) == Total([i \in s.start..s.end - 1 |-> WeightOfTag(tag)[i]])
             Made(tag, s) == [start |-> s.start, end |-> s.end, total |-> Total1(tag, s)]
             Of(tag) == {spans[k] : k \in {k \in DOMAIN spans : spans[k].tag = tag}}
  <2>1. IsModel(m) /\ marginals = Marginals(m, SeqLen) /\ predictions = PredictionsOfSpans
        BY SentencesAssumption DEF ComputedFrom
  <2>2. weight = [path \in Paths(SeqLen) |-> Potential(m, path, SeqLen)]
        OBVIOUS
  <2>3. n \in 1..SeqLen /\ Tiles(spans, n) /\ Follows(spans, tags)
    <3>1. ~sentence.strict
          BY DEF ComputedFrom
    <3>2. QED
          BY <3>1, ComputedShapes
  <2> SUFFICES /\ \A tag \in DOMAIN predictions : \A s \in predictions[tag] :
                    s.total = Total([i \in s.start..s.end - 1 |->
                                       TotalOf({p \in Paths(SeqLen) : p[i].tag = tag}, weight)])
               /\ \A i \in 0..n - 1 : \A tag \in DOMAIN predictions :
                    Cardinality({s \in predictions[tag] : s.start <= i /\ i < s.end})
                      = IF tag = tags[i + 1].tag THEN 1 ELSE 0
      BY DEF ConfidenceIsTheProbabilityOfItsTag, TotalOver, TotalOf
  <2>4. ASSUME NEW tag \in DOMAIN predictions PROVE predictions[tag] = {Made(tag, s) : s \in Of(tag)}
        BY <2>1 DEF PredictionsOfSpans
  <2>5. /\ Len(spans) \in Nat /\ DOMAIN spans = 1..Len(spans)
        /\ \A k \in 1..Len(spans) :
             spans[k].start \in Nat /\ spans[k].end \in Nat /\ spans[k].end <= n
        /\ \A i \in 0..n - 1 : \E k \in 1..Len(spans) :
             /\ spans[k].start <= i /\ i < spans[k].end
             /\ \A l \in 1..Len(spans) : spans[l].start <= i /\ i < spans[l].end => l = k
    <3>1. n \in Nat /\ n > 0
          BY <2>3, SeqLenAssumption
    <3> HIDE DEF n
    <3>2. QED
          BY <2>3, <3>1, TilesCover
  <2> HIDE DEF m, weight, n
  <2>6. ASSUME NEW tag \in DOMAIN predictions, NEW s \in predictions[tag]
        PROVE  s.total = Total([i \in s.start..s.end - 1 |->
                                  TotalOf({p \in Paths(SeqLen) : p[i].tag = tag}, weight)])
    <3>1. PICK k \in DOMAIN spans : s = Made(tag, spans[k])
      <4> HIDE DEF Made
      <4>1. QED
            BY <2>4
    <3>2. s.start = spans[k].start /\ s.end = spans[k].end /\ s.total = Total1(tag, spans[k])
      <4> HIDE DEF Total1
      <4>1. QED
            BY <3>1
    <3>3. \A i \in s.start..s.end - 1 : i \in Positions
          BY <2>3, <2>5, <3>2, SeqLenAssumption DEF Positions
    <3>4. \A i \in s.start..s.end - 1 :
            WeightOfTag(tag)[i] = TotalOf({p \in Paths(SeqLen) : p[i].tag = tag}, weight)
          BY <2>1, <2>2, <3>3, WeightOfTagIs
    <3>5. [i \in s.start..s.end - 1 |-> WeightOfTag(tag)[i]]
            = [i \in s.start..s.end - 1 |-> TotalOf({p \in Paths(SeqLen) : p[i].tag = tag}, weight)]
          BY <3>4
    <3>6. s.total = Total([i \in s.start..s.end - 1 |-> WeightOfTag(tag)[i]])
          BY <3>2
    <3>7. QED
          BY <3>5, <3>6
  <2>7. ASSUME NEW i \in 0..n - 1, NEW tag \in DOMAIN predictions
        PROVE  Cardinality({s \in predictions[tag] : s.start <= i /\ i < s.end})
                 = IF tag = tags[i + 1].tag THEN 1 ELSE 0
    <3> DEFINE here == {s \in predictions[tag] : s.start <= i /\ i < s.end}
    <3>1. PICK k \in 1..Len(spans) :
            /\ spans[k].start <= i /\ i < spans[k].end
            /\ \A l \in 1..Len(spans) : spans[l].start <= i /\ i < spans[l].end => l = k
          BY <2>5
    <3>2. tags[i + 1].tag = spans[k].tag
      <4>1. i \in spans[k].start..spans[k].end - 1
            BY <2>5, <3>1
      <4>2. QED
            BY <2>3, <4>1 DEF Follows
    <3>3. ASSUME NEW s \in here PROVE s = Made(tag, spans[k]) /\ spans[k].tag = tag
      <4>1. PICK l \in DOMAIN spans : spans[l].tag = tag /\ s = Made(tag, spans[l])
        <5> HIDE DEF Made
        <5>1. QED
              BY <2>4
      <4>2. s.start = spans[l].start /\ s.end = spans[l].end
        <5> HIDE DEF Total1
        <5>1. QED
              BY <4>1
      <4>3. l = k
            BY <2>5, <3>1, <4>2
      <4>4. QED
            BY <4>1, <4>3
    <3>4. CASE tag = tags[i + 1].tag
      <4>1. Made(tag, spans[k]) \in predictions[tag]
        <5>1. spans[k] \in Of(tag)
              BY <2>5, <3>2, <3>4
        <5> HIDE DEF Made, Of
        <5>2. QED
              BY <2>4, <5>1
      <4>2. Made(tag, spans[k]).start = spans[k].start /\ Made(tag, spans[k]).end = spans[k].end
        <5> HIDE DEF Total1
        <5>1. QED
              OBVIOUS
      <4> HIDE DEF Made
      <4>3. here = {Made(tag, spans[k])}
            BY <3>1, <3>3, <4>1, <4>2
      <4> HIDE DEF here
      <4>4. Cardinality(here) = 1
            BY <4>3, FS_Singleton
      <4>5. QED
            BY <3>4, <4>4 DEF here
    <3>5. CASE tag # tags[i + 1].tag
      <4> HIDE DEF Made
      <4>1. here = {}
            BY <3>2, <3>3, <3>5
      <4> HIDE DEF here
      <4>2. Cardinality(here) = 0
            BY <4>1, FS_EmptySet
      <4>3. QED
            BY <3>5, <4>2 DEF here
    <3>6. QED
          BY <3>4, <3>5
  <2>8. QED
        BY <2>6, <2>7
<1>2. QED
      BY <1>1, ComputedFromInvariant, PTL
=============================================================================
