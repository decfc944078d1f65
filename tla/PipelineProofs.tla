---------------------------- MODULE PipelineProofs ----------------------------
(***************************************************************************)
(* Theorems about AddressStructuringPipeline.run, for requests of any      *)
(* number of samples of any length, and for every size of a batch.         *)
(***************************************************************************)
EXTENDS Structuring, SequenceFacts

-----------------------------------------------------------------------------
(***************************************************************************)
(* The stages that work on a whole batch.                                  *)
(***************************************************************************)
TextsOf(s) == \A k \in 1..Len(s) : s[k].text \in Seq(Range(s[k].text))

(* predict_tags would leave out a sentence without tags, and by its        *)
(* position zip would join every later result with another sample; but     *)
(* each sentence has tags, an empty one included.                          *)
LEMMA EachSentenceHasTags ==
  ASSUME NEW s, IsSeq(s), TextsOf(s), NEW k \in 1..Len(s)
  PROVE  TagsOf(s[k]) > 0
<1>1. CASE s[k].text = <<>>
      BY <1>1, SizesAssumption DEF TagsOf
<1>2. CASE s[k].text # <<>>
  <2>1. Len(s[k].text) \in Nat \ {0}
        BY <1>2, EmptySeq, SMTT(40) DEF TextsOf
  <2>2. QED
        BY <1>2, <2>1 DEF TagsOf
<1>3. QED
      BY <1>1, <1>2

LEMMA NoSentenceIsLeftOut ==
  ASSUME NEW s, IsSeq(s), TextsOf(s)
  PROVE  WithTags(s) = s
<1> DEFINE n == Len(s)
           Step(f, k) == IF k = 0 THEN <<>>
                         ELSE IF TagsOf(s[k]) > 0 THEN Append(f[k - 1], s[k]) ELSE f[k - 1]
           Loop(f) == f = [k \in 0..n |-> Step(f, k)]
           prefix == [k \in 0..n |-> SubSeq(s, 1, k)]
<1>1. n \in Nat /\ s \in Seq(Entries(s)) /\ \A k \in 1..n : s[k] \in Entries(s)
      BY AnySeq DEF IsSeq, Entries
<1>2. /\ prefix[0] = <<>>
      /\ \A k \in 1..n : prefix[k] = Append(prefix[k - 1], s[k])
  <2>1. ASSUME NEW k \in 1..n PROVE SubSeq(s, 1, k) = Append(SubSeq(s, 1, k - 1), s[k])
    <3>1. k \in Nat \ {0} /\ k - 1 \in Nat /\ 1 <= k
          BY <1>1
    <3>2. QED
          BY <1>1, <3>1, SubSeqRecursiveSecond
  <2>2. SubSeq(s, 1, 0) = <<>>
        BY SubSeqEmpty
  <2>3. QED
        BY <1>1, <2>1, <2>2
<1>3. \A k \in 1..n : TagsOf(s[k]) > 0
      BY EachSentenceHasTags
<1>4. Loop(prefix)
  <2>1. prefix = [k \in 0..n |-> prefix[k]]
        OBVIOUS
  <2> HIDE DEF prefix, n
  <2>2. ASSUME NEW k \in 0..n PROVE Step(prefix, k) = prefix[k]
    <3>1. CASE k = 0
          BY <1>2, <3>1
    <3>2. CASE k \in 1..n
          BY <1>2, <1>3, <3>2 DEF n
    <3>3. QED
          BY <1>1, <3>1, <3>2
  <2> HIDE DEF Step
  <2>3. QED
        BY <2>1, <2>2
<1> HIDE DEF prefix, n
<1>5. ASSUME NEW f, Loop(f) PROVE f[n] = prefix[n]
  <2> DEFINE Differ == {k \in 0..n : f[k] # prefix[k]}
  <2>1. f[0] = <<>> /\ \A k \in 1..n : f[k] = Append(f[k - 1], s[k])
    <3>1. \A k \in 0..n : f[k] = Step(f, k)
      <4> HIDE DEF Step
      <4>1. QED
            BY <1>5
    <3>2. 0 \in 0..n /\ \A k \in 1..n : k \in 0..n /\ k # 0 /\ TagsOf(s[k]) > 0
          BY <1>1, <1>3 DEF n
    <3>3. QED
          BY <3>1, <3>2
  <2>2. ASSUME NEW m \in Differ, \A k \in Differ : m <= k PROVE FALSE
    <3>1. m \in 1..n /\ m - 1 \in 0..n
          BY <1>1, <1>2, <2>1, <2>2
    <3>2. f[m - 1] = prefix[m - 1]
          BY <2>2, <3>1
    <3>3. QED
          BY <1>2, <2>1, <2>2, <3>1, <3>2
  <2>3. Differ = {}
        BY <1>1, <2>2, LeastElement, Differ \subseteq Nat
  <2>4. QED
        BY <1>1, <2>3
<1>6. prefix[n] = s
      BY <1>1, SubSeqFull DEF prefix, n
<1>7. WithTags(s) = (CHOOSE f : Loop(f))[n]
      BY DEF WithTags, n
<1>8. Loop(CHOOSE f : Loop(f))
      BY <1>4
<1>9. QED
      BY <1>5, <1>6, <1>7, <1>8

-----------------------------------------------------------------------------
(***************************************************************************)
(* What a regular expression of a postcode matches.                        *)
(***************************************************************************)
Solid(t) == {k \in 1..Len(t) : t[k] # "separator"}

LEMMA SolidIsFinite ==
  ASSUME NEW t, IsSeq(t)
  PROVE  IsFiniteSet(Solid(t)) /\ Cardinality(Solid(t)) \in Nat
<1>1. Len(t) \in Nat
      BY AnySeq
<1>2. IsFiniteSet(1..Len(t))
      BY <1>1, FS_Interval
<1>3. Solid(t) \in SUBSET (1..Len(t))
      BY DEF Solid
<1>4. IsFiniteSet(Solid(t))
      BY <1>2, <1>3, FS_Subset
<1>5. QED
      BY <1>4, FS_CardinalityType

(* Separators may be missing, everything else is there.                    *)
LEMMA MatchedClasses ==
  ASSUME NEW shape, IsSeq(shape), NEW m \in Matched(shape)
  PROVE  /\ IsSeq(m) /\ Len(m) <= Len(shape)
         /\ Cardinality(Solid(m)) = Cardinality(Solid(shape))
<1>1. PICK without \in SUBSET {i \in DOMAIN shape : shape[i] = "separator"} :
        m = Kept(shape, DOMAIN shape \ without)
      BY DEF Matched
<1> DEFINE n == Len(shape)  J == (DOMAIN shape \ without) \cap (1..n)
<1>2. n \in Nat /\ DOMAIN shape = 1..n
      BY AnySeq
<1>3. IsSeq(m) /\ Picks(m, shape, J)
      BY <1>1, KeptPicks
<1>4. \A i \in 1..n : shape[i] # "separator" => i \in J
      BY <1>2
<1>5. J \subseteq 1..n
      OBVIOUS
<1> HIDE DEF n, J
<1>6. PICK at \in [1..Len(m) -> J] :
        /\ \A k \in 1..Len(m) : m[k] = shape[at[k]]
        /\ \A k, l \in 1..Len(m) : k < l => at[k] < at[l]
        /\ \A i \in J : \E k \in 1..Len(m) : at[k] = i
      BY <1>3 DEF Picks
<1>7. Len(m) \in Nat
      BY <1>3, AnySeq
<1>8. \A k \in 1..Len(m) : at[k] \in 1..n
      BY <1>5, <1>6
<1>9. \A k, l \in 1..Len(m) : at[k] = at[l] => k = l
  <2> SUFFICES ASSUME NEW k \in 1..Len(m), NEW l \in 1..Len(m), k < l
               PROVE  at[k] # at[l]
      BY <1>7
  <2>1. at[k] < at[l] /\ at[k] \in 1..n /\ at[l] \in 1..n
        BY <1>6, <1>8
  <2>2. QED
        BY <1>2, <2>1 DEF n
<1>10. Len(m) <= n
  <2>1. at \in Injection(1..Len(m), 1..n)
    <3>1. at \in [1..Len(m) -> 1..n] /\ DOMAIN at = 1..Len(m)
          BY <1>5, <1>6
    <3>2. QED
          BY <1>9, <3>1 DEF Injection, IsInjective
  <2>2. \A l \in Nat : IsFiniteSet(1..l) /\ Cardinality(1..l) = l
        BY FS_Interval
  <2>3. QED
        BY <1>2, <1>7, <2>1, <2>2, FS_Injection DEF n
<1>11. Cardinality(Solid(m)) = Cardinality(Solid(shape))
  <2> DEFINE A == Solid(m)  B == Solid(shape)  f == [k \in A |-> at[k]]
  <2>1. \A k \in A : k \in 1..Len(m) /\ at[k] \in B
    <3>1. \A k \in A : k \in 1..Len(m) /\ m[k] # "separator"
          BY DEF Solid
    <3>2. QED
          BY <1>6, <1>8, <3>1 DEF Solid, n
  <2>2. \A i \in B : \E k \in A : at[k] = i
    <3> SUFFICES ASSUME NEW i \in B PROVE \E k \in A : at[k] = i
        OBVIOUS
    <3>1. i \in 1..n /\ shape[i] # "separator"
          BY DEF Solid, n
    <3>2. PICK k \in 1..Len(m) : at[k] = i
          BY <1>4, <1>6, <3>1
    <3>3. k \in A
          BY <1>6, <3>1, <3>2 DEF Solid
    <3>4. QED
          BY <3>2, <3>3
  <2>3. IsFiniteSet(A)
        BY <1>3, SolidIsFinite
  <2> HIDE DEF A, B
  <2>4. f \in [A -> B] /\ DOMAIN f = A
        BY <2>1
  <2>5. f \in Surjection(A, B)
        BY <2>2, <2>4 DEF Surjection
  <2>6. f \in Injection(A, B)
    <3>1. \A k, l \in A : f[k] = f[l] => k = l
          BY <1>9, <2>1
    <3>2. QED
          BY <2>4, <3>1 DEF Injection, IsInjective
  <2> HIDE DEF f
  <2>7. QED
        BY <2>3, <2>5, <2>6, FS_Surjection DEF A, B
<1>12. QED
       BY <1>3, <1>10, <1>11 DEF n

LEMMA WholeShape ==
  ASSUME NEW shape, IsSeq(shape)
  PROVE  shape \in Matched(shape)
<1> DEFINE I == DOMAIN shape \ {}
<1>1. DOMAIN shape = 1..Len(shape)
      BY AnySeq
<1>2. I \cap (1..Len(shape)) = 1..Len(shape)
      BY <1>1
<1> HIDE DEF I
<1>3. IsSeq(Kept(shape, I)) /\ Picks(Kept(shape, I), shape, 1..Len(shape))
      BY <1>2, KeptPicks
<1>4. Kept(shape, I) = shape
      BY <1>3, AllPicked
<1>5. Kept(shape, I) \in Matched(shape)
      BY DEF Matched, I
<1>6. QED
      BY <1>4, <1>5

(* What matches has as many letters and digits, so none that goes on with  *)
(* one of them goes further than another.                                  *)
LEMMA GoesOnWithMore ==
  ASSUME NEW m, IsSeq(m), NEW p, IsSeq(p), Len(m) < Len(p),
         \A k \in 1..Len(m) : p[k] = m[k], p[Len(m) + 1] # "separator"
  PROVE  Cardinality(Solid(m)) # Cardinality(Solid(p))
<1> DEFINE x == Len(m) + 1
<1>1. Len(m) \in Nat /\ Len(p) \in Nat /\ x \in 1..Len(p) /\ x \notin 1..Len(m)
      BY AnySeq
<1>2. x \notin Solid(m) /\ x \in Solid(p)
      BY <1>1 DEF Solid
<1>3. Solid(m) \subseteq Solid(p)
      BY <1>1 DEF Solid
<1> HIDE DEF x
<1>4. IsFiniteSet(Solid(p)) /\ Solid(m) \in SUBSET Solid(p) /\ Solid(m) # Solid(p)
      BY <1>2, <1>3, SolidIsFinite
<1>5. QED
      BY <1>4, FS_Subset

(* Ends are places in the text.                                            *)
LEMMA EndsInText ==
  ASSUME NEW P, \A p \in P : IsSeq(p), NEW c, IsSeq(c), NEW i \in Nat
  PROVE  /\ Ends(P, c, i) \subseteq 0..Len(c)
         /\ Ends(P, c, i) # {} => /\ Max(Ends(P, c, i)) \in Ends(P, c, i)
                                  /\ \A e \in Ends(P, c, i) : e <= Max(Ends(P, c, i))
<1>1. Len(c) \in Nat /\ \A p \in P : Len(p) \in Nat
      BY AnySeq
<1>2. Ends(P, c, i) \subseteq 0..Len(c)
      BY <1>1 DEF Ends
<1>3. QED
      BY <1>1, <1>2, GreatestElement

(* A pattern stands in the text.                                           *)
StandsIn(c, i, p) == i + Len(p) <= Len(c) /\ \A k \in 1..Len(p) : c[i + k] = p[k]

LEMMA EndsOf ==
  ASSUME NEW P, NEW c, IsSeq(c), NEW i \in Nat, NEW p \in P, IsSeq(p), StandsIn(c, i, p)
  PROVE  i + Len(p) \in Ends(P, c, i)
<1> DEFINE t == SubSeq(c, i + 1, i + Len(p))
<1>1. IsSeq(p) /\ Len(p) \in Nat /\ i + Len(p) \in Nat /\ i <= i + Len(p) /\ i + Len(p) <= Len(c)
      BY AnySeq DEF StandsIn
<1>2. IsSeq(t) /\ Len(t) = i + Len(p) - i /\ \A k \in 1..i + Len(p) - i : t[k] = c[i + k]
      BY <1>1, AnyPiece
<1> HIDE DEF t
<1>3. Len(t) = Len(p) /\ \A k \in 1..Len(t) : t[k] = p[k]
      BY <1>1, <1>2 DEF StandsIn
<1>4. t = p
      BY <1>1, <1>2, <1>3, AnyEqual
<1>5. QED
      BY <1>1, <1>4 DEF t, Ends

LEMMA EndsBy ==
  ASSUME NEW P, \A p \in P : IsSeq(p), NEW c, IsSeq(c), NEW i \in Nat, NEW e \in Ends(P, c, i)
  PROVE  \E p \in P : e = i + Len(p) /\ StandsIn(c, i, p)
<1>1. PICK p \in P : /\ e = i + Len(p) /\ i + Len(p) <= Len(c)
                     /\ SubSeq(c, i + 1, i + Len(p)) = p
      BY DEF Ends
<1>2. IsSeq(p) /\ Len(p) \in Nat /\ i + Len(p) \in Nat /\ i <= i + Len(p)
      BY AnySeq
<1>3. \A k \in 1..i + Len(p) - i : SubSeq(c, i + 1, i + Len(p))[k] = c[i + k]
      BY <1>1, <1>2, AnyPiece
<1>4. \A k \in 1..Len(p) : k \in 1..i + Len(p) - i
      BY <1>2
<1>5. \A k \in 1..Len(p) : c[i + k] = p[k]
      BY <1>1, <1>3, <1>4
<1>6. QED
      BY <1>1, <1>5 DEF StandsIn

LEMMA ClassesOf ==
  ASSUME NEW t, IsSeq(t)
  PROVE  /\ IsSeq(Shape(t)) /\ Len(Shape(t)) = Len(t)
         /\ \A k \in 1..Len(t) : Shape(t)[k] = Class(t[k])
<1>1. Len(t) \in Nat /\ DOMAIN t = 1..Len(t)
      BY AnySeq
<1>2. Shape(t) = [k \in 1..Len(t) |-> Shape(t)[k]] /\ \A k \in 1..Len(t) : Shape(t)[k] = Class(t[k])
      BY <1>1 DEF Shape
<1>3. QED
      BY <1>1, <1>2, AnyListing

(* The search for the listed part finds the one that made the match: it    *)
(* takes no separator that belongs to what completes the postcode.         *)
LEMMA ListedPartOf ==
  ASSUME NEW shape, IsSeq(shape), NEW m \in Matched(shape), NEW s, IsSeq(s),
         Len(s) > 0 => s[1] # "separator", NEW matched, Shape(matched) = m \o s
  PROVE  ListedPart(shape, matched) = SubSeq(matched, 1, Len(m))
<1> DEFINE w == m \o s  P == Matched(shape)  E == Ends(P, w, 0)
<1>1. \A p \in P : IsSeq(p) /\ Len(p) \in Nat /\ Cardinality(Solid(p)) = Cardinality(Solid(shape))
      BY MatchedClasses, AnySeq
<1>2. /\ IsSeq(w) /\ Len(w) = Len(m) + Len(s) /\ Len(s) \in Nat
      /\ \A k \in 1..Len(m) : w[k] = m[k]
      /\ \A k \in 1..Len(s) : w[Len(m) + k] = s[k]
      BY <1>1, ConcatEach, AnySeq
<1>3. Len(m) \in Nat
      BY <1>1
<1> HIDE DEF w, P
<1>4. Len(m) \in E
  <2>1. 0 + Len(m) = Len(m) /\ StandsIn(w, 0, m)
        BY <1>2, <1>3 DEF StandsIn
  <2>2. 0 + Len(m) \in Ends(P, w, 0)
        BY <1>1, <1>2, <2>1, EndsOf DEF P
  <2>3. QED
        BY <2>1, <2>2
<1>5. ASSUME NEW e \in E PROVE e \in Nat /\ e <= Len(m)
  <2>1. PICK p \in P : /\ IsSeq(p) /\ Len(p) \in Nat /\ e = 0 + Len(p) /\ e <= Len(w)
                       /\ \A k \in 1..Len(p) : w[0 + k] = p[k]
    <3>1. 0 \in Nat /\ IsSeq(w) /\ e \in Ends(P, w, 0) /\ \A p \in P : IsSeq(p)
          BY <1>1, <1>2, <1>5 DEF P
    <3>2. PICK p \in P : e = 0 + Len(p) /\ StandsIn(w, 0, p)
          BY <3>1, EndsBy
    <3>3. IsSeq(p) /\ Len(p) \in Nat
          BY <1>1 DEF P
    <3>4. QED
          BY <3>2, <3>3 DEF StandsIn
  <2>2. e = Len(p) /\ \A k \in 1..Len(p) : w[k] = p[k]
        BY <2>1
  <2>3. CASE Len(m) < Len(p)
    <3>1. \A k \in 1..Len(m) : p[k] = m[k]
          BY <1>2, <1>3, <2>1, <2>2, <2>3
    <3>2. Len(m) + 1 \in 1..Len(p) /\ 1 \in 1..Len(s)
          BY <1>2, <1>3, <2>1, <2>2, <2>3
    <3>3. p[Len(m) + 1] = s[1] /\ s[1] # "separator"
          BY <1>2, <2>2, <3>2
    <3>4. IsSeq(m) /\ Cardinality(Solid(m)) = Cardinality(Solid(p))
          BY <1>1 DEF P
    <3>5. QED
          BY <2>1, <2>3, <3>1, <3>3, <3>4, GoesOnWithMore
  <2>4. QED
        BY <1>3, <2>1, <2>2, <2>3
<1>6. Max(E) = Len(m)
  <2>1. 0 \in Nat /\ E # {}
        BY <1>4
  <2>2. Max(E) \in E /\ \A e \in E : e <= Max(E)
        BY <1>1, <1>2, <2>1, EndsInText
  <2> HIDE DEF E
  <2>3. Max(E) <= Len(m) /\ Len(m) <= Max(E) /\ Max(E) \in Nat
        BY <1>4, <1>5, <2>2
  <2>4. QED
        BY <1>3, <2>3
<1>7. QED
      BY <1>6 DEF ListedPart, w, P

LEMMA FindIterIs ==
  ASSUME NEW P, \A p \in P : IsSeq(p), NEW c, IsSeq(c)
  PROVE  /\ \A m \in FindIter(P, c) : \E i \in 0..Len(c) :
              Ends(P, c, i) # {} /\ m = [start |-> i, end |-> Max(Ends(P, c, i))]
         /\ \A i \in 0..Len(c) : Ends(P, c, i) # {} =>
              \/ [start |-> i, end |-> Max(Ends(P, c, i))] \in FindIter(P, c)
              \/ \E j \in 0..i - 1 : Ends(P, c, j) # {} /\ Max(Ends(P, c, j)) > i
<1> DEFINE n == Len(c)
           ends == [i \in 0..n |-> Ends(P, c, i)]
           Step(f, i) == IF i = 0 THEN 0
                         ELSE IF f[i - 1] < i /\ ends[i - 1] # {} THEN Max(ends[i - 1]) ELSE f[i - 1]
           Loop(f) == f = [i \in 0..n |-> Step(f, i)]
           step == [q \in (1..n) \X Nat |->
                      IF q[2] < q[1] /\ ends[q[1] - 1] # {} THEN Max(ends[q[1] - 1]) ELSE q[2]]
           free == CHOOSE f : Loop(f)
<1>1. n \in Nat
      BY AnySeq
<1>2. \A i \in 0..n : ends[i] = Ends(P, c, i)
      OBVIOUS
<1>3. \A i \in 0..n : ends[i] # {} => Max(ends[i]) \in Nat
  <2> SUFFICES ASSUME NEW i \in 0..n, ends[i] # {} PROVE Max(ends[i]) \in Nat
      OBVIOUS
  <2>1. i \in Nat /\ ends[i] = Ends(P, c, i)
        BY <1>1
  <2> HIDE DEF ends
  <2>2. Ends(P, c, i) \subseteq 0..Len(c) /\ Max(Ends(P, c, i)) \in Ends(P, c, i)
        BY <2>1, EndsInText
  <2>3. QED
        BY <1>1, <2>1, <2>2 DEF n
<1>4. FindIter(P, c) = {[start |-> i, end |-> Max(ends[i])] :
                          i \in {i \in 0..n : ends[i] # {} /\ free[i] <= i}}
      BY DEF FindIter, ends, n, free, Loop, Step
<1> HIDE DEF ends, n
<1>5. \E f : Loop(f)
  <2>1. step \in [(1..n) \X Nat -> Nat]
    <3> SUFFICES ASSUME NEW q \in (1..n) \X Nat
                 PROVE  (IF q[2] < q[1] /\ ends[q[1] - 1] # {} THEN Max(ends[q[1] - 1]) ELSE q[2]) \in Nat
        OBVIOUS
    <3>1. q[1] \in 1..n /\ q[2] \in Nat /\ q[1] - 1 \in 0..n
          BY <1>1
    <3>2. QED
          BY <1>3, <3>1
  <2>2. \A i \in 1..n, x \in Nat :
          step[<<i, x>>] = IF x < i /\ ends[i - 1] # {} THEN Max(ends[i - 1]) ELSE x
        OBVIOUS
  <2> HIDE DEF step
  <2>3. PICK f : Solves(f, Nat, 0, n, step)
        BY <1>1, <2>1, Recursion
  <2>4. /\ f \in [0..n -> Nat] /\ f[0] = 0
        /\ \A i \in 1..n : f[i] = step[<<i, f[i - 1]>>]
        BY <2>3 DEF Solves
  <2>5. ASSUME NEW i \in 0..n PROVE f[i] = Step(f, i)
    <3>1. CASE i = 0
          BY <2>4, <3>1
    <3>2. CASE i \in 1..n
      <4>1. f[i] = step[<<i, f[i - 1]>>] /\ i - 1 \in 0..n /\ f[i - 1] \in Nat /\ i # 0
            BY <1>1, <2>4, <3>2
      <4>2. QED
            BY <2>2, <3>2, <4>1
    <3>3. QED
          BY <1>1, <3>1, <3>2
  <2> HIDE DEF Step
  <2>6. f = [i \in 0..n |-> Step(f, i)]
        BY <2>4, <2>5
  <2>7. QED
        BY <2>6
<1>6. Loop(free)
      BY <1>5
<1>7. \A i \in 0..n : free[i] = Step(free, i)
  <2> HIDE DEF Step, free
  <2>1. QED
        BY <1>6
<1> HIDE DEF free, Loop
(* The search goes on at the start or where a match ends that began before. *)
<1>8. \A i \in 0..n : \/ free[i] = 0
                      \/ \E j \in 0..i - 1 : ends[j] # {} /\ free[i] = Max(ends[j])
  <2> DEFINE Right(i) == \/ free[i] = 0
                         \/ \E j \in 0..i - 1 : ends[j] # {} /\ free[i] = Max(ends[j])
             Wrong == {i \in 0..n : ~Right(i)}
  <2>1. ASSUME NEW i \in Wrong, \A k \in Wrong : i <= k PROVE FALSE
    <3>1. i \in 0..n /\ ~Right(i)
          BY <2>1
    <3>2. i # 0
          BY <1>7, <3>1
    <3>3. i - 1 \in 0..n /\ i \in 1..n /\ i - 1 \in 0..i - 1
          BY <1>1, <3>1, <3>2
    <3>4. Right(i - 1)
          BY <1>1, <2>1, <3>3
    <3>5. free[i] = free[i - 1] \/ (ends[i - 1] # {} /\ free[i] = Max(ends[i - 1]))
          BY <1>7, <3>1, <3>2
    <3>6. \A j \in 0..(i - 1) - 1 : j \in 0..i - 1
          BY <1>1, <3>3
    <3>7. QED
          BY <3>1, <3>3, <3>4, <3>5, <3>6
  <2>2. Wrong \subseteq Nat
        BY <1>1
  <2> HIDE DEF Right
  <2>3. Wrong = {}
        BY <2>1, <2>2, LeastElement
  <2>4. \A i \in 0..n : Right(i)
        BY <2>3
  <2>5. QED
        BY <2>4 DEF Right
<1> HIDE DEF Step
<1>9. ASSUME NEW m \in FindIter(P, c)
      PROVE  \E i \in 0..Len(c) :
               Ends(P, c, i) # {} /\ m = [start |-> i, end |-> Max(Ends(P, c, i))]
  <2>1. PICK i \in 0..n : ends[i] # {} /\ m = [start |-> i, end |-> Max(ends[i])]
        BY <1>4, <1>9
  <2>2. QED
        BY <1>2, <2>1 DEF n
<1>10. ASSUME NEW i \in 0..Len(c), Ends(P, c, i) # {}
       PROVE  \/ [start |-> i, end |-> Max(Ends(P, c, i))] \in FindIter(P, c)
              \/ \E j \in 0..i - 1 : Ends(P, c, j) # {} /\ Max(Ends(P, c, j)) > i
  <2>1. i \in 0..n /\ ends[i] = Ends(P, c, i) /\ \A j \in 0..i - 1 : j \in 0..n
        BY <1>1, <1>2 DEF n
  <2>2. CASE free[i] = 0
    <3>1. free[i] <= i
          BY <1>1, <2>1, <2>2
    <3>2. QED
          BY <1>4, <1>10, <2>1, <3>1
  <2>3. ASSUME NEW j \in 0..i - 1, ends[j] # {}, free[i] = Max(ends[j])
        PROVE  \/ [start |-> i, end |-> Max(Ends(P, c, i))] \in FindIter(P, c)
               \/ \E k \in 0..i - 1 : Ends(P, c, k) # {} /\ Max(Ends(P, c, k)) > i
    <3>1. ends[j] = Ends(P, c, j) /\ Max(ends[j]) \in Nat
          BY <1>2, <1>3, <2>1, <2>3
    <3>2. CASE free[i] <= i
          BY <1>4, <1>10, <2>1, <3>2
    <3>3. CASE ~(free[i] <= i)
      <4>1. Max(ends[j]) > i
            BY <1>1, <2>1, <2>3, <3>1, <3>3
      <4>2. QED
            BY <2>3, <3>1, <4>1
    <3>4. QED
          BY <3>2, <3>3
  <2>4. QED
        BY <1>8, <2>1, <2>2, <2>3
<1>11. QED
       BY <1>9, <1>10

(* A match in the text: the listed part, and then what completes it.       *)
LEMMA PartsOfMatch ==
  ASSUME NEW text, IsSeq(text), NEW shape, IsSeq(shape), NEW m \in Matched(shape),
         NEW s, IsSeq(s), Len(s) > 0 => s[1] # "separator",
         NEW i \in Nat, StandsIn(Shape(text), i, m \o s), NEW e, e = i + Len(m) + Len(s)
  PROVE  /\ Len(m) \in Nat /\ Len(s) \in Nat /\ e <= Len(text)
         /\ ListedPart(shape, SubSeq(text, i + 1, e)) = SubSeq(text, i + 1, i + Len(m))
         /\ Len(SubSeq(text, i + 1, i + Len(m))) = Len(m)
         /\ Shape(SubSeq(text, i + Len(m) + 1, e)) = s
<1> DEFINE c == Shape(text)  w == m \o s  j == i + Len(m)
           matched == SubSeq(text, i + 1, e)
           code == SubSeq(text, i + 1, j)
           rest == SubSeq(text, j + 1, e)
<1>1. /\ IsSeq(m) /\ Len(m) \in Nat /\ Len(s) \in Nat /\ Len(text) \in Nat
      /\ IsSeq(w) /\ Len(w) = Len(m) + Len(s)
      /\ \A k \in 1..Len(m) : w[k] = m[k]
      /\ \A k \in 1..Len(s) : w[Len(m) + k] = s[k]
      BY MatchedClasses, ConcatEach, AnySeq
<1>2. /\ IsSeq(c) /\ Len(c) = Len(text)
      /\ \A k \in 1..Len(text) : c[k] = Class(text[k])
      BY ClassesOf
<1>3. StandsIn(c, i, w)
      OBVIOUS
<1> HIDE DEF c, w, j
<1>4. /\ i + Len(w) <= Len(text) /\ i + Len(w) = e /\ e \in Nat /\ i <= e /\ e <= Len(text)
      /\ j \in Nat /\ i <= j /\ j <= e /\ j <= Len(text) /\ j - i = Len(m) /\ e - j = Len(s)
      /\ e - i = Len(w)
      BY <1>1, <1>2, <1>3 DEF StandsIn, j
<1>5. \A k \in 1..Len(w) : c[i + k] = w[k]
      BY <1>3 DEF StandsIn
<1>6. /\ IsSeq(matched) /\ Len(matched) = Len(w)
      /\ \A k \in 1..Len(w) : matched[k] = text[i + k]
  <2>1. /\ IsSeq(matched) /\ Len(matched) = e - i
        /\ \A k \in 1..e - i : matched[k] = text[i + k]
        BY <1>4, AnyPiece
  <2>2. QED
        BY <1>4, <2>1
<1>7. /\ IsSeq(code) /\ Len(code) = Len(m)
      /\ \A k \in 1..Len(m) : code[k] = text[i + k]
  <2>1. /\ IsSeq(code) /\ Len(code) = j - i
        /\ \A k \in 1..j - i : code[k] = text[i + k]
        BY <1>4, AnyPiece
  <2>2. QED
        BY <1>4, <2>1
<1>8. /\ IsSeq(rest) /\ Len(rest) = Len(s)
      /\ \A k \in 1..Len(s) : rest[k] = text[j + k]
  <2>1. /\ IsSeq(rest) /\ Len(rest) = e - j
        /\ \A k \in 1..e - j : rest[k] = text[j + k]
        BY <1>4, AnyPiece, ZenonT(60)
  <2>2. QED
        BY <1>4, <2>1
<1> HIDE DEF matched, code, rest
<1>9. Shape(matched) = w
  <2>1. /\ IsSeq(Shape(matched)) /\ Len(Shape(matched)) = Len(w)
        /\ \A k \in 1..Len(w) : Shape(matched)[k] = Class(matched[k])
        BY <1>6, ClassesOf
  <2>2. \A k \in 1..Len(w) : i + k \in 1..Len(text)
        BY <1>1, <1>4
  <2>3. \A k \in 1..Len(w) : Shape(matched)[k] = w[k]
        BY <1>2, <1>5, <1>6, <2>1, <2>2
  <2>4. QED
        BY <1>1, <2>1, <2>3, AnyEqual
<1>10. ListedPart(shape, matched) = SubSeq(matched, 1, Len(m))
       BY <1>9, ListedPartOf DEF w
<1>11. SubSeq(matched, 1, Len(m)) = code
  <2>1. PICK o \in Nat : o = 0
        OBVIOUS
  <2> DEFINE t == SubSeq(matched, o + 1, Len(m))
  <2>2. o <= Len(m) /\ Len(m) <= Len(matched)
        BY <1>1, <1>6, <2>1
  <2>3. IsSeq(t) /\ Len(t) = Len(m) - o /\ \A k \in 1..Len(m) - o : t[k] = matched[o + k]
    <3>1. IsSeq(matched) /\ Len(m) \in Nat
          BY <1>1, <1>6
    <3>2. QED
          BY <2>2, <3>1, AnyPiece
  <2> HIDE DEF t
  <2>4. \A k \in 1..Len(m) : o + k = k /\ k \in 1..Len(m) - o /\ k \in 1..Len(w)
        BY <1>1, <2>1
  <2>5. Len(t) = Len(code)
        BY <1>1, <1>7, <2>1, <2>3
  <2>6. ASSUME NEW k \in 1..Len(m) PROVE t[k] = code[k]
    <3>1. o + k = k /\ k \in 1..Len(m) - o /\ k \in 1..Len(w)
          BY <2>4
    <3>2. t[k] = matched[k]
          BY <2>3, <3>1
    <3>3. matched[k] = text[i + k]
          BY <1>6, <3>1
    <3>4. QED
          BY <1>7, <3>2, <3>3
  <2>7. t = code
        BY <1>7, <2>3, <2>5, <2>6, AnyEqual
  <2>8. o + 1 = 1
        BY <2>1
  <2>9. QED
        BY <2>7, <2>8 DEF t
<1>12. Shape(rest) = s
  <2>1. /\ IsSeq(Shape(rest)) /\ Len(Shape(rest)) = Len(s)
        /\ \A k \in 1..Len(s) : Shape(rest)[k] = Class(rest[k])
        BY <1>8, ClassesOf
  <2>2. \A k \in 1..Len(s) : /\ j + k \in 1..Len(text) /\ j + k = i + (Len(m) + k)
                             /\ Len(m) + k \in 1..Len(w)
        BY <1>1, <1>4 DEF j
  <2>3. \A k \in 1..Len(s) : c[i + (Len(m) + k)] = w[Len(m) + k]
        BY <1>5, <2>2
  <2>4. \A k \in 1..Len(s) : Shape(rest)[k] = s[k]
        BY <1>1, <1>2, <1>8, <2>1, <2>2, <2>3
  <2>5. QED
        BY <2>1, <2>4, AnyEqual
<1>13. QED
       BY <1>1, <1>4, <1>7, <1>10, <1>11, <1>12 DEF matched, code, rest, j

(* What completes a postcode is as long for all postcodes of a group, and  *)
(* begins with a letter or a digit.                                        *)
LEMMA StructuresOf ==
  ASSUME NEW g \in Groups
  PROVE  \E n \in Nat : \A s \in Structures[g] :
           IsSeq(s) /\ Len(s) = n /\ (Len(s) > 0 => s[1] # "separator")
<1>1. ASSUME NEW n \in Nat
      PROVE  /\ IsSeq(DigitsOnly(n)) /\ Len(DigitsOnly(n)) = n
             /\ n > 0 => DigitsOnly(n)[1] # "separator"
  <2>1. DigitsOnly(n) = [i \in 1..n |-> DigitsOnly(n)[i]] /\ \A i \in 1..n : DigitsOnly(n)[i] = "digit"
        BY DEF DigitsOnly
  <2>2. QED
        BY <2>1, AnyListing
<1>2. CASE g \in {"AR", "CL", "MT"}
  <2>1. Structures[g] = {DigitsOnly(4)}
        BY <1>2 DEF Structures
  <2>2. QED
        BY <1>1, <2>1
<1>3. CASE g = "BR"
  <2>1. Structures[g] = {DigitsOnly(3)}
        BY <1>3 DEF Structures
  <2>2. QED
        BY <1>1, <2>1
<1>4. CASE g = "CN"
  <2>1. Structures[g] = {DigitsOnly(2)}
        BY <1>4 DEF Structures
  <2>2. QED
        BY <1>1, <2>1
<1>5. CASE g = "IE"
  <2>1. Structures[g] = {<<"letter", "digit", "letter", "digit">>,
                         <<"letter", "letter", "digit", "digit">>,
                         <<"letter", "digit", "letter", "letter">>}
        BY <1>5 DEF Structures
  <2>2. ASSUME NEW a, NEW b, NEW x, NEW y
        PROVE  IsSeq(<<a, b, x, y>>) /\ Len(<<a, b, x, y>>) = 4 /\ <<a, b, x, y>>[1] = a
    <3>1. Len(<<a, b, x, y>>) = 4 /\ <<a, b, x, y>>[1] = a
          OBVIOUS
    <3>2. <<a, b, x, y>> = [k \in 1..4 |-> <<a, b, x, y>>[k]]
          OBVIOUS
    <3>3. QED
          BY <3>1, <3>2, AnyListing
  <2>3. \A s \in Structures[g] : IsSeq(s) /\ Len(s) = 4 /\ s[1] # "separator"
        BY <2>1, <2>2
  <2>4. QED
        BY <2>3
<1>6. CASE g = "full"
  <2>1. Structures[g] = {<<>>}
        BY <1>6 DEF Structures, Groups
  <2>2. QED
        BY <2>1, AnyEmpty
<1>7. QED
      BY <1>2, <1>3, <1>4, <1>5, <1>6 DEF Groups, Special

(* The postcodes of the dictionaries are strings.                          *)
LEMMA PreparedCodes ==
  ASSUME NEW row \in PostcodeRows, NEW code \in Prepared(row)
  PROVE  IsSeq(code)
<1>1. ASSUME NEW s, s \in Seq(Range(s)) PROVE IsSeq(s)
  <2>1. s = [i \in 1..Len(s) |-> s[i]] /\ Len(s) \in Nat
        BY <1>1, LenProperties
  <2>2. QED
        BY <2>1, AnyListing
<1>2. IsSeq(row.code) /\ IsSeq(row.admin)
      BY <1>1, PostcodeRowsAssumption
<1>3. ASSUME NEW s, IsSeq(s), NEW i \in Nat \ {0}, NEW j \in Nat, j <= Len(s)
      PROVE  IsSeq(SubSeq(s, i, j))
  <2>1. PICK h \in Nat : i = h + 1
    <3>1. i - 1 \in Nat /\ i = (i - 1) + 1
          OBVIOUS
    <3>2. QED
          BY <3>1
  <2>2. CASE h <= j
        BY <1>3, <2>1, <2>2, AnyPiece
  <2>3. CASE ~(h <= j)
    <3>1. SubSeq(s, i, j) = <<>>
          BY <2>1, <2>3, SubSeqEmpty
    <3>2. QED
          BY <3>1, AnyEmpty
  <2>4. QED
        BY <2>2, <2>3
<1>4. Len(row.code) \in Nat
      BY <1>2, AnySeq
<1>5. \A n \in Nat : IsSeq(UpTo(row.code, n))
  <2> SUFFICES ASSUME NEW n \in Nat PROVE IsSeq(UpTo(row.code, n))
      OBVIOUS
  <2>1. CASE Len(row.code) < n
        BY <1>2, <1>3, <1>4, <2>1 DEF UpTo
  <2>2. CASE ~(Len(row.code) < n)
        BY <1>2, <1>3, <1>4, <2>2 DEF UpTo
  <2>3. QED
        BY <2>1, <2>2
<1>6. IsSeq(row.admin \o row.code)
      BY <1>2, AnyConcat
<1>7. IsSeq(<<"D">> \o WithoutZeros(SubSeq(row.code, 2, Len(row.code))))
  <2> DEFINE rest == SubSeq(row.code, 2, Len(row.code))
             last == {i \in DOMAIN rest : \A j \in 1..i : rest[j] = "0"}
  <2>1. IsSeq(rest)
        BY <1>2, <1>3, <1>4
  <2>2. Len(rest) \in Nat /\ DOMAIN rest = 1..Len(rest)
        BY <2>1, AnySeq
  <2>3. WithoutZeros(rest) = SubSeq(rest, Cardinality(last) + 1, Len(rest))
        BY DEF WithoutZeros
  <2> HIDE DEF rest
  <2>4. IsFiniteSet(1..Len(rest)) /\ last \in SUBSET (1..Len(rest))
        BY <2>2, FS_Interval
  <2> HIDE DEF last
  <2>5. Cardinality(last) \in Nat
        BY <2>4, FS_Subset, FS_CardinalityType
  <2>6. IsSeq(WithoutZeros(rest))
        BY <1>3, <2>1, <2>2, <2>3, <2>5
  <2>7. IsSeq(<<"D">>)
    <3>1. <<"D">> = [i \in 1..1 |-> <<"D">>[i]]
          OBVIOUS
    <3>2. QED
          BY <3>1, AnyListing
  <2>8. QED
        BY <2>6, <2>7, AnyConcat DEF rest
<1>8. CASE row.country = "AR"
      BY <1>6, <1>8 DEF Prepared
<1>9. CASE row.country = "BR"
      BY <1>5, <1>9 DEF Prepared
<1>10. CASE row.country = "CL"
       BY <1>5, <1>10 DEF Prepared
<1>11. CASE row.country = "CN"
       BY <1>5, <1>11 DEF Prepared
<1>12. CASE row.country \notin {"AR", "BR", "CL", "CN"}
  <2>1. code = row.code \/ code = <<"D">> \o WithoutZeros(SubSeq(row.code, 2, Len(row.code)))
    <3>1. CASE row.country = "IE" /\ row.place \in Dublin
          BY <1>12, <3>1 DEF Prepared
    <3>2. CASE ~(row.country = "IE" /\ row.place \in Dublin)
          BY <1>12, <3>2 DEF Prepared
    <3>3. QED
          BY <3>1, <3>2
  <2>2. QED
        BY <1>2, <1>7, <2>1
<1>13. QED
       BY <1>8, <1>9, <1>10, <1>11, <1>12

LEMMA CleanedIsSeq ==
  ASSUME NEW s, IsSeq(s)
  PROVE  IsSeq(Cleaned(s)) /\ Len(Cleaned(s)) = Len(s)
<1>1. Len(s) \in Nat /\ DOMAIN s = 1..Len(s)
      BY AnySeq
<1>2. Cleaned(s) = [i \in 1..Len(s) |-> Cleaned(s)[i]]
      BY <1>1 DEF Cleaned
<1>3. QED
      BY <1>1, <1>2, AnyListing

LEMMA DictionaryOf ==
  ASSUME NEW g \in Groups
  PROVE  /\ DOMAIN Dictionary[g] = Codes(g)
         /\ \A code \in Codes(g) : IsSeq(code)
         /\ RegexList[g] = {Shape(code) : code \in Codes(g)}
         /\ \A code \in Codes(g) : \A entry \in Dictionary[g][code] :
              entry = [possibility |-> entry.possibility, origin |-> entry.origin]
<1>1. DOMAIN Dictionary[g] = Codes(g)
      BY DEF Dictionary
<1>2. ASSUME NEW code \in Codes(g) PROVE IsSeq(code)
  <2>1. PICK row \in PostcodeRows : \E c \in Prepared(row) : code = Cleaned(c)
        BY DEF Codes
  <2>2. QED
        BY <2>1, PreparedCodes, CleanedIsSeq
<1>3. RegexList[g] = {Shape(code) : code \in Codes(g)}
      BY <1>1 DEF RegexList
<1>4. ASSUME NEW code \in Codes(g), NEW entry \in Dictionary[g][code]
      PROVE  entry = [possibility |-> entry.possibility, origin |-> entry.origin]
  <2>1. PICK row \in PostcodeRows : entry = [possibility |-> row.place, origin |-> row.country]
        BY DEF Dictionary
  <2>2. QED
        BY <2>1
<1>5. QED
      BY <1>1, <1>2, <1>3, <1>4

LEMMA PatternsOf ==
  ASSUME NEW g \in Groups, NEW shape \in RegexList[g]
  PROVE  /\ IsSeq(shape)
         /\ \A p \in Patterns[g][shape] :
              IsSeq(p) /\ \E m \in Matched(shape), s \in Structures[g] : p = m \o s
         /\ \A m \in Matched(shape), s \in Structures[g] : m \o s \in Patterns[g][shape]
<1>1. PICK code \in Codes(g) : shape = Shape(code)
      BY DictionaryOf
<1>2. IsSeq(shape)
      BY <1>1, DictionaryOf, ClassesOf
<1>3. ASSUME NEW p \in Patterns[g][shape]
      PROVE  \E m \in Matched(shape), s \in Structures[g] : p = m \o s
      BY DEF Patterns
<1>4. ASSUME NEW m \in Matched(shape), NEW s \in Structures[g]
      PROVE  m \o s \in Patterns[g][shape]
      BY DEF Patterns
<1>5. \A m \in Matched(shape), s \in Structures[g] : IsSeq(m) /\ IsSeq(s)
      BY <1>2, MatchedClasses, StructuresOf
<1>6. \A m \in Matched(shape), s \in Structures[g] : IsSeq(m \o s)
      BY <1>5, AnyConcat
<1>7. QED
      BY <1>2, <1>3, <1>4, <1>6


(* What is found is a postcode of the group that stands there.             *)
LEMMA FoundStands ==
  ASSUME NEW g \in Groups, NEW text, IsSeq(text), NEW x \in TownMatches(g, text)
  PROVE  \E code \in DOMAIN Dictionary[g] :
           /\ [possibility |-> x.possibility, origin |-> x.origin] \in Dictionary[g][code]
           /\ x.end \in EndsAt(text, g, code, x.start)
<1> DEFINE Found(shape, f) == ListedPart(shape, SubSeq(text, f.start + 1, f.end))
<1>1. PICK shape \in RegexList[g] : \E f \in FindIter(Patterns[g][shape], Shape(text)) :
        /\ Found(shape, f) \in DOMAIN Dictionary[g]
        /\ \E entry \in Dictionary[g][Found(shape, f)] :
             x = [start |-> f.start, end |-> f.end,
                  possibility |-> entry.possibility, origin |-> entry.origin]
      BY DEF TownMatches
<1>2. PICK f \in FindIter(Patterns[g][shape], Shape(text)) :
        /\ Found(shape, f) \in DOMAIN Dictionary[g]
        /\ \E entry \in Dictionary[g][Found(shape, f)] :
             x = [start |-> f.start, end |-> f.end,
                  possibility |-> entry.possibility, origin |-> entry.origin]
      BY <1>1
<1> DEFINE code == Found(shape, f)  P == Patterns[g][shape]  c == Shape(text)
<1>3. PICK entry \in Dictionary[g][code] :
        x = [start |-> f.start, end |-> f.end,
             possibility |-> entry.possibility, origin |-> entry.origin]
      BY <1>2
<1>4. code \in DOMAIN Dictionary[g] /\ entry \in Dictionary[g][code]
      BY <1>2
<1> HIDE DEF code, Found
<1>5. [possibility |-> x.possibility, origin |-> x.origin] \in Dictionary[g][code]
  <2>1. entry = [possibility |-> entry.possibility, origin |-> entry.origin]
        BY <1>4, DictionaryOf
  <2>2. x.possibility = entry.possibility /\ x.origin = entry.origin
        BY <1>3
  <2>3. QED
        BY <1>4, <2>1, <2>2
<1>6. IsSeq(shape) /\ \A p \in P : IsSeq(p)
      BY PatternsOf
<1>7. IsSeq(c) /\ Len(c) = Len(text) /\ Len(text) \in Nat
      BY ClassesOf, AnySeq
<1>8. f \in FindIter(P, c)
      OBVIOUS
<1> HIDE DEF P, c
<1>9. PICK i \in 0..Len(c) : Ends(P, c, i) # {} /\ f = [start |-> i, end |-> Max(Ends(P, c, i))]
      BY <1>6, <1>7, <1>8, FindIterIs
<1> DEFINE e == Max(Ends(P, c, i))
<1>10. i \in Nat /\ e \in Ends(P, c, i)
  <2>1. i \in Nat
        BY <1>7
  <2>2. QED
        BY <1>6, <1>7, <1>9, <2>1, EndsInText
<1> HIDE DEF e
<1>11. PICK p \in P : e = i + Len(p) /\ StandsIn(c, i, p)
       BY <1>6, <1>7, <1>10, EndsBy
<1>12. PICK m \in Matched(shape), s \in Structures[g] : p = m \o s
       BY <1>11, PatternsOf DEF P
<1>13. /\ IsSeq(s) /\ (Len(s) > 0 => s[1] # "separator") /\ IsSeq(m)
       BY <1>6, StructuresOf, MatchedClasses
<1>14. Len(p) = Len(m) + Len(s) /\ Len(m) \in Nat /\ Len(s) \in Nat
       BY <1>12, <1>13, ConcatEach, AnySeq
<1>15. e = i + Len(m) + Len(s)
       BY <1>10, <1>11, <1>14
<1>16. /\ e <= Len(text)
       /\ ListedPart(shape, SubSeq(text, i + 1, e)) = SubSeq(text, i + 1, i + Len(m))
       /\ Len(SubSeq(text, i + 1, i + Len(m))) = Len(m)
       /\ Shape(SubSeq(text, i + Len(m) + 1, e)) = s
  <2>1. StandsIn(Shape(text), i, m \o s)
        BY <1>11, <1>12 DEF c
  <2>2. QED
        BY <1>6, <1>10, <1>13, <1>15, <2>1, PartsOfMatch
<1>17. f.start = i /\ f.end = e
       BY <1>9 DEF e
<1>18. code = SubSeq(text, i + 1, i + Len(m)) /\ Len(code) = Len(m)
       BY <1>16, <1>17 DEF code, Found
<1>19. x.start = i /\ x.end = e
       BY <1>3, <1>17
<1>20. e \in EndsAt(text, g, code, i)
  <2>1. SubSeq(text, i + 1, i + Len(code)) = code
        BY <1>18
  <2>2. Shape(SubSeq(text, i + Len(code) + 1, e)) \in Structures[g]
        BY <1>16, <1>18
  <2>3. e = i + Len(code) + Len(s)
        BY <1>15, <1>18
  <2>4. QED
        BY <1>16, <2>1, <2>2, <2>3 DEF EndsAt
<1>21. QED
       BY <1>4, <1>5, <1>19, <1>20


(* A postcode that stands in the text is a match of its shape, the longest *)
(* that begins there, and its listed part is the postcode.                 *)
LEMMA CodeMatches ==
  ASSUME NEW g \in Groups, NEW text, IsSeq(text), NEW code \in DOMAIN Dictionary[g],
         NEW i \in Nat, NEW e \in EndsAt(text, g, code, i)
  PROVE  /\ Ends(Patterns[g][Shape(code)], Shape(text), i) # {}
         /\ e = Max(Ends(Patterns[g][Shape(code)], Shape(text), i))
         /\ ListedPart(Shape(code), SubSeq(text, i + 1, e)) = code
<1> DEFINE shape == Shape(code)  P == Patterns[g][shape]  c == Shape(text)
           j == i + Len(code)
           rest == SubSeq(text, j + 1, e)
           s == Shape(rest)
<1>1. IsSeq(code) /\ shape \in RegexList[g]
      BY DictionaryOf
<1>2. /\ IsSeq(shape) /\ Len(shape) = Len(code) /\ Len(code) \in Nat
      /\ \A k \in 1..Len(code) : shape[k] = Class(code[k])
      BY <1>1, ClassesOf, AnySeq
<1>3. PICK n \in Nat : \A t \in Structures[g] :
        IsSeq(t) /\ Len(t) = n /\ (Len(t) > 0 => t[1] # "separator")
      BY StructuresOf
<1>4. /\ e \in {j + Len(t) : t \in Structures[g]}
      /\ e <= Len(text) /\ SubSeq(text, i + 1, j) = code /\ s \in Structures[g]
      BY DEF EndsAt
<1>5. PICK u \in Structures[g] : e = j + Len(u)
      BY <1>4
<1>6. /\ j \in Nat /\ e = j + n /\ i <= j /\ j <= e /\ e \in Nat /\ j <= Len(text)
      /\ j - i = Len(code) /\ e - j = n
  <2>1. Len(text) \in Nat /\ Len(u) = n
        BY <1>3, AnySeq
  <2>2. QED
        BY <1>2, <1>4, <1>5, <2>1
<1> HIDE DEF shape, P, c, j
<1>7. \A k \in 1..Len(code) : code[k] = text[i + k]
  <2>1. \A k \in 1..j - i : SubSeq(text, i + 1, j)[k] = text[i + k]
        BY <1>6, AnyPiece
  <2>2. QED
        BY <1>4, <1>6, <2>1
<1>8. IsSeq(rest) /\ Len(rest) = n /\ \A k \in 1..n : rest[k] = text[j + k]
  <2>1. /\ IsSeq(rest) /\ Len(rest) = e - j
        /\ \A k \in 1..e - j : rest[k] = text[j + k]
    <3>1. e <= Len(text) /\ j \in Nat /\ e \in Nat /\ j <= e
          BY <1>4, <1>6
    <3>2. QED
          BY <3>1, AnyPiece
  <2>2. QED
        BY <1>6, <2>1
<1>9. IsSeq(s) /\ Len(s) = n /\ \A k \in 1..n : s[k] = Class(rest[k])
      BY <1>8, ClassesOf
<1> HIDE DEF rest, s
<1>10. Len(s) > 0 => s[1] # "separator"
       BY <1>3, <1>4
<1>11. /\ IsSeq(c) /\ Len(c) = Len(text) /\ Len(text) \in Nat
       /\ \A k \in 1..Len(text) : c[k] = Class(text[k])
       BY ClassesOf, AnySeq DEF c
<1>12. shape \in Matched(shape)
       BY <1>2, WholeShape
<1> DEFINE p == shape \o s
<1>13. p \in P
       BY <1>1, <1>4, <1>12, PatternsOf DEF P
<1>14. \A q \in P : IsSeq(q) /\ \E m \in Matched(shape), t \in Structures[g] : q = m \o t
       BY <1>1, PatternsOf DEF P
<1>15. /\ IsSeq(p) /\ Len(p) = Len(code) + n
       /\ \A k \in 1..Len(code) : p[k] = shape[k]
       /\ \A k \in 1..n : p[Len(code) + k] = s[k]
  <2>1. IsSeq(shape) /\ IsSeq(s)
        BY <1>2, <1>9
  <2>2. /\ IsSeq(p) /\ Len(p) = Len(shape) + Len(s)
        /\ \A k \in 1..Len(shape) : p[k] = shape[k]
        /\ \A k \in 1..Len(s) : p[Len(shape) + k] = s[k]
        BY <2>1, ConcatEach
  <2> HIDE DEF p
  <2>3. QED
        BY <1>2, <1>9, <2>2
<1>16. i + Len(p) = e
  <2>1. Len(p) = Len(code) + n /\ Len(code) \in Nat /\ e = j + n
        BY <1>2, <1>6, <1>15
  <2> HIDE DEF p
  <2>2. QED
        BY ONLY <2>1, i \in Nat, n \in Nat DEF j
<1> HIDE DEF p
<1>17. StandsIn(c, i, p)
  <2>1. ASSUME NEW k \in 1..Len(p) PROVE c[i + k] = p[k]
    <3>1. CASE k \in 1..Len(code)
      <4>1. i + k \in 1..Len(text)
            BY <1>2, <1>6, <1>11, <3>1 DEF j
      <4>2. c[i + k] = Class(code[k])
            BY <1>7, <1>11, <3>1, <4>1
      <4>3. QED
            BY <1>2, <1>15, <3>1, <4>2
    <3>2. CASE k \notin 1..Len(code)
      <4>1. PICK l \in 1..n : k = Len(code) + l
        <5>1. k - Len(code) \in 1..n /\ k = Len(code) + (k - Len(code))
              BY <1>2, <1>15, <3>2
        <5>2. QED
              BY <5>1
      <4>2. i + k = j + l /\ j + l \in 1..Len(text)
            BY <1>2, <1>4, <1>6, <1>11, <4>1 DEF j
      <4>3. c[i + k] = s[l]
            BY <1>8, <1>9, <1>11, <4>1, <4>2
      <4>4. QED
            BY <1>15, <4>1, <4>3
    <3>3. QED
          BY <3>1, <3>2
  <2>2. QED
        BY <1>4, <1>11, <1>16, <2>1 DEF StandsIn
<1> DEFINE all == Ends(P, c, i)
<1>18. e \in all
       BY <1>11, <1>13, <1>15, <1>16, <1>17, EndsOf
<1>19. ASSUME NEW d \in all PROVE d \in Nat /\ d <= e
  <2>1. \A q \in P : IsSeq(q)
        BY <1>14
  <2>2. PICK q \in P : d = i + Len(q) /\ StandsIn(c, i, q)
        BY <1>11, <2>1, EndsBy
  <2>3. PICK m \in Matched(shape), t \in Structures[g] : q = m \o t
        BY <1>14
  <2>4. IsSeq(m) /\ Len(m) <= Len(shape) /\ IsSeq(t) /\ Len(t) = n
        BY <1>2, <1>3, MatchedClasses
  <2>5. Len(q) = Len(m) + Len(t) /\ Len(m) \in Nat
        BY <2>3, <2>4, ConcatEach, AnySeq
  <2>6. QED
        BY <1>2, <1>6, <2>2, <2>4, <2>5 DEF j
<1>20. e = Max(all)
  <2>1. Max(all) \in all /\ \A d \in all : d <= Max(all)
    <3>1. (\A q \in P : IsSeq(q)) /\ all # {}
          BY <1>14, <1>18
    <3>2. QED
          BY <1>11, <3>1, EndsInText
  <2> HIDE DEF all
  <2>2. e <= Max(all) /\ Max(all) <= e /\ Max(all) \in Nat
        BY <1>18, <1>19, <2>1
  <2>3. QED
        BY <1>6, <2>2
<1>21. ListedPart(shape, SubSeq(text, i + 1, e)) = code
  <2>1. StandsIn(Shape(text), i, shape \o s) /\ e = i + Len(shape) + Len(s)
        BY <1>2, <1>6, <1>9, <1>17 DEF c, p, j
  <2>2. ListedPart(shape, SubSeq(text, i + 1, e)) = SubSeq(text, i + 1, i + Len(shape))
    <3>1. /\ IsSeq(shape) /\ IsSeq(s) /\ shape \in Matched(shape)
          /\ (Len(s) > 0 => s[1] # "separator")
          BY <1>2, <1>9, <1>10, <1>12
    <3> HIDE DEF all
    <3>2. QED
          BY <2>1, <3>1, PartsOfMatch
  <2>3. QED
        BY <1>2, <1>4, <2>2 DEF j
<1>22. QED
       BY <1>18, <1>20, <1>21 DEF all, shape, P, c

LEMMA StandingIsFound ==
  ASSUME NEW g \in Groups, NEW text, IsSeq(text), NEW code \in DOMAIN Dictionary[g],
         NEW i \in 0..Len(text) - 1, EndsAt(text, g, code, i) # {}
  PROVE  \/ \A e \in EndsAt(text, g, code, i), entry \in Dictionary[g][code] :
              FoundAt(i, e, entry) \in TownMatches(g, text)
         \/ Preempted(text, g, code, i)
<1> DEFINE shape == Shape(code)  P == Patterns[g][shape]  c == Shape(text)
<1>1. IsSeq(code) /\ shape \in RegexList[g]
      BY DictionaryOf
<1>2. \A p \in P : IsSeq(p)
      BY <1>1, PatternsOf
<1>3. IsSeq(c) /\ Len(c) = Len(text) /\ Len(text) \in Nat
      BY ClassesOf, AnySeq
<1>4. i \in Nat /\ i \in 0..Len(c)
      BY <1>3
<1>5. \A e \in EndsAt(text, g, code, i) :
        /\ Ends(P, c, i) # {} /\ e = Max(Ends(P, c, i))
        /\ ListedPart(shape, SubSeq(text, i + 1, e)) = code
      BY <1>4, CodeMatches
<1> HIDE DEF shape, P, c
<1>6. Ends(P, c, i) # {}
      BY <1>5
<1>7. CASE [start |-> i, end |-> Max(Ends(P, c, i))] \in FindIter(P, c)
  <2>1. ASSUME NEW e \in EndsAt(text, g, code, i), NEW entry \in Dictionary[g][code]
        PROVE  FoundAt(i, e, entry) \in TownMatches(g, text)
    <3> DEFINE f == [start |-> i, end |-> e]
    <3>1. f \in FindIter(Patterns[g][shape], Shape(text))
          BY <1>5, <1>7 DEF P, c
    <3>2. f.start = i /\ f.end = e
          OBVIOUS
    <3> HIDE DEF f
    <3>3. ListedPart(shape, SubSeq(text, f.start + 1, f.end)) = code
          BY <1>5, <3>2
    <3>4. FoundAt(i, e, entry) = [start |-> f.start, end |-> f.end,
                                  possibility |-> entry.possibility, origin |-> entry.origin]
          BY <3>2 DEF FoundAt
    <3>5. QED
          BY <1>1, <3>1, <3>3, <3>4 DEF TownMatches
  <2>2. QED
        BY <2>1
<1>8. ASSUME NEW j \in 0..i - 1, Ends(P, c, j) # {}, Max(Ends(P, c, j)) > i
      PROVE  Preempted(text, g, code, i)
  <2>1. j \in Nat
        BY <1>4
  <2>2. Max(Ends(P, c, j)) \in Ends(P, c, j)
        BY <1>2, <1>3, <1>8, <2>1, EndsInText
  <2>3. QED
        BY <1>8, <2>2 DEF Preempted, P, c, shape
<1>9. QED
      BY <1>2, <1>3, <1>4, <1>6, <1>7, <1>8, FindIterIs

-----------------------------------------------------------------------------
(***************************************************************************)
(* Where the samples of a request are.                                     *)
(***************************************************************************)
SequencesInv ==
  /\ phase \in {"idle", "reading", "tagging", "processing", "finished", "answered", "failed"}
  /\ input = <<>> \/ input \in Inputs
  /\ phase = "idle" => input = <<>>
  /\ IsSeq(reader) /\ IsSeq(batch) /\ IsSeq(results)

(* Every sample is in one place: it has its result, is in the batch or has *)
(* not been read; and the CRF results are those of the batch.              *)
PlaceOfSamples ==
  /\ Len(results) + Len(batch) + Len(reader) = Len(input) /\ Len(batch) <= BatchSize
  /\ \A k \in 1..Len(batch) : batch[k] = input[Len(results) + k]
  /\ \A k \in 1..Len(reader) : reader[k] = input[Len(results) + Len(batch) + k]
  /\ tagged = IF phase = "processing" THEN batch ELSE <<>>
  /\ phase \in {"finished", "answered"} => batch = <<>> /\ reader = <<>>

ResultOf(result, sample) == /\ result.id = sample.id /\ result.crf = sample.id
                            /\ result.postcodes = PostcodeMatches(sample.text)

ResultsInv ==
  /\ \A k \in 1..Len(results) : ResultOf(results[k], input[k])
  /\ phase = "answered" => answer = results

(* Batches are full but the last.                                          *)
FullBatches(n) == \E q \in Nat : n = BatchSize * q

BatchesInv ==
  /\ phase = "reading" => FullBatches(Len(results)) \/ (reader = <<>> /\ batch = <<>>)
  /\ phase \in {"tagging", "failed"} => FullBatches(Len(results))
  /\ phase = "tagging" => Len(batch) = BatchSize \/ reader = <<>>
  /\ phase = "processing" => FullBatches(Len(results) + Len(batch)) \/ reader = <<>>

(* What has been read is valid, what was tagged is not too long.           *)
ChecksInv ==
  /\ \A k \in 1..Len(results) + Len(batch) : Valid(input[k])
  /\ \A k \in 1..Len(results) : ~Oversized(input[k])
  /\ phase = "processing" => \A k \in 1..Len(batch) : ~Oversized(batch[k])
  /\ phase = "failed" =>
       \E k \in 1..Len(input) : /\ Oversized(input[k])
                                /\ Len(results) < k /\ k <= Len(results) + BatchSize

PInv == SequencesInv /\ PlaceOfSamples /\ ResultsInv /\ BatchesInv /\ ChecksInv

(* What an input is: in particular its length and sizes are numbers.       *)
LEMMA InputIsASeq ==
  ASSUME SequencesInv
  PROVE  /\ IsSeq(input)
         /\ \A k \in 1..Len(input) : /\ input[k].size \in Nat
                                     /\ input[k].text \in Seq(Range(input[k].text))
                                     /\ Len(input[k].text) \in Nat
<1>1. CASE input = <<>>
      BY <1>1, AnyEmpty
<1>2. CASE input \in Inputs
  <2>1. /\ input \in Seq(Range(input))
        /\ \A sample \in Range(input) : sample.size \in Nat /\ sample.text \in Seq(Range(sample.text))
        BY <1>2, InputsAssumption
  <2>2. Len(input) \in Nat /\ DOMAIN input = 1..Len(input)
        BY <2>1, LenProperties
  <2>3. Range(input) = Entries(input)
        BY <2>2 DEF Range, Entries
  <2>4. \A k \in 1..Len(input) : input[k] \in Range(input)
        BY <2>2 DEF Range
  <2>5. \A k \in 1..Len(input) : Len(input[k].text) \in Nat
        BY <2>1, <2>4, LenProperties
  <2>6. QED
        BY <2>1, <2>3, <2>4, <2>5 DEF IsSeq
<1>3. QED
      BY <1>1, <1>2 DEF SequencesInv

(* The number of samples anywhere.                                         *)
LEMMA Lengths ==
  ASSUME SequencesInv, PlaceOfSamples
  PROVE  /\ Len(input) \in Nat /\ Len(reader) \in Nat /\ Len(batch) \in Nat /\ Len(results) \in Nat
         /\ DOMAIN input = 1..Len(input) /\ DOMAIN batch = 1..Len(batch)
         /\ DOMAIN results = 1..Len(results)
         /\ reader = <<>> <=> Len(reader) = 0
         /\ batch = <<>> <=> Len(batch) = 0
         /\ \A k \in 1..Len(batch) : k <= BatchSize /\ Len(results) + k \in 1..Len(input)
         /\ Taken = Len(results) + Len(batch)
<1>1. /\ Len(reader) \in Nat /\ (reader = <<>> <=> Len(reader) = 0)
      BY AnySeq DEF SequencesInv
<1>2. /\ Len(batch) \in Nat /\ (batch = <<>> <=> Len(batch) = 0) /\ DOMAIN batch = 1..Len(batch)
      BY AnySeq DEF SequencesInv
<1>3. Len(results) \in Nat /\ DOMAIN results = 1..Len(results)
      BY AnySeq DEF SequencesInv
<1>4. Len(input) \in Nat /\ DOMAIN input = 1..Len(input)
      BY InputIsASeq, AnySeq
<1>5. QED
      BY <1>1, <1>2, <1>3, <1>4, SizesAssumption DEF PlaceOfSamples, Taken

(* Two neighbouring batches.                                               *)
LEMMA OneMoreBatch ==
  ASSUME NEW n \in Nat, FullBatches(n)
  PROVE  FullBatches(n + BatchSize)
<1>1. PICK q \in Nat : n = BatchSize * q
      BY DEF FullBatches
<1>2. q + 1 \in Nat /\ n + BatchSize = BatchSize * (q + 1)
      BY <1>1, SizesAssumption
<1>3. QED
      BY <1>2 DEF FullBatches

LEMMA InitPipeline == Init => PInv
<1> SUFFICES ASSUME Init PROVE PInv
    OBVIOUS
<1>1. Len(<<>>) = 0 /\ IsSeq(<<>>)
      BY AnyEmpty
<1>2. SequencesInv
      BY <1>1 DEF Init, SequencesInv
<1>3. PlaceOfSamples /\ ResultsInv /\ BatchesInv /\ ChecksInv
      BY <1>1, SizesAssumption DEF Init, PlaceOfSamples, ResultsInv, BatchesInv, ChecksInv
<1>4. QED
      BY <1>2, <1>3 DEF PInv

-----------------------------------------------------------------------------
(***************************************************************************)
(* Every step keeps them.                                                  *)
(***************************************************************************)
LEMMA RunKeeps == PInv /\ Run => PInv'
<1> SUFFICES ASSUME PInv, Run PROVE PInv'
    OBVIOUS
<1>1. PICK samples \in Inputs : input' = samples /\ reader' = samples
      BY DEF Run
<1>2. /\ phase = "idle" /\ phase' = "reading" /\ UNCHANGED <<batch, tagged, results, answer>>
      BY DEF Run
<1>3. Len(batch) = 0 /\ Len(results) = 0 /\ tagged = <<>>
  <2>1. input = <<>> /\ Len(input) = 0
        BY <1>2, AnyEmpty DEF PInv, SequencesInv
  <2>2. QED
        BY <1>2, <2>1, Lengths DEF PInv, PlaceOfSamples
<1>4. SequencesInv'
  <2>1. IsSeq(samples)
    <3>1. samples \in Seq(Range(samples))
          BY InputsAssumption
    <3>2. Range(samples) = Entries(samples)
          BY <3>1, LenProperties DEF Range, Entries
    <3>3. QED
          BY <3>1, <3>2 DEF IsSeq
  <2>2. QED
        BY <1>1, <1>2, <2>1 DEF PInv, SequencesInv
<1>5. Len(input') \in Nat
      BY <1>1, <1>4, AnySeq DEF SequencesInv
<1>6. FullBatches(0)
      BY SizesAssumption DEF FullBatches
<1>7. PlaceOfSamples' /\ ResultsInv' /\ BatchesInv' /\ ChecksInv'
      BY <1>1, <1>2, <1>3, <1>5, <1>6, SizesAssumption
         DEF PlaceOfSamples, ResultsInv, BatchesInv, ChecksInv
<1>8. QED
      BY <1>4, <1>7 DEF PInv

LEMMA ReadSampleKeeps == PInv /\ ReadSample => PInv'
<1> SUFFICES ASSUME PInv, ReadSample PROVE PInv'
    OBVIOUS
<1> USE DEF PInv
<1>1. /\ phase = "reading" /\ Len(batch) < BatchSize /\ reader # <<>> /\ Valid(Head(reader))
      /\ batch' = Append(batch, Head(reader)) /\ reader' = Tail(reader)
      /\ UNCHANGED <<phase, input, tagged, results, answer>>
      BY DEF ReadSample
<1>2. /\ Len(reader) \in Nat \ {0} /\ Head(reader) = reader[1]
      /\ IsSeq(reader') /\ Len(reader') = Len(reader) - 1
      /\ \A k \in 1..Len(reader) - 1 : reader'[k] = reader[k + 1]
      BY <1>1, AnyTail DEF SequencesInv
<1>3. /\ IsSeq(batch') /\ Len(batch') = Len(batch) + 1
      /\ \A k \in 1..Len(batch) : batch'[k] = batch[k]
      /\ batch'[Len(batch) + 1] = Head(reader)
      BY <1>1, AnyAppend DEF SequencesInv
<1>4. Len(batch) \in Nat /\ Len(results) \in Nat /\ Len(input) \in Nat
      BY Lengths
<1>5. SequencesInv'
      BY <1>1, <1>2, <1>3 DEF SequencesInv
<1>6. Head(reader) = input[Len(results) + Len(batch) + 1]
  <2>1. 1 \in 1..Len(reader)
        BY <1>2
  <2>2. QED
        BY <1>2, <2>1 DEF PlaceOfSamples
<1>7. PlaceOfSamples'
  <2>1. ASSUME NEW k \in 1..Len(batch') PROVE batch'[k] = input[Len(results) + k]
    <3>1. CASE k \in 1..Len(batch)
          BY <1>3, <3>1 DEF PlaceOfSamples
    <3>2. CASE k = Len(batch) + 1
      <4>1. Len(results) + k = Len(results) + Len(batch) + 1
            BY <1>4, <3>2
      <4>2. QED
            BY <1>3, <1>6, <3>2, <4>1
    <3>3. QED
          BY <1>3, <1>4, <3>1, <3>2
  <2>2. \A k \in 1..Len(reader') : reader'[k] = input[Len(results) + Len(batch') + k]
        BY <1>2, <1>3, <1>4 DEF PlaceOfSamples
  <2>3. QED
        BY <1>1, <1>2, <1>3, <1>4, <2>1, <2>2, SizesAssumption DEF PlaceOfSamples
<1>8. BatchesInv' /\ ResultsInv'
      BY <1>1 DEF BatchesInv, ResultsInv
<1>9. ChecksInv'
  <2>1. ASSUME NEW k \in 1..Len(results) + Len(batch') PROVE Valid(input[k])
    <3>1. k \in 1..Len(results) + Len(batch) \/ k = Len(results) + Len(batch) + 1
          BY <1>3, <1>4
    <3>2. QED
          BY <1>1, <1>6, <3>1 DEF ChecksInv
  <2>2. QED
        BY <1>1, <2>1 DEF ChecksInv, Oversized, Valid
<1>10. QED
       BY <1>5, <1>7, <1>8, <1>9

LEMMA RejectSampleKeeps == PInv /\ RejectSample => PInv'
<1> SUFFICES ASSUME PInv, RejectSample PROVE PInv'
    OBVIOUS
<1> USE DEF PInv
<1>1. /\ phase = "reading" /\ Len(batch) < BatchSize /\ reader # <<>> /\ ~Valid(Head(reader))
      /\ phase' = "failed" /\ UNCHANGED <<input, reader, batch, tagged, results, answer>>
      BY DEF RejectSample, Fields
<1> DEFINE k == Len(results) + Len(batch) + 1
<1>2. Len(batch) \in Nat /\ Len(results) \in Nat /\ Len(reader) \in Nat \ {0}
      BY <1>1, Lengths
<1>3. k \in 1..Len(input) /\ Oversized(input[k]) /\ Len(results) < k /\ k <= Len(results) + BatchSize
  <2>1. 1 \in 1..Len(reader) /\ Head(reader) = reader[1]
        BY <1>1, <1>2, AnyTail DEF SequencesInv
  <2>2. Head(reader) = input[k]
        BY <2>1 DEF PlaceOfSamples
  <2>3. QED
        BY <1>1, <1>2, <2>2, SizesAssumption DEF PlaceOfSamples, Oversized
<1> HIDE DEF k
<1>4. SequencesInv' /\ PlaceOfSamples' /\ ResultsInv'
      BY <1>1 DEF SequencesInv, PlaceOfSamples, ResultsInv
<1>5. BatchesInv'
      BY <1>1 DEF BatchesInv
<1>6. ChecksInv'
      BY <1>1, <1>3 DEF ChecksInv, Oversized, Valid
<1>7. QED
      BY <1>4, <1>5, <1>6

LEMMA AssembleKeeps == PInv /\ (AssembleBatch \/ EndOfInput) => PInv'
<1> SUFFICES ASSUME PInv, AssembleBatch \/ EndOfInput PROVE PInv'
    OBVIOUS
<1> USE DEF PInv
<1>1. /\ UNCHANGED <<input, reader, batch, tagged, results, answer>> /\ phase = "reading"
      /\ \/ phase' = "tagging" /\ batch # <<>> /\ (Len(batch) = BatchSize \/ reader = <<>>)
         \/ phase' = "finished" /\ batch = <<>> /\ reader = <<>>
      BY DEF AssembleBatch, EndOfInput, BatchComplete, Fields
<1>2. QED
      BY <1>1 DEF SequencesInv, PlaceOfSamples, ResultsInv, BatchesInv, ChecksInv, Oversized, Valid

LEMMA PredictTagsKeeps == PInv /\ PredictTags => PInv'
<1> SUFFICES ASSUME PInv, PredictTags PROVE PInv'
    OBVIOUS
<1> USE DEF PInv
<1>1. phase = "tagging" /\ UNCHANGED <<input, reader, batch, results, answer>>
      BY DEF PredictTags
<1>2. /\ Len(batch) \in Nat /\ Len(results) \in Nat /\ DOMAIN batch = 1..Len(batch)
      /\ \A k \in 1..Len(batch) : k <= BatchSize /\ Len(results) + k \in 1..Len(input)
      BY Lengths
<1>3. \A k \in 1..Len(batch) : /\ batch[k] = input[Len(results) + k]
                               /\ Valid(batch[k]) /\ Len(batch[k].text) \in Nat
  <2>1. \A k \in 1..Len(batch) : Len(results) + k \in 1..Len(results) + Len(batch)
        BY <1>2
  <2>2. QED
        BY <1>2, <2>1, InputIsASeq DEF PlaceOfSamples, ChecksInv
<1>4. ASSUME NEW j \in 1..Len(batch), Len(batch[j].text) > MaxSequenceLength,
             phase' = "failed", UNCHANGED tagged
      PROVE  PInv'
  <2>1. SequencesInv' /\ PlaceOfSamples' /\ ResultsInv' /\ BatchesInv'
        BY <1>1, <1>4 DEF SequencesInv, PlaceOfSamples, ResultsInv, BatchesInv
  <2>2. PICK k \in 1..Len(input) : k = Len(results) + j
        BY <1>2
  <2>3. Oversized(input[k]) /\ Len(results) < k /\ k <= Len(results) + BatchSize
        BY <1>2, <1>3, <1>4, <2>2, SizesAssumption DEF Oversized
  <2>4. ChecksInv'
        BY <1>1, <1>4, <2>3 DEF ChecksInv, Oversized, Valid
  <2>5. QED
        BY <2>1, <2>4
<1>5. ASSUME \A k \in DOMAIN batch : ~(Len(batch[k].text) > MaxSequenceLength),
             phase' = "processing", tagged' = WithTags(batch)
      PROVE  PInv'
  <2>1. tagged' = batch
    <3>1. TextsOf(batch)
          BY <1>2, <1>3, InputIsASeq DEF TextsOf
    <3>2. QED
          BY <1>5, <3>1, NoSentenceIsLeftOut DEF SequencesInv
  <2>2. SequencesInv' /\ PlaceOfSamples' /\ ResultsInv'
        BY <1>1, <1>5, <2>1 DEF SequencesInv, PlaceOfSamples, ResultsInv
  <2>3. BatchesInv'
    <3>1. FullBatches(Len(results) + BatchSize)
          BY <1>1, <1>2, OneMoreBatch DEF BatchesInv
    <3>2. QED
          BY <1>1, <1>5, <3>1 DEF BatchesInv
  <2>4. ChecksInv'
    <3>1. \A k \in 1..Len(batch) : ~Oversized(batch[k])
          BY <1>2, <1>3, <1>5 DEF Oversized
    <3>2. QED
          BY <1>1, <1>5, <3>1 DEF ChecksInv, Oversized, Valid
  <2>5. QED
        BY <2>2, <2>3, <2>4
<1>6. QED
      BY <1>2, <1>4, <1>5 DEF PredictTags

LEMMA PostProcessKeeps == PInv /\ PostProcess => PInv'
<1> SUFFICES ASSUME PInv, PostProcess PROVE PInv'
    OBVIOUS
<1> USE DEF PInv
<1>1. /\ phase = "processing" /\ UNCHANGED <<phase, input, reader, answer>>
      /\ tagged = batch /\ batch # <<>>
      /\ batch' = Tail(batch) /\ tagged' = Tail(batch)
      BY DEF PostProcess, PlaceOfSamples
<1>2. PICK e : results' = Append(results, e) /\ ResultOf(e, Head(batch))
      BY <1>1 DEF PostProcess, ResultOf
<1>3. /\ Len(batch) \in Nat \ {0} /\ Head(batch) = batch[1]
      /\ IsSeq(batch') /\ Len(batch') = Len(batch) - 1
      /\ \A k \in 1..Len(batch) - 1 : batch'[k] = batch[k + 1]
      BY <1>1, AnyTail DEF SequencesInv
<1>4. /\ IsSeq(results') /\ Len(results') = Len(results) + 1
      /\ \A k \in 1..Len(results) : results'[k] = results[k]
      /\ results'[Len(results) + 1] = e
      BY <1>2, AnyAppend DEF SequencesInv
<1>5. Len(results) \in Nat /\ Len(reader) \in Nat /\ Len(input) \in Nat
      BY Lengths
<1>6. Len(results') + Len(batch') = Len(results) + Len(batch)
      BY <1>3, <1>4, <1>5
<1>7. batch[1] = input[Len(results) + 1]
  <2>1. 1 \in 1..Len(batch)
        BY <1>3
  <2>2. QED
        BY <2>1 DEF PlaceOfSamples
<1>8. SequencesInv'
      BY <1>1, <1>3, <1>4 DEF SequencesInv
<1>9. PlaceOfSamples'
  <2>1. ASSUME NEW k \in 1..Len(batch') PROVE batch'[k] = input[Len(results') + k]
    <3>1. k \in 1..Len(batch) - 1 /\ k + 1 \in 1..Len(batch)
          BY <1>3
    <3>2. Len(results) + (k + 1) = Len(results') + k
          BY <1>4, <1>5
    <3>3. QED
          BY <1>3, <3>1, <3>2 DEF PlaceOfSamples
  <2>2. Len(batch') <= BatchSize
        BY <1>3, SizesAssumption DEF PlaceOfSamples
  <2>3. QED
        BY <1>1, <1>6, <2>1, <2>2 DEF PlaceOfSamples
<1>10. ResultsInv'
  <2>1. ASSUME NEW k \in 1..Len(results')
        PROVE  ResultOf(results'[k], input[k])
    <3>1. CASE k \in 1..Len(results)
          BY <1>4, <3>1 DEF ResultsInv
    <3>2. CASE k = Len(results) + 1
          BY <1>2, <1>3, <1>4, <1>7, <3>2
    <3>3. QED
          BY <1>4, <1>5, <3>1, <3>2
  <2>2. QED
        BY <1>1, <2>1 DEF ResultsInv
<1>11. BatchesInv'
       BY <1>1, <1>6 DEF BatchesInv
<1>12. ChecksInv'
  <2>1. ~Oversized(batch[1])
    <3>1. 1 \in 1..Len(batch)
          BY <1>3
    <3>2. QED
          BY <1>1, <3>1 DEF ChecksInv
  <2>2. \A k \in 1..Len(results') : ~Oversized(input[k])
    <3>1. \A k \in 1..Len(results') : k \in 1..Len(results) \/ k = Len(results) + 1
          BY <1>4, <1>5
    <3>2. QED
          BY <1>7, <2>1, <3>1 DEF ChecksInv
  <2>3. \A k \in 1..Len(batch') : ~Oversized(batch'[k])
    <3>1. \A k \in 1..Len(batch') : k \in 1..Len(batch) - 1 /\ k + 1 \in 1..Len(batch)
          BY <1>3
    <3>2. \A k \in 1..Len(batch) : ~Oversized(batch[k])
          BY <1>1 DEF ChecksInv
    <3>3. QED
          BY <1>3, <3>1, <3>2
  <2>4. \A sample : (Oversized(sample))' <=> Oversized(sample)
        BY DEF Oversized, Valid
  <2>5. QED
        BY <1>1, <1>6, <2>2, <2>3 DEF ChecksInv, Oversized, Valid
<1>13. QED
       BY <1>8, <1>9, <1>10, <1>11, <1>12

LEMMA BatchDoneKeeps == PInv /\ BatchDone => PInv'
<1> SUFFICES ASSUME PInv, BatchDone PROVE PInv'
    OBVIOUS
<1> USE DEF PInv
<1>1. /\ phase = "processing" /\ phase' = "reading" /\ batch = <<>> /\ tagged = <<>>
      /\ UNCHANGED <<input, reader, batch, tagged, results, answer>>
      BY DEF BatchDone, PlaceOfSamples
<1>2. Len(batch) = 0 /\ Len(results) + Len(batch) = Len(results)
      BY <1>1, Lengths
<1>3. QED
      BY <1>1, <1>2 DEF SequencesInv, PlaceOfSamples, ResultsInv, BatchesInv, ChecksInv,
         Oversized, Valid

LEMMA SendResultsKeeps == PInv /\ SendResults => PInv'
<1> SUFFICES ASSUME PInv, SendResults PROVE PInv'
    OBVIOUS
<1>1. /\ phase = "finished" /\ phase' = "answered" /\ answer' = results
      /\ UNCHANGED <<input, reader, batch, tagged, results>>
      BY DEF SendResults
<1>2. QED
      BY <1>1 DEF PInv, SequencesInv, PlaceOfSamples, ResultsInv, BatchesInv, ChecksInv,
         Oversized, Valid

LEMMA ForgetKeeps == PInv /\ Forget => PInv'
<1> SUFFICES ASSUME PInv, Forget PROVE PInv'
    OBVIOUS
<1>1. /\ phase' = "idle" /\ input' = <<>> /\ reader' = <<>> /\ batch' = <<>>
      /\ tagged' = <<>> /\ results' = <<>> /\ answer' = <<>>
      BY DEF Forget
<1>2. IsSeq(<<>>) /\ Len(<<>>) = 0
      BY AnyEmpty
<1>3. QED
      BY <1>1, <1>2, SizesAssumption
         DEF PInv, SequencesInv, PlaceOfSamples, ResultsInv, BatchesInv, ChecksInv

(* The database is loaded before the first request and left alone then.    *)
LEMMA PipelineAlways == StructuringSpec => []PInv
<1>1. StructuringInit => PInv
      BY InitPipeline DEF StructuringInit
<1>2. PInv /\ [Load \/ Serve]_allVars => PInv'
  <2>1. PInv /\ UNCHANGED vars => PInv'
        BY DEF vars, PInv, SequencesInv, PlaceOfSamples, ResultsInv, BatchesInv, ChecksInv,
           Oversized, Valid
  <2>2. PInv /\ Next => PInv'
        BY RunKeeps, ReadSampleKeeps, RejectSampleKeeps, AssembleKeeps, PredictTagsKeeps,
           PostProcessKeeps, BatchDoneKeeps, SendResultsKeeps, ForgetKeeps
           DEF Next, Assemble, Process
  <2>3. QED
        BY <2>1, <2>2 DEF Load, Serve, allVars
<1>3. QED
      BY <1>1, <1>2, PTL DEF StructuringSpec

-----------------------------------------------------------------------------
(***************************************************************************)
(* What follows.                                                           *)
(***************************************************************************)

(* The batch and the unread samples are always pieces of the input, and a  *)
(* batch has no more than batch_size samples (TypeOK).                     *)
THEOREM PipelineTypeCorrect == StructuringSpec => []TypeOK
<1>1. PInv => TypeOK
  <2> SUFFICES ASSUME PInv PROVE TypeOK
      OBVIOUS
  <2> USE DEF PInv
  <2>1. /\ Len(input) \in Nat /\ Len(reader) \in Nat /\ Len(batch) \in Nat
        /\ Len(results) \in Nat /\ Taken = Len(results) + Len(batch)
        /\ Len(results) + Len(batch) + Len(reader) = Len(input)
        BY Lengths DEF PlaceOfSamples
  <2>2. input \in Seq(Entries(input))
        BY InputIsASeq DEF IsSeq
  <2>3. ASSUME NEW s, IsSeq(s), NEW n \in Nat, n + Len(s) <= Len(input),
               \A k \in 1..Len(s) : s[k] = input[n + k]
        PROVE  s = SubSeq(input, n + 1, n + Len(s))
    <3>1. Len(s) \in Nat
          BY <2>3, AnySeq
    <3>2. \A i \in n + 1..n + Len(s) : input[i] \in Entries(input)
          BY <2>1, <2>3, <3>1 DEF Entries
    <3>3. /\ SubSeq(input, n + 1, n + Len(s)) \in Seq(Entries(input))
          /\ Len(SubSeq(input, n + 1, n + Len(s))) = Len(s)
          /\ \A k \in 1..Len(s) : SubSeq(input, n + 1, n + Len(s))[k] = input[n + k]
      <4>1. n + 1 \in Int /\ n + Len(s) \in Int
            BY <3>1
      <4>2. (n + Len(s)) - (n + 1) + 1 = Len(s) /\ (n + 1 <= n + Len(s) <=> 1 <= Len(s))
            BY <3>1
      <4>3. \A k \in 1..Len(s) : (n + 1) + k - 1 = n + k
            BY <3>1
      <4>4. /\ SubSeq(input, n + 1, n + Len(s)) \in Seq(Entries(input))
            /\ Len(SubSeq(input, n + 1, n + Len(s))) =
                 IF n + 1 <= n + Len(s) THEN (n + Len(s)) - (n + 1) + 1 ELSE 0
            /\ \A i \in 1..(n + Len(s)) - (n + 1) + 1 :
                 SubSeq(input, n + 1, n + Len(s))[i] = input[(n + 1) + i - 1]
            BY <3>2, <4>1, SubSeqProperties
      <4>5. QED
            BY <3>1, <4>2, <4>3, <4>4
    <3>4. s \in Seq(Entries(input) \cup Entries(s))
          BY <2>3, SeqMonotonic DEF IsSeq
    <3>5. SubSeq(input, n + 1, n + Len(s)) \in Seq(Entries(input) \cup Entries(s))
          BY <3>3, SeqMonotonic
    <3>6. QED
          BY <2>3, <3>3, <3>4, <3>5, SeqEqual
  <2>4. batch = SubSeq(input, Len(results) + 1, Len(results) + Len(batch))
    <3>1. /\ IsSeq(batch) /\ Len(results) + Len(batch) <= Len(input)
          /\ \A k \in 1..Len(batch) : batch[k] = input[Len(results) + k]
          BY <2>1 DEF SequencesInv, PlaceOfSamples
    <3>2. QED
          BY <2>1, <2>3, <3>1
  <2>5. reader = SubSeq(input, Len(results) + Len(batch) + 1,
                               Len(results) + Len(batch) + Len(reader))
    <3>1. PICK n \in Nat : n = Len(results) + Len(batch)
          BY <2>1
    <3>2. /\ IsSeq(reader) /\ n + Len(reader) <= Len(input)
          /\ \A k \in 1..Len(reader) : reader[k] = input[n + k]
          BY <2>1, <3>1 DEF SequencesInv, PlaceOfSamples
    <3>3. reader = SubSeq(input, n + 1, n + Len(reader))
          BY <2>3, <3>2
    <3>4. QED
          BY <3>1, <3>3
  <2>6. Taken - Len(batch) + 1 = Len(results) + 1
        BY <2>1, SMTT(40)
  <2>7. QED
        BY <2>1, <2>4, <2>5, <2>6 DEF TypeOK, SequencesInv, PlaceOfSamples
<1>2. QED
      BY <1>1, PipelineAlways, PTL

(* The k-th result is made of the tags and the texts of the k-th sample,   *)
(* though the stages are joined by position, and an answer has a result    *)
(* for every sample (EachResultIsOfItsSample).                             *)
THEOREM ResultsBelongToTheirSamples == StructuringSpec => []EachResultIsOfItsSample
<1>1. PInv => EachResultIsOfItsSample
  <2> SUFFICES ASSUME PInv PROVE EachResultIsOfItsSample
      OBVIOUS
  <2> USE DEF PInv
  <2>1. /\ Len(input) \in Nat /\ Len(reader) \in Nat /\ Len(batch) \in Nat /\ Len(results) \in Nat
        /\ DOMAIN results = 1..Len(results) /\ Len(results) + Len(batch) + Len(reader) = Len(input)
        BY Lengths DEF PlaceOfSamples
  <2>2. \A k \in 1..Len(results) : k <= Len(input)
        BY <2>1
  <2>3. phase = "answered" => answer = results /\ Len(results) = Len(input)
        BY <2>1, AnyEmpty DEF PlaceOfSamples, ResultsInv
  <2>4. QED
        BY <2>1, <2>2, <2>3 DEF EachResultIsOfItsSample, ResultsInv, ResultOf
<1>2. QED
      BY <1>1, PipelineAlways, PTL

(* The postcodes of the latest result are right: each stands in the text   *)
(* of its sample, completed as its country completes it, and its towns are *)
(* those of the dictionary; and none that stands there is left out but for *)
(* a match of the same shape that overlaps it from the left. RunnerPostco- *)
(* deMatch.match and find_postcode_town_matches, for every table of post-  *)
(* codes and every text (PostcodesAreThoseOfTheText).                      *)
THEOREM PostcodesStandInTheirText == StructuringSpec => []PostcodesAreThoseOfTheText
<1>1. PInv => PostcodesAreThoseOfTheText
  <2> SUFFICES ASSUME PInv, phase = "processing", results # <<>>
               PROVE  PostcodesAreThoseOfTheText
      BY DEF PostcodesAreThoseOfTheText
  <2> USE DEF PInv
  <2> DEFINE n == Len(results)
             sample == input[n]
             text == Cleaned(sample.text)
             found == Last(results).postcodes
  <2>1. n \in Nat \ {0} /\ n \in 1..Len(input) /\ n \in 1..Len(results)
    <3>1. /\ IsSeq(results) /\ Len(results) \in Nat /\ Len(batch) \in Nat /\ Len(reader) \in Nat
          /\ Len(results) + Len(batch) + Len(reader) = Len(input)
          BY Lengths DEF SequencesInv, PlaceOfSamples
    <3>2. Len(results) # 0
          BY <3>1, AnySeq
    <3>3. QED
          BY <3>1, <3>2
  <2>2. found = UNION {TownMatches(g, text) : g \in Groups}
    <3>1. Last(results) = results[n]
          BY DEF Last
    <3>2. found = PostcodeMatches(sample.text)
          BY <2>1, <3>1 DEF ResultsInv, ResultOf
    <3>3. QED
          BY <3>2 DEF PostcodeMatches
  <2>3. IsSeq(text) /\ Len(text) \in Nat
    <3>1. sample.text \in Seq(Range(sample.text)) /\ Len(sample.text) \in Nat
          BY <2>1, InputIsASeq
    <3>2. sample.text = [i \in 1..Len(sample.text) |-> sample.text[i]]
          BY <3>1, LenProperties
    <3>3. IsSeq(sample.text)
          BY <3>1, <3>2, AnyListing
    <3>4. QED
          BY <3>3, CleanedIsSeq, AnySeq
  <2> HIDE DEF found, text, PInv
  <2>4. ASSUME NEW m \in found
        PROVE  \E g \in Groups : \E code \in DOMAIN Dictionary[g] :
                 /\ [possibility |-> m.possibility, origin |-> m.origin] \in Dictionary[g][code]
                 /\ m.end \in EndsAt(text, g, code, m.start)
    <3>1. PICK g \in Groups : m \in TownMatches(g, text)
          BY <2>2
    <3>2. QED
          BY <2>3, <3>1, FoundStands
  <2>5. ASSUME NEW g \in Groups, NEW code \in DOMAIN Dictionary[g], NEW i \in 0..Len(text) - 1,
               EndsAt(text, g, code, i) # {}
        PROVE  \/ \A e \in EndsAt(text, g, code, i), entry \in Dictionary[g][code] :
                     FoundAt(i, e, entry) \in found
               \/ Preempted(text, g, code, i)
    <3>1. TownMatches(g, text) \subseteq found
          BY <2>2
    <3>2. \/ \A e \in EndsAt(text, g, code, i), entry \in Dictionary[g][code] :
                FoundAt(i, e, entry) \in TownMatches(g, text)
          \/ Preempted(text, g, code, i)
          BY <2>3, <2>5, StandingIsFound
    <3>3. QED
          BY <3>1, <3>2
  <2>6. QED
        BY <2>4, <2>5 DEF PostcodesAreThoseOfTheText, text, found
<1>2. QED
      BY <1>1, PipelineAlways, PTL

(* The batch of a sample, counted from 0.                                  *)
LEMMA BatchOf ==
  ASSUME NEW n \in Nat, FullBatches(n), NEW k \in Nat, n < k, k <= n + BatchSize
  PROVE  n = BatchSize * ((k - 1) \div BatchSize)
<1>1. PICK q \in Nat : n = BatchSize * q
      BY DEF FullBatches
<1> DEFINE m == k - 1 - n
<1>2. m \in 0..BatchSize - 1 /\ k - 1 = BatchSize * q + m
      BY <1>1, SizesAssumption
<1> HIDE DEF m
<1>3. (BatchSize * q + m) \div BatchSize = q
      BY <1>2, SizesAssumption
<1>4. QED
      BY <1>1, <1>2, <1>3

(* A request fails exactly when it has a sample that is too long before or *)
(* after cleaning, and the results that are lost are those from the batch  *)
(* of the first such sample on (FailureCostsItsBatch).                     *)
THEOREM OneSampleCostsItsBatch == StructuringSpec => []FailureCostsItsBatch
<1>1. PInv => FailureCostsItsBatch
  <2> SUFFICES ASSUME PInv PROVE FailureCostsItsBatch
      OBVIOUS
  <2> USE DEF PInv
  <2> DEFINE bad == {k \in DOMAIN input : Oversized(input[k])}
  <2>1. /\ Len(input) \in Nat /\ Len(reader) \in Nat /\ Len(batch) \in Nat /\ Len(results) \in Nat
        /\ DOMAIN input = 1..Len(input) /\ Len(results) + Len(batch) + Len(reader) = Len(input)
        BY Lengths DEF PlaceOfSamples
  <2>2. \A k \in bad : k \in Nat /\ Len(results) < k
    <3>1. \A k \in bad : k \in 1..Len(input) /\ k \notin 1..Len(results)
          BY <2>1 DEF ChecksInv
    <3>2. QED
          BY <2>1, <3>1
  <2>3. ASSUME phase = "failed"
        PROVE  \E k \in bad : /\ \A j \in bad : k <= j
                              /\ Len(results) = BatchSize * ((k - 1) \div BatchSize)
    <3>1. PICK j \in bad : j <= Len(results) + BatchSize
          BY <2>1, <2>3 DEF ChecksInv
    <3>2. bad \subseteq Nat /\ bad # {}
          BY <2>2, <3>1
    <3> HIDE DEF bad
    <3>3. PICK k \in bad : \A i \in bad : k <= i
          BY <3>2, LeastElement
    <3>4. k \in Nat /\ Len(results) < k /\ k <= Len(results) + BatchSize
      <4>1. k \in Nat /\ j \in Nat /\ k <= j
            BY <3>1, <3>2, <3>3
      <4>2. QED
            BY <2>1, <2>2, <3>1, <4>1, SizesAssumption
    <3>5. FullBatches(Len(results))
          BY <2>3 DEF BatchesInv
    <3>6. QED
          BY <2>1, <3>3, <3>4, <3>5, BatchOf
  <2>4. ASSUME phase \in {"finished", "answered"} PROVE bad = {}
    <3>1. Len(results) = Len(input)
          BY <2>1, <2>4, AnyEmpty DEF PlaceOfSamples
    <3>2. QED
          BY <2>1, <3>1 DEF ChecksInv
  <2>5. QED
        BY <2>3, <2>4 DEF FailureCostsItsBatch
<1>2. QED
      BY <1>1, PipelineAlways, PTL

(* The chain of generators reads at most one batch ahead of its results    *)
(* (ReadAheadIsBounded).                                                   *)
THEOREM OneBatchAhead == StructuringSpec => []ReadAheadIsBounded
<1>1. PInv => ReadAheadIsBounded
  <2> SUFFICES ASSUME PInv PROVE ReadAheadIsBounded
      OBVIOUS
  <2>1. /\ Taken = Len(results) + Len(batch) /\ Len(results) \in Nat /\ Len(batch) \in Nat
        /\ Len(batch) <= BatchSize
        BY Lengths DEF PInv, PlaceOfSamples
  <2>2. QED
        BY <2>1, SizesAssumption DEF ReadAheadIsBounded
<1>2. QED
      BY <1>1, PipelineAlways, PTL
=============================================================================
