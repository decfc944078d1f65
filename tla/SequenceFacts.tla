---------------------------- MODULE SequenceFacts ----------------------------
(***************************************************************************)
(* Facts about sequences and sums on which the proofs of several modules   *)
(* rest: what a queue holds after an entry has come or gone, what a filter *)
(* and a sort leave, and in which orders a sum over a set may be taken.    *)
(***************************************************************************)
EXTENDS Integers, Sequences, FiniteSets, SequencesExt, Lists, SequenceTheorems, FiniteSetTheorems,
        WellFoundedInduction, TLAPS

Entries(s) == {s[i] : i \in 1..Len(s)}

Distinct(s) == \A i, j \in 1..Len(s) : s[i] = s[j] => i = j

(* An entry is appended.                                                   *)
LEMMA EntriesOfAppend ==
  ASSUME NEW S, NEW s \in Seq(S), NEW e \in S
  PROVE  /\ Append(s, e) \in Seq(S) /\ Len(Append(s, e)) = Len(s) + 1
         /\ Entries(Append(s, e)) = Entries(s) \cup {e}
         /\ Distinct(s) /\ e \notin Entries(s) => Distinct(Append(s, e))
<1>1. /\ Append(s, e) \in Seq(S) /\ Len(Append(s, e)) = Len(s) + 1
      /\ \A i \in 1..Len(s) : Append(s, e)[i] = s[i]
      /\ Append(s, e)[Len(s) + 1] = e
      BY AppendProperties
<1>2. Len(s) \in Nat
      OBVIOUS
<1>3. Entries(Append(s, e)) = Entries(s) \cup {e}
      BY <1>1, <1>2 DEF Entries
<1>4. Distinct(s) /\ e \notin Entries(s) => Distinct(Append(s, e))
      BY <1>1, <1>2 DEF Entries, Distinct
<1>5. QED
      BY <1>1, <1>3, <1>4

(* The first entry is taken.                                               *)
LEMMA EntriesOfTail ==
  ASSUME NEW S, NEW s \in Seq(S), s # <<>>
  PROVE  /\ Head(s) \in S /\ Head(s) = s[1] /\ 1 \in 1..Len(s)
         /\ Tail(s) \in Seq(S) /\ Len(Tail(s)) = Len(s) - 1
         /\ Entries(s) = {Head(s)} \cup Entries(Tail(s))
         /\ Distinct(s) => Distinct(Tail(s)) /\ Head(s) \notin Entries(Tail(s))
<1>1. /\ Head(s) \in S /\ Tail(s) \in Seq(S) /\ Len(Tail(s)) = Len(s) - 1
      /\ \A i \in 1..Len(Tail(s)) : Tail(s)[i] = s[i + 1]
      BY HeadTailProperties
<1>2. Len(s) \in Nat \ {0} /\ Head(s) = s[1]
      BY EmptySeq
<1>3. \A i \in 2..Len(s) : s[i] = Tail(s)[i - 1]
      BY <1>1, <1>2
<1>4. Entries(s) = {Head(s)} \cup Entries(Tail(s))
  <2>1. ASSUME NEW i \in 1..Len(s) PROVE s[i] \in {Head(s)} \cup Entries(Tail(s))
    <3>1. CASE i = 1
          BY <1>2, <3>1
    <3>2. CASE i # 1
      <4>1. i \in 2..Len(s) /\ i - 1 \in 1..Len(Tail(s))
            BY <1>1, <1>2, <3>2
      <4>2. QED
            BY <1>3, <4>1 DEF Entries
    <3>3. QED
          BY <3>1, <3>2
  <2>2. ASSUME NEW i \in 1..Len(Tail(s)) PROVE Tail(s)[i] \in Entries(s)
    <3>1. i + 1 \in 1..Len(s) /\ Tail(s)[i] = s[i + 1]
          BY <1>1, <1>2
    <3>2. QED
          BY <3>1 DEF Entries
  <2>3. Head(s) \in Entries(s)
        BY <1>2 DEF Entries
  <2>4. QED
        BY <2>1, <2>2, <2>3 DEF Entries
<1>5. Distinct(s) => Distinct(Tail(s)) /\ Head(s) \notin Entries(Tail(s))
      BY <1>1, <1>2 DEF Entries, Distinct
<1>6. QED
      BY <1>1, <1>2, <1>4, <1>5

(* An entry is removed, wherever it stands.                                *)
LEMMA EntriesOfRemoveAt ==
  ASSUME NEW S, NEW s \in Seq(S), NEW i \in 1..Len(s)
  PROVE  /\ RemoveAt(s, i) \in Seq(S) /\ Len(RemoveAt(s, i)) = Len(s) - 1
         /\ Entries(s) = {s[i]} \cup Entries(RemoveAt(s, i))
         /\ Distinct(s) => Distinct(RemoveAt(s, i))
<1> DEFINE a == SubSeq(s, 1, i - 1)  b == SubSeq(s, i + 1, Len(s))  r == RemoveAt(s, i)
<1>1. Len(s) \in Nat /\ i \in Nat \ {0} /\ \A k \in 1..Len(s) : s[k] \in S
      BY ElementOfSeq
<1>2. /\ a \in Seq(S) /\ Len(a) = i - 1
      /\ \A k \in 1..i - 1 : a[k] = s[k]
  <2>1. \A k \in 1..i - 1 : s[k] \in S
        BY <1>1
  <2>2. /\ a \in Seq(S) /\ Len(a) = IF 1 <= i - 1 THEN (i - 1) - 1 + 1 ELSE 0
        /\ \A k \in 1..(i - 1) - 1 + 1 : a[k] = s[1 + k - 1]
        BY <1>1, <2>1, SubSeqProperties
  <2>3. QED
        BY <1>1, <2>2
<1>3. /\ b \in Seq(S) /\ Len(b) = Len(s) - i
      /\ \A k \in 1..Len(s) - i : b[k] = s[i + k]
  <2>1. \A k \in i + 1..Len(s) : s[k] \in S
        BY <1>1
  <2>2. /\ b \in Seq(S) /\ Len(b) = IF i + 1 <= Len(s) THEN Len(s) - (i + 1) + 1 ELSE 0
        /\ \A k \in 1..Len(s) - (i + 1) + 1 : b[k] = s[i + 1 + k - 1]
        BY <1>1, <2>1, SubSeqProperties
  <2>3. QED
        BY <1>1, <2>2
<1>4. /\ r \in Seq(S) /\ Len(r) = Len(s) - 1
      /\ \A k \in 1..Len(s) - 1 : r[k] = IF k < i THEN s[k] ELSE s[k + 1]
  <2> HIDE DEF a, b
  <2>1. r = a \o b
        BY DEF RemoveAt, a, b
  <2>2. /\ a \o b \in Seq(S) /\ Len(a \o b) = Len(a) + Len(b)
        /\ \A k \in 1..Len(a) + Len(b) :
             (a \o b)[k] = IF k <= Len(a) THEN a[k] ELSE b[k - Len(a)]
        BY <1>2, <1>3, ConcatProperties
  <2> HIDE DEF r
  <2>3. QED
        BY <1>1, <1>2, <1>3, <2>1, <2>2, SMTT(40)
<1> HIDE DEF r
<1>5. Entries(s) = {s[i]} \cup Entries(r)
  <2>1. ASSUME NEW k \in 1..Len(s), k # i PROVE \E j \in 1..Len(r) : r[j] = s[k]
    <3>1. CASE k < i
          BY <1>1, <1>4, <2>1, <3>1
    <3>2. CASE k > i
          <4>1. k - 1 \in 1..Len(r) /\ r[k - 1] = s[k]
                BY <1>1, <1>4, <2>1, <3>2
          <4>2. QED
                BY <4>1
    <3>3. QED
          BY <1>1, <2>1, <3>1, <3>2
  <2>2. ASSUME NEW j \in 1..Len(r) PROVE \E k \in 1..Len(s) : r[j] = s[k]
        BY <1>1, <1>4, <2>2
  <2>3. Entries(s) \subseteq {s[i]} \cup Entries(r)
        BY <2>1 DEF Entries
  <2>4. {s[i]} \cup Entries(r) \subseteq Entries(s)
        BY <2>2 DEF Entries
  <2>5. QED
        BY <2>3, <2>4
<1>6. Distinct(s) => Distinct(r)
      BY <1>1, <1>4 DEF Distinct
<1>7. QED
      BY <1>4, <1>5, <1>6 DEF r

-----------------------------------------------------------------------------
(***************************************************************************)
(* Sequences of whatever they hold.                                        *)
(***************************************************************************)
IsSeq(s) == s \in Seq(Entries(s))

LEMMA AnySeq ==
  ASSUME NEW s, IsSeq(s)
  PROVE  /\ Len(s) \in Nat /\ DOMAIN s = 1..Len(s)
         /\ s = <<>> <=> Len(s) = 0
<1>1. Len(s) \in Nat /\ DOMAIN s = 1..Len(s)
      BY LenProperties DEF IsSeq
<1>2. s = <<>> <=> Len(s) = 0
      BY EmptySeq DEF IsSeq
<1>3. QED
      BY <1>1, <1>2

LEMMA AnyEmpty == IsSeq(<<>>) /\ Len(<<>>) = 0
  BY EmptySeq DEF IsSeq

LEMMA AnyAppend ==
  ASSUME NEW s, IsSeq(s), NEW e
  PROVE  /\ IsSeq(Append(s, e)) /\ Len(Append(s, e)) = Len(s) + 1
         /\ \A i \in 1..Len(s) : Append(s, e)[i] = s[i]
         /\ Append(s, e)[Len(s) + 1] = e
<1> DEFINE S == Entries(s) \cup {e}  t == Append(s, e)
<1>1. s \in Seq(S) /\ e \in S
      BY SeqMonotonic DEF IsSeq
<1>2. /\ t \in Seq(S) /\ Len(t) = Len(s) + 1
      /\ \A i \in 1..Len(s) : t[i] = s[i]
      /\ t[Len(s) + 1] = e
      BY <1>1, AppendProperties
<1>3. Entries(t) = S
      BY <1>1, EntriesOfAppend
<1>4. QED
      BY <1>2, <1>3 DEF IsSeq

LEMMA AnyTail ==
  ASSUME NEW s, IsSeq(s), s # <<>>
  PROVE  /\ Head(s) = s[1] /\ Len(s) \in Nat \ {0}
         /\ IsSeq(Tail(s)) /\ Len(Tail(s)) = Len(s) - 1
         /\ \A i \in 1..Len(s) - 1 : Tail(s)[i] = s[i + 1]
<1>1. s \in Seq(Entries(s)) /\ Len(s) \in Nat \ {0}
      BY EmptySeq DEF IsSeq
<1>2. /\ Head(s) = s[1] /\ Tail(s) \in Seq(Entries(s)) /\ Len(Tail(s)) = Len(s) - 1
      /\ \A i \in 1..Len(Tail(s)) : Tail(s)[i] = s[i + 1]
      BY <1>1, EntriesOfTail, HeadTailProperties
<1>3. Tail(s) \in Seq(Entries(Tail(s)))
  <2>1. \A i \in 1..Len(Tail(s)) : Tail(s)[i] \in Entries(Tail(s))
        BY DEF Entries
  <2>2. Tail(s) = [i \in 1..Len(Tail(s)) |-> Tail(s)[i]] /\ Len(Tail(s)) \in Nat
        BY <1>2, LenProperties
  <2>3. Tail(s) \in [1..Len(Tail(s)) -> Entries(Tail(s))]
        BY <2>1, <2>2
  <2>4. QED
        BY <2>2, <2>3, SeqDef
<1>4. QED
      BY <1>1, <1>2, <1>3 DEF IsSeq

(* Two sequences of the same length with the same entries.                 *)
LEMMA AnyEqual ==
  ASSUME NEW s, IsSeq(s), NEW t, IsSeq(t), Len(s) = Len(t),
         \A i \in 1..Len(s) : s[i] = t[i]
  PROVE  s = t
<1>1. s \in Seq(Entries(s) \cup Entries(t)) /\ t \in Seq(Entries(s) \cup Entries(t))
      BY SeqMonotonic DEF IsSeq
<1>2. QED
      BY <1>1, SeqEqual

-----------------------------------------------------------------------------
(***************************************************************************)
(* Induction, as the least counterexample.                                 *)
(***************************************************************************)
LEMMA LeastElement ==
  ASSUME NEW A, A \subseteq Nat, A # {}
  PROVE  \E m \in A : \A k \in A : m <= k
<1>1. PICK m \in A : \A k \in A : ~(<<k, m>> \in OpToRel(<, Nat))
      BY NatLessThanWellFounded, WFMin
<1>2. ASSUME NEW k \in A PROVE m <= k
  <2>1. k \in Nat /\ m \in Nat
        OBVIOUS
  <2>2. ~(k < m)
        BY <1>1, <2>1 DEF OpToRel
  <2>3. QED
        BY <2>1, <2>2
<1>3. QED
      BY <1>2
Solves(f, S, first, N, step) ==
  f \in [0..N -> S] /\ f[0] = first /\ \A n \in 1..N : f[n] = step[<<n, f[n - 1]>>]

(* A recursive definition over 0..N has a solution.                        *)
LEMMA Recursion ==
  ASSUME NEW S, NEW first, NEW N, NEW step,
         first \in S, N \in Nat, step \in [(1..N) \X S -> S]
  PROVE  \E f : Solves(f, S, first, N, step)
<1> DEFINE Fits(f, n) == f[0] = first /\ \A k \in 1..n : f[k] = step[<<k, f[k - 1]>>]
           Unsolved == {n \in 0..N : ~\E f \in [0..n -> S] : Fits(f, n)}
<1>1. ASSUME NEW m \in Unsolved, \A k \in Unsolved : m <= k PROVE FALSE
  <2>1. m # 0
    <3>1. Fits([k \in 0..0 |-> first], 0) /\ [k \in 0..0 |-> first] \in [0..0 -> S]
          OBVIOUS
    <3>2. QED
          BY <1>1, <3>1
  <2>2. m \in 1..N /\ m - 1 \in 0..N /\ m - 1 \notin Unsolved
        BY <1>1, <2>1
  <2>3. PICK f \in [0..m - 1 -> S] : Fits(f, m - 1)
        BY <2>2
  <2> DEFINE g == [k \in 0..m |-> IF k < m THEN f[k] ELSE step[<<m, f[m - 1]>>]]
  <2>4. f[m - 1] \in S /\ step[<<m, f[m - 1]>>] \in S
        BY <2>2
  <2>5. g \in [0..m -> S]
        BY <2>2, <2>4
  <2>6. \A k \in 0..m - 1 : g[k] = f[k]
        BY <2>2
  <2>7. g[m] = step[<<m, f[m - 1]>>]
        BY <2>2
  <2> HIDE DEF g
  <2>8. Fits(g, m)
    <3>1. g[0] = first
          BY <2>2, <2>3, <2>6
    <3>2. ASSUME NEW k \in 1..m PROVE g[k] = step[<<k, g[k - 1]>>]
      <4>1. CASE k = m
        <5>1. g[m - 1] = f[m - 1]
              BY <2>2, <2>6
        <5>2. QED
              BY <2>7, <4>1, <5>1
      <4>2. CASE k # m
        <5>1. k \in 1..m - 1 /\ k \in 0..m - 1 /\ k - 1 \in 0..m - 1
              BY <2>2, <4>2
        <5>2. QED
              BY <2>3, <2>6, <5>1
      <4>3. QED
            BY <4>1, <4>2
    <3>3. QED
          BY <3>1, <3>2
  <2>9. QED
        BY <2>5, <2>8
<1>2. Unsolved = {}
      BY <1>1, LeastElement, Unsolved \subseteq Nat
<1>3. N \in 0..N
      OBVIOUS
<1>4. QED
      BY <1>2, <1>3, ZenonT(60) DEF Solves

-----------------------------------------------------------------------------
(***************************************************************************)
(* Filters: t has the entries of s at the indices in J, in their order.    *)
(***************************************************************************)
Picks(t, s, J) ==
  \E at \in [1..Len(t) -> J] :
    /\ \A k \in 1..Len(t) : t[k] = s[at[k]]
    /\ \A k, l \in 1..Len(t) : k < l => at[k] < at[l]
    /\ \A i \in J : \E k \in 1..Len(t) : at[k] = i

LEMMA PickMore ==
  ASSUME NEW s, NEW t, IsSeq(t), NEW J, NEW n \in Nat, J \subseteq 1..n - 1, Picks(t, s, J)
  PROVE  IsSeq(Append(t, s[n])) /\ Picks(Append(t, s[n]), s, J \cup {n})
<1> DEFINE u == Append(t, s[n])
<1>1. PICK at \in [1..Len(t) -> J] :
        /\ \A k \in 1..Len(t) : t[k] = s[at[k]]
        /\ \A k, l \in 1..Len(t) : k < l => at[k] < at[l]
        /\ \A i \in J : \E k \in 1..Len(t) : at[k] = i
      BY DEF Picks
<1>2. /\ IsSeq(u) /\ Len(u) = Len(t) + 1 /\ Len(t) \in Nat
      /\ \A i \in 1..Len(t) : u[i] = t[i]
      /\ u[Len(t) + 1] = s[n]
      BY AnyAppend, AnySeq
<1> DEFINE more == [k \in 1..Len(t) + 1 |-> IF k <= Len(t) THEN at[k] ELSE n]
<1>3. /\ more \in [1..Len(t) + 1 -> J \cup {n}]
      /\ \A k \in 1..Len(t) : more[k] = at[k] /\ more[k] \in J
      /\ more[Len(t) + 1] = n
      BY <1>1, <1>2
<1> HIDE DEF more, u
<1>4. \A k \in 1..Len(u) : k \in 1..Len(t) \/ k = Len(t) + 1
      BY <1>2
<1>5. \A k \in 1..Len(u) : u[k] = s[more[k]]
      BY <1>1, <1>2, <1>3, <1>4
<1>6. ASSUME NEW k \in 1..Len(u), NEW l \in 1..Len(u), k < l PROVE more[k] < more[l]
  <2>1. k \in 1..Len(t)
        BY <1>2, <1>6
  <2>2. CASE l \in 1..Len(t)
        BY <1>1, <1>3, <1>6, <2>1, <2>2
  <2>3. CASE l = Len(t) + 1
    <3>1. more[k] \in 1..n - 1 /\ more[l] = n
          BY <1>3, <2>1, <2>3
    <3>2. QED
          BY <3>1
  <2>4. QED
        BY <1>4, <2>2, <2>3
<1>7. ASSUME NEW i \in J \cup {n} PROVE \E k \in 1..Len(u) : more[k] = i
  <2>1. CASE i \in J
    <3>1. PICK k \in 1..Len(t) : at[k] = i
          BY <1>1, <2>1
    <3>2. k \in 1..Len(u) /\ more[k] = i
          BY <1>2, <1>3, <3>1
    <3>3. QED
          BY <3>2
  <2>2. CASE i = n
        BY <1>2, <1>3, <2>2
  <2>3. QED
        BY <2>1, <2>2
<1>8. more \in [1..Len(u) -> J \cup {n}]
      BY <1>2, <1>3
<1>9. Picks(u, s, J \cup {n})
      BY <1>5, <1>6, <1>7, <1>8, SMTT(40) DEF Picks
<1>10. QED
      BY <1>2, <1>9 DEF u

LEMMA KeptPicks ==
  ASSUME NEW s, IsSeq(s), NEW I
  PROVE  IsSeq(Kept(s, I)) /\ Picks(Kept(s, I), s, I \cap (1..Len(s)))
<1> DEFINE N == Len(s)
           S == Seq(Entries(s))
           Step(f, n) == IF n = 0 THEN <<>>
                         ELSE IF n \in I THEN Append(f[n - 1], s[n]) ELSE f[n - 1]
           Loop(f) == f = [n \in 0..N |-> Step(f, n)]
           step == [p \in (1..N) \X S |-> IF p[1] \in I THEN Append(p[2], s[p[1]]) ELSE p[2]]
<1>1. N \in Nat /\ \A n \in 1..N : s[n] \in Entries(s)
      BY AnySeq DEF Entries
<1>2. \E f : Loop(f)
  <2>1. <<>> \in S
        BY EmptySeq
  <2>2. ASSUME NEW n \in 1..N, NEW t \in S
        PROVE  (IF n \in I THEN Append(t, s[n]) ELSE t) \in S
        BY <1>1, <2>2, AppendProperties
  <2>3. step \in [(1..N) \X S -> S]
        BY <2>2
  <2>4. \A n \in 1..N, t \in S : step[<<n, t>>] = IF n \in I THEN Append(t, s[n]) ELSE t
        OBVIOUS
  <2> HIDE DEF step, S, N
  <2>5. PICK f \in [0..N -> S] : f[0] = <<>> /\ \A n \in 1..N : f[n] = step[<<n, f[n - 1]>>]
    <3>1. \E f : Solves(f, S, <<>>, N, step)
          BY <1>1, <2>1, <2>3, Recursion
    <3>2. QED
          BY <3>1 DEF Solves
  <2>6. ASSUME NEW n \in 0..N PROVE f[n] = Step(f, n)
    <3>1. CASE n = 0
          BY <2>5, <3>1
    <3>2. CASE n \in 1..N
      <4>1. n - 1 \in 0..N /\ f[n - 1] \in S /\ n # 0
            BY <1>1, <3>2
      <4>2. QED
            BY <2>4, <2>5, <3>2, <4>1
    <3>3. QED
          BY <1>1, <3>1, <3>2
  <2>7. f = [n \in 0..N |-> f[n]]
        OBVIOUS
  <2> HIDE DEF Step
  <2>8. Loop(f)
        BY <2>6, <2>7
  <2>9. QED
        BY <2>8
<1> HIDE DEF N
<1>3. ASSUME NEW f, Loop(f) PROVE IsSeq(f[N]) /\ Picks(f[N], s, I \cap (1..N))
  <2> DEFINE Good(n) == IsSeq(f[n]) /\ Picks(f[n], s, I \cap (1..n))
             Wrong == {n \in 0..N : ~Good(n)}
  <2>1. f[0] = <<>> /\ \A n \in 1..N : f[n] = IF n \in I THEN Append(f[n - 1], s[n]) ELSE f[n - 1]
    <3>1. \A n \in 0..N : f[n] = Step(f, n)
      <4> HIDE DEF Step
      <4>1. QED
            BY <1>3
    <3>2. 0 \in 0..N /\ \A n \in 1..N : n \in 0..N /\ n # 0
          BY <1>1
    <3>3. QED
          BY <3>1, <3>2
  <2>2. Good(0)
    <3>1. [k \in 1..0 |-> 0] \in [1..0 -> {}] /\ I \cap (1..0) = {}
          OBVIOUS
    <3>2. Picks(<<>>, s, {})
          BY <3>1, AnyEmpty DEF Picks
    <3>3. QED
          BY <2>1, <3>1, <3>2, AnyEmpty
  <2>3. ASSUME NEW m \in Wrong, \A k \in Wrong : m <= k PROVE FALSE
    <3>1. m \in 1..N /\ m - 1 \in 0..N /\ m \in Nat
          BY <1>1, <2>2, <2>3
    <3>2. Good(m - 1)
      <4> HIDE DEF Good
      <4>1. QED
            BY <2>3, <3>1
    <3>3. CASE m \in I
      <4>1. I \cap (1..m - 1) \subseteq 1..m - 1
            OBVIOUS
      <4>2. I \cap (1..m) = (I \cap (1..m - 1)) \cup {m}
            BY <3>1, <3>3
      <4>3. f[m] = Append(f[m - 1], s[m])
            BY <2>1, <3>1, <3>3
      <4>4. IsSeq(Append(f[m - 1], s[m])) /\ Picks(Append(f[m - 1], s[m]), s, (I \cap (1..m - 1)) \cup {m})
            BY <3>1, <3>2, <4>1, PickMore
      <4>5. Good(m)
            BY <4>2, <4>3, <4>4
      <4>6. QED
            BY <2>3, <4>5
    <3>4. CASE m \notin I
      <4>1. I \cap (1..m) = I \cap (1..m - 1)
            BY <3>1, <3>4
      <4>2. f[m] = f[m - 1]
            BY <2>1, <3>1, <3>4
      <4>3. Good(m)
            BY <3>2, <4>1, <4>2
      <4>4. QED
            BY <2>3, <4>3
    <3>5. QED
          BY <3>3, <3>4
  <2>4. Wrong = {}
    <3> HIDE DEF Good
    <3>1. Wrong \subseteq Nat
          BY <1>1
    <3>2. QED
          BY <2>3, <3>1, LeastElement
  <2>5. N \in 0..N
        BY <1>1
  <2>6. QED
        BY <2>4, <2>5
<1>4. Kept(s, I) = (CHOOSE f : Loop(f))[N]
      BY SMTT(40) DEF Kept, N
<1>5. Loop(CHOOSE f : Loop(f))
      BY <1>2
<1>6. QED
      BY <1>3, <1>4, <1>5 DEF N
-----------------------------------------------------------------------------
(***************************************************************************)
(* Lists one after the other.                                              *)
(***************************************************************************)
LEMMA AnyConcat ==
  ASSUME NEW s, IsSeq(s), NEW t, IsSeq(t)
  PROVE  IsSeq(s \o t) /\ Len(s \o t) = Len(s) + Len(t) /\ Entries(s \o t) = Entries(s) \cup Entries(t)
<1> DEFINE S == Entries(s) \cup Entries(t)  c == s \o t
<1>1. s \in Seq(S) /\ t \in Seq(S) /\ Len(s) \in Nat /\ Len(t) \in Nat
      BY SeqMonotonic, AnySeq DEF IsSeq
<1>2. /\ c \in Seq(S) /\ Len(c) = Len(s) + Len(t)
      /\ \A k \in 1..Len(s) + Len(t) : c[k] = IF k <= Len(s) THEN s[k] ELSE t[k - Len(s)]
      BY <1>1, ConcatProperties
<1> HIDE DEF c
<1>3. Entries(c) \subseteq S
  <2>1. ASSUME NEW k \in 1..Len(c) PROVE c[k] \in S
    <3>1. CASE k <= Len(s)
          BY <1>1, <1>2, <2>1, <3>1 DEF Entries
    <3>2. CASE k > Len(s)
      <4>1. k - Len(s) \in 1..Len(t) /\ c[k] = t[k - Len(s)]
            BY <1>1, <1>2, <2>1, <3>2
      <4>2. QED
            BY <4>1 DEF Entries
    <3>3. QED
          BY <1>1, <1>2, <2>1, <3>1, <3>2
  <2>2. QED
        BY <2>1 DEF Entries
<1>4. S \subseteq Entries(c)
  <2>1. ASSUME NEW k \in 1..Len(s) PROVE s[k] \in Entries(c)
    <3>1. k \in 1..Len(c) /\ c[k] = s[k]
          BY <1>1, <1>2, <2>1
    <3>2. QED
          BY <3>1 DEF Entries
  <2>2. ASSUME NEW k \in 1..Len(t) PROVE t[k] \in Entries(c)
    <3>1. Len(s) + k \in 1..Len(c) /\ c[Len(s) + k] = t[k]
          BY <1>1, <1>2, <2>2
    <3>2. QED
          BY <3>1 DEF Entries
  <2>3. QED
        BY <2>1, <2>2 DEF Entries
<1>5. Entries(c) = S
      BY <1>3, <1>4
<1>6. QED
      BY <1>2, <1>5 DEF IsSeq, c

LEMMA FlattenEntries ==
  ASSUME NEW ss, IsSeq(ss), \A i \in 1..Len(ss) : IsSeq(ss[i])
  PROVE  IsSeq(FlattenSeq(ss)) /\ Entries(FlattenSeq(ss)) = UNION {Entries(ss[i]) : i \in 1..Len(ss)}
<1> DEFINE N == Len(ss)
           All(n) == UNION {Entries(ss[i]) : i \in 1..n}
           S == Seq(All(N))
           Step(f, i) == IF i = 1 THEN ss[i] ELSE f[i - 1] \o ss[i]
           Loop(f) == f = [i \in 1..N |-> Step(f, i)]
<1>1. N \in Nat /\ DOMAIN ss = 1..N
      BY AnySeq
<1>2. CASE N = 0
  <2>1. FlattenSeq(ss) = ss
        BY <1>2 DEF FlattenSeq
  <2>2. Entries(ss) = {} /\ All(N) = {}
        BY <1>2 DEF Entries
  <2>3. QED
        BY <2>1, <2>2
<1>3. CASE N # 0
  <2>1. N - 1 \in Nat /\ 1 \in 1..N
        BY <1>1, <1>3
  <2>2. ASSUME NEW i \in 1..N PROVE ss[i] \in S
    <3>1. Entries(ss[i]) \subseteq All(N) /\ ss[i] \in Seq(Entries(ss[i]))
          BY DEF IsSeq
    <3>2. QED
          BY <3>1, SeqMonotonic
  <2>3. \E f : Loop(f)
    <3> DEFINE step == [p \in (1..N - 1) \X S |-> p[2] \o ss[p[1] + 1]]
    <3>1. ASSUME NEW n \in 1..N - 1, NEW t \in S PROVE t \o ss[n + 1] \in S
      <4>1. n + 1 \in 1..N
            BY <1>1, <3>1
      <4>2. ss[n + 1] \in S
            BY <2>2, <4>1
      <4>3. QED
            BY <4>2, ConcatProperties
    <3>2. step \in [(1..N - 1) \X S -> S]
          BY <3>1
    <3>3. \A n \in 1..N - 1, t \in S : step[<<n, t>>] = t \o ss[n + 1]
          OBVIOUS
    <3> DEFINE M == N - 1  a == ss[1]
    <3>4. PICK g \in [0..N - 1 -> S] : /\ g[0] = ss[1]
                                       /\ \A n \in 1..N - 1 : g[n] = step[<<n, g[n - 1]>>]
      <4>1. a \in S /\ M \in Nat /\ step \in [(1..M) \X S -> S]
            BY <2>1, <2>2, <3>2
      <4> HIDE DEF step, S, M, a
      <4>2. \E g : Solves(g, S, a, M, step)
            BY <4>1, Recursion
      <4>3. QED
            BY <4>2 DEF Solves, M, a
    <3> HIDE DEF step, S, N
    <3> DEFINE f == [i \in 1..N |-> g[i - 1]]
    <3>5. ASSUME NEW i \in 1..N PROVE f[i] = Step(f, i)
      <4>1. f[i] = g[i - 1]
            OBVIOUS
      <4>2. CASE i = 1
            BY <3>4, <4>1, <4>2
      <4>3. CASE i # 1
        <5>1. i - 1 \in 1..N - 1 /\ (i - 1) - 1 \in 0..N - 1 /\ (i - 1) + 1 = i /\ i - 1 \in 1..N
              BY <1>1, <4>3
        <5>2. g[(i - 1) - 1] \in S
              BY <5>1
        <5>3. g[i - 1] = step[<<i - 1, g[(i - 1) - 1]>>]
              BY <3>4, <5>1
        <5>4. step[<<i - 1, g[(i - 1) - 1]>>] = g[(i - 1) - 1] \o ss[(i - 1) + 1]
              BY <3>3, <5>1, <5>2
        <5>5. f[i - 1] = g[(i - 1) - 1]
              BY <5>1
        <5> HIDE DEF f
        <5>6. QED
              BY <4>1, <4>3, <5>1, <5>3, <5>4, <5>5
      <4>4. QED
            BY <4>2, <4>3
    <3>6. f = [i \in 1..N |-> f[i]]
          OBVIOUS
    <3> HIDE DEF f, Step
    <3>7. Loop(f)
          BY <3>5, <3>6
    <3>8. QED
          BY <3>7
  <2> HIDE DEF N
  <2>4. ASSUME NEW f, Loop(f) PROVE IsSeq(f[N]) /\ Entries(f[N]) = All(N)
    <3> DEFINE Good(n) == IsSeq(f[n]) /\ Entries(f[n]) = All(n)
               Wrong == {n \in 1..N : ~Good(n)}
    <3>1. f[1] = ss[1] /\ \A n \in 1..N : n # 1 => f[n] = f[n - 1] \o ss[n]
      <4>1. \A n \in 1..N : f[n] = Step(f, n)
        <5> HIDE DEF Step
        <5>1. QED
              BY <2>4
      <4>2. QED
            BY <2>1, <4>1
    <3>2. ASSUME NEW m \in Wrong, \A k \in Wrong : m <= k PROVE FALSE
      <4>1. m \in 1..N /\ m \in Nat /\ IsSeq(ss[m])
            BY <1>1 DEF N
      <4>2. CASE m = 1
        <5>1. All(1) = Entries(ss[1])
          <6>1. 1..1 = {1}
                OBVIOUS
          <6>2. QED
                BY <6>1
        <5>2. Good(1)
              BY <3>1, <4>1, <4>2, <5>1
        <5> HIDE DEF Good
        <5>3. QED
              BY <4>2, <5>2
      <4>3. CASE m # 1
        <5>1. m - 1 \in 1..N /\ 1..m = 1..m - 1 \cup {m}
              BY <1>1, <4>1, <4>3
        <5>2. Good(m - 1)
          <6> HIDE DEF Good
          <6>1. QED
                BY <3>2, <4>1, <5>1
        <5>3. All(m) = All(m - 1) \cup Entries(ss[m])
              BY <5>1
        <5>4. f[m] = f[m - 1] \o ss[m]
              BY <3>1, <4>1, <4>3
        <5>5. IsSeq(f[m - 1] \o ss[m]) /\ Entries(f[m - 1] \o ss[m]) = Entries(f[m - 1]) \cup Entries(ss[m])
              BY <4>1, <5>2, AnyConcat
        <5> HIDE DEF All
        <5>6. Good(m)
              BY <5>2, <5>3, <5>4, <5>5
        <5> HIDE DEF Good
        <5>7. QED
              BY <5>6
      <4>4. QED
            BY <4>2, <4>3
    <3>3. Wrong = {}
      <4> HIDE DEF Good
      <4>1. Wrong \subseteq Nat
            BY <1>1
      <4>2. QED
            BY <3>2, <4>1, LeastElement
    <3>4. N \in 1..N
          BY <1>1, <1>3
    <3>5. QED
          BY <3>3, <3>4
  <2>5. FlattenSeq(ss) = (CHOOSE f : Loop(f))[N]
        BY <1>3 DEF FlattenSeq, N
  <2> DEFINE g == CHOOSE f : Loop(f)
  <2>6. Loop(g)
        BY <2>3
  <2>7. IsSeq(g[N]) /\ Entries(g[N]) = All(N)
    <3> HIDE DEF Loop, All, g
    <3>1. QED
          BY <2>4, <2>6
  <2>8. FlattenSeq(ss) = g[N]
        BY <2>5
  <2> HIDE DEF g
  <2>9. QED
        BY <2>7, <2>8 DEF N
<1>4. QED
      BY <1>2, <1>3

-----------------------------------------------------------------------------
(***************************************************************************)
(* Sorting by a strict total order.                                        *)
(***************************************************************************)
Orders(before, D) ==
  /\ D = DOMAIN before /\ IsFiniteSet(D)
  /\ \A x \in D : before[x] \subseteq D /\ x \notin before[x]
  /\ \A x, y \in D : x \in before[y] => before[x] \subseteq before[y]
  /\ \A x, y \in D : x # y => x \in before[y] \/ y \in before[x]

LEMMA ArrangedInOrder ==
  ASSUME NEW before, NEW D, Orders(before, D)
  PROVE  LET o == Arranged(before) IN
         /\ o \in [1..Cardinality(D) -> D] /\ IsSeq(o) /\ Len(o) = Cardinality(D)
         /\ \A x \in D : \E k \in 1..Len(o) : o[k] = x
         /\ \A k, l \in 1..Len(o) : k < l => o[k] \in before[o[l]]
<1> DEFINE n == Cardinality(D)
           place == [x \in D |-> Cardinality(before[x]) + 1]
           places == {<<Cardinality(before[x]) + 1, x>> : x \in D}
           o == Arranged(before)
<1>1. D = DOMAIN before /\ IsFiniteSet(D) /\ n \in Nat
      BY FS_CardinalityType DEF Orders
<1>2. ASSUME NEW x \in D
      PROVE  IsFiniteSet(before[x]) /\ Cardinality(before[x]) \in Nat /\ Cardinality(before[x]) < n
  <2>1. before[x] \in SUBSET D /\ x \notin before[x]
        BY DEF Orders
  <2>2. IsFiniteSet(before[x]) /\ Cardinality(before[x]) <= n /\ (n = Cardinality(before[x]) => D = before[x])
        BY <1>1, <2>1, FS_Subset
  <2>3. Cardinality(before[x]) \in Nat
        BY <2>2, FS_CardinalityType
  <2>4. QED
        BY <1>1, <2>1, <2>2, <2>3
<1>3. ASSUME NEW x \in D, NEW y \in D, x \in before[y]
      PROVE  Cardinality(before[x]) < Cardinality(before[y])
  <2>1. before[x] \in SUBSET before[y] /\ x \notin before[x]
        BY <1>3 DEF Orders
  <2>2. Cardinality(before[x]) <= Cardinality(before[y])
        BY <1>2, <2>1, FS_Subset
  <2>3. Cardinality(before[y]) # Cardinality(before[x])
        BY <1>2, <1>3, <2>1, FS_Subset
  <2>4. QED
        BY <1>2, <2>2, <2>3
<1>4. ASSUME NEW x \in D, NEW y \in D, place[x] = place[y] PROVE x = y
  <2>1. Cardinality(before[x]) = Cardinality(before[y])
        BY <1>2, <1>4
  <2>2. x \notin before[y] /\ y \notin before[x]
        BY <1>2, <1>3, <2>1
  <2>3. QED
        BY <2>2 DEF Orders
<1>5. place \in [D -> 1..n]
      BY <1>1, <1>2
<1>6. place \in Surjection(D, 1..n)
  <2>1. place \in Injection(D, 1..n)
    <3> HIDE DEF place
    <3>1. QED
          BY <1>4, <1>5 DEF Injection, IsInjective
  <2>2. IsFiniteSet(1..n) /\ Cardinality(1..n) = n
    <3>1. IsFiniteSet(1..n) /\ Cardinality(1..n) = IF 1 > n THEN 0 ELSE n - 1 + 1
          BY <1>1, FS_Interval
    <3>2. QED
          BY <1>1, <3>1
  <2> HIDE DEF place
  <2>3. QED
        BY <2>1, <2>2, FS_Injection
<1>7. ASSUME NEW k \in 1..n PROVE o[k] \in D /\ place[o[k]] = k
  <2>1. PICK x \in D : place[x] = k
        BY <1>6 DEF Surjection
  <2>2. <<Cardinality(before[x]) + 1, x>> \in places /\ Cardinality(before[x]) + 1 = k
        BY <2>1
  <2> DEFINE p == CHOOSE p \in places : p[1] = k
  <2>3. \E p0 \in places : p0[1] = k
    <3> HIDE DEF places
    <3>1. <<Cardinality(before[x]) + 1, x>>[1] = k
          BY <2>2
    <3>2. QED
          BY <2>2, <3>1
  <2>4. p \in places /\ p[1] = k
    <3> HIDE DEF places
    <3>1. QED
          BY <2>3
  <2>5. o[k] = p[2]
        BY <1>1 DEF Arranged
  <2> HIDE DEF p
  <2>6. PICK y \in D : p = <<Cardinality(before[y]) + 1, y>>
        BY <2>4
  <2>7. QED
        BY <2>4, <2>5, <2>6
<1>8. o = [k \in 1..n |-> o[k]]
      BY <1>1 DEF Arranged
<1> HIDE DEF o, n, places
<1>9. o \in [1..n -> D] /\ \A k \in 1..n : o[k] \in D
      BY <1>7, <1>8
<1>10. IsSeq(o) /\ Len(o) = n
  <2>1. o \in Seq(D) /\ Len(o) = n /\ DOMAIN o = 1..n
    <3>1. o \in Seq(D)
          BY <1>1, <1>9, SeqDef
    <3>2. DOMAIN o = 1..n
          BY <1>9
    <3>3. Len(o) = n
          BY <1>1, <3>1, <3>2, LenProperties
    <3>4. QED
          BY <3>1, <3>2, <3>3
  <2>2. o \in [1..n -> Entries(o)]
        BY <1>8, <2>1 DEF Entries
  <2>3. QED
        BY <1>1, <2>1, <2>2, SeqDef DEF IsSeq
<1>11. ASSUME NEW x \in D PROVE \E k \in 1..n : o[k] = x
  <2>1. place[x] \in 1..n
        BY <1>5
  <2>2. o[place[x]] \in D /\ place[o[place[x]]] = place[x]
        BY <1>7, <2>1
  <2>3. o[place[x]] = x
        BY <1>4, <2>2
  <2>4. QED
        BY <2>1, <2>3
<1>12. ASSUME NEW k \in 1..n, NEW l \in 1..n, k < l PROVE o[k] \in before[o[l]]
  <2>1. /\ o[k] \in D /\ o[l] \in D
        /\ Cardinality(before[o[k]]) + 1 = k /\ Cardinality(before[o[l]]) + 1 = l
        BY <1>7
  <2>2. o[k] # o[l]
        BY <1>12, <2>1
  <2>3. o[l] \notin before[o[k]]
    <3>1. Cardinality(before[o[k]]) \in Nat /\ Cardinality(before[o[l]]) \in Nat
          BY <1>2, <2>1
    <3>2. ~(Cardinality(before[o[l]]) < Cardinality(before[o[k]]))
          BY <1>12, <2>1, <3>1
    <3>3. QED
          BY <1>3, <2>1, <3>2
  <2>4. QED
        BY <2>1, <2>2, <2>3 DEF Orders
<1>13. QED
       BY <1>9, <1>10, <1>11, <1>12 DEF o, n

-----------------------------------------------------------------------------
(***************************************************************************)
(* Folds over a finite set: of the values w[x] for x \in S, one after the  *)
(* other, by an operation given as a function of pairs.                    *)
(***************************************************************************)
Chosen(T) == CHOOSE x \in T : TRUE

LEMMA OneLess ==
  ASSUME NEW T, IsFiniteSet(T), T # {}
  PROVE  /\ Chosen(T) \in T
         /\ \A x \in T : /\ IsFiniteSet(T \ {x}) /\ Cardinality(T \ {x}) \in Nat
                         /\ Cardinality(T) \in Nat /\ Cardinality(T \ {x}) < Cardinality(T)
<1>1. Chosen(T) \in T
      BY DEF Chosen
<1>2. ASSUME NEW x \in T
      PROVE  /\ IsFiniteSet(T \ {x}) /\ Cardinality(T \ {x}) \in Nat
             /\ Cardinality(T) \in Nat /\ Cardinality(T \ {x}) < Cardinality(T)
  <2>1. IsFiniteSet(T \ {x}) /\ Cardinality(T \ {x}) = Cardinality(T) - 1
        BY FS_RemoveElement
  <2>2. Cardinality(T) \in Nat /\ Cardinality(T \ {x}) \in Nat
        BY <2>1, FS_CardinalityType
  <2>3. QED
        BY <2>1, <2>2
<1>3. QED
      BY <1>1, <1>2

FoldsTo(g, S, w, base, op) ==
  \A T \in SUBSET S :
    g[T] = IF T = {} THEN base ELSE op[<<w[Chosen(T)], g[T \ {Chosen(T)}]>>]

(* Induction over the subsets of a finite set, as the smallest one that is *)
(* a counterexample.                                                       *)
LEMMA SmallestSubset ==
  ASSUME NEW S, IsFiniteSet(S), NEW Wrong, Wrong \subseteq SUBSET S, Wrong # {}
  PROVE  \E T \in Wrong : \A x \in T : T \ {x} \notin Wrong
<1> DEFINE Sizes == {Cardinality(T) : T \in Wrong}
<1>1. \A T \in Wrong : IsFiniteSet(T) /\ Cardinality(T) \in Nat
  <2>1. \A T \in SUBSET S : IsFiniteSet(T)
        BY FS_Subset
  <2>2. QED
        BY <2>1, FS_CardinalityType
<1>2. Sizes \subseteq Nat /\ Sizes # {}
      BY <1>1
<1>3. PICK n \in Sizes : \A k \in Sizes : n <= k
  <2> HIDE DEF Sizes
  <2>1. QED
        BY <1>2, LeastElement
<1>4. PICK T \in Wrong : n = Cardinality(T)
      OBVIOUS
<1>5. ASSUME NEW x \in T, T \ {x} \in Wrong PROVE FALSE
  <2>1. Cardinality(T) <= Cardinality(T \ {x})
        BY <1>3, <1>4, <1>5
  <2>2. IsFiniteSet(T) /\ T # {}
        BY <1>1, <1>5
  <2>3. /\ Cardinality(T) \in Nat /\ Cardinality(T \ {x}) \in Nat
        /\ Cardinality(T \ {x}) < Cardinality(T)
        BY <2>2, OneLess
  <2>4. QED
        BY <2>1, <2>3
<1>6. QED
      BY <1>5

LEMMA FoldExists ==
  ASSUME NEW S, IsFiniteSet(S), NEW V, NEW base \in V, NEW op \in [V \X V -> V],
         NEW w, \A x \in S : w[x] \in V
  PROVE  \E g \in [SUBSET S -> V] : FoldsTo(g, S, w, base, op)
<1> DEFINE N == Cardinality(S)
           UpTo(g, n) == \A T \in SUBSET S : Cardinality(T) <= n =>
             g[T] = IF T = {} THEN base ELSE op[<<w[Chosen(T)], g[T \ {Chosen(T)}]>>]
           Unsolved == {n \in Nat : ~\E g \in [SUBSET S -> V] : UpTo(g, n)}
<1>1. \A T \in SUBSET S : IsFiniteSet(T) /\ Cardinality(T) \in Nat /\ Cardinality(T) <= N
  <2>1. \A T \in SUBSET S : IsFiniteSet(T) /\ Cardinality(T) <= N
        BY FS_Subset
  <2>2. QED
        BY <2>1, FS_CardinalityType
<1>2. ASSUME NEW n \in Unsolved, \A k \in Unsolved : n <= k PROVE FALSE
  <2>1. n # 0
    <3> DEFINE g == [T \in SUBSET S |-> base]
    <3>1. g \in [SUBSET S -> V] /\ \A T \in SUBSET S : g[T] = base
          OBVIOUS
    <3>2. ASSUME NEW T \in SUBSET S, Cardinality(T) <= 0 PROVE T = {}
      <4>1. Cardinality(T) = 0
            BY <1>1, <3>2
      <4>2. QED
            BY <1>1, <4>1, FS_EmptySet
    <3> HIDE DEF g
    <3>3. UpTo(g, 0)
          BY <3>1, <3>2
    <3>4. QED
          BY <1>2, <3>1, <3>3
  <2>2. n - 1 \in Nat /\ n - 1 \notin Unsolved /\ n \in Nat
    <3>1. n \in Nat
          OBVIOUS
    <3> HIDE DEF Unsolved
    <3>2. QED
          BY <1>2, <2>1, <3>1
  <2>3. PICK g \in [SUBSET S -> V] : UpTo(g, n - 1)
        BY <2>2
  <2> DEFINE h == [T \in SUBSET S |->
                     IF Cardinality(T) = n THEN op[<<w[Chosen(T)], g[T \ {Chosen(T)}]>>] ELSE g[T]]
  <2>4. ASSUME NEW T \in SUBSET S, T # {}
        PROVE  /\ Chosen(T) \in T /\ w[Chosen(T)] \in V /\ T \ {Chosen(T)} \in SUBSET S
               /\ Cardinality(T \ {Chosen(T)}) \in Nat /\ Cardinality(T \ {Chosen(T)}) < Cardinality(T)
               /\ op[<<w[Chosen(T)], g[T \ {Chosen(T)}]>>] \in V
    <3>1. /\ Chosen(T) \in T /\ Cardinality(T \ {Chosen(T)}) \in Nat
          /\ Cardinality(T \ {Chosen(T)}) < Cardinality(T)
          BY <1>1, <2>4, OneLess
    <3>2. w[Chosen(T)] \in V /\ T \ {Chosen(T)} \in SUBSET S
          BY <3>1
    <3>3. g[T \ {Chosen(T)}] \in V
          BY <3>2
    <3>4. QED
          BY <3>1, <3>2, <3>3
  <2>5. ASSUME NEW T \in SUBSET S, Cardinality(T) = n PROVE T # {}
        BY <2>1, <2>5, FS_EmptySet
  <2>6. h \in [SUBSET S -> V]
        BY <2>4, <2>5
  <2>7. ASSUME NEW T \in SUBSET S, Cardinality(T) <= n
        PROVE  h[T] = IF T = {} THEN base ELSE op[<<w[Chosen(T)], h[T \ {Chosen(T)}]>>]
    <3>1. CASE T = {}
      <4>1. Cardinality(T) = 0 /\ Cardinality(T) # n
            BY <2>1, <3>1, FS_EmptySet
      <4>2. h[T] = g[T]
            BY <4>1
      <4>3. g[T] = base
        <5>1. Cardinality(T) <= n - 1
              BY <2>1, <2>2, <4>1
        <5>2. QED
              BY <2>3, <3>1, <5>1
      <4>4. QED
            BY <3>1, <4>2, <4>3
    <3>2. CASE T # {}
      <4> DEFINE c == Chosen(T)
      <4>1. /\ T \ {c} \in SUBSET S /\ Cardinality(T \ {c}) \in Nat /\ Cardinality(T) \in Nat
            /\ Cardinality(T \ {c}) < Cardinality(T)
            BY <1>1, <2>4, <3>2
      <4>2. h[T \ {c}] = g[T \ {c}]
            BY <2>2, <2>7, <4>1
      <4>3. h[T] = op[<<w[c], g[T \ {c}]>>]
        <5>1. CASE Cardinality(T) = n
              BY <5>1
        <5>2. CASE Cardinality(T) # n
          <6>1. Cardinality(T) <= n - 1
                BY <2>2, <2>7, <4>1, <5>2
          <6>2. g[T] = op[<<w[c], g[T \ {c}]>>]
                BY <2>3, <3>2, <6>1
          <6>3. h[T] = g[T]
                BY <5>2
          <6>4. QED
                BY <6>2, <6>3
        <5>3. QED
              BY <5>1, <5>2
      <4> HIDE DEF h
      <4>4. QED
            BY <3>2, <4>2, <4>3
    <3>3. QED
          BY <3>1, <3>2
  <2> HIDE DEF h
  <2>8. UpTo(h, n)
        BY <2>7
  <2>9. QED
        BY <1>2, <2>6, <2>8
<1>3. Unsolved = {}
      BY <1>2, LeastElement, Unsolved \subseteq Nat
<1>4. PICK g \in [SUBSET S -> V] : UpTo(g, N)
  <2>1. N \in Nat
        BY FS_CardinalityType
  <2>2. QED
        BY <1>3, <2>1
<1>5. FoldsTo(g, S, w, base, op)
      BY <1>1, <1>4 DEF FoldsTo
<1>6. QED
      BY <1>5

(* An operation that is associative and commutative takes any element      *)
(* first.                                                                  *)
Commutes(op, V) ==
  /\ \A a, b \in V : op[<<a, b>>] = op[<<b, a>>]
  /\ \A a, b, c \in V : op[<<a, op[<<b, c>>]>>] = op[<<op[<<a, b>>], c>>]

FoldsAnyFirst(g, S, w, op) ==
  \A T \in SUBSET S : \A x \in T : g[T] = op[<<w[x], g[T \ {x}]>>]

LEMMA FoldInAnyOrder ==
  ASSUME NEW S, IsFiniteSet(S), NEW V, NEW base \in V, NEW op \in [V \X V -> V], Commutes(op, V),
         NEW w, \A x \in S : w[x] \in V, NEW g \in [SUBSET S -> V], FoldsTo(g, S, w, base, op)
  PROVE  FoldsAnyFirst(g, S, w, op)
<1> DEFINE Wrong == {U \in SUBSET S : \E y \in U : g[U] # op[<<w[y], g[U \ {y}]>>]}
<1>1. ASSUME NEW U \in Wrong, \A y \in U : U \ {y} \notin Wrong PROVE FALSE
  <2>1. PICK y \in U : g[U] # op[<<w[y], g[U \ {y}]>>]
        OBVIOUS
  <2> DEFINE c == Chosen(U)
  <2>2. c \in U
        BY <2>1 DEF Chosen
  <2>3. U \in SUBSET S /\ g[U] = op[<<w[c], g[U \ {c}]>>]
        BY <2>1 DEF FoldsTo
  <2>4. c # y
        BY <2>1, <2>3
  <2>5. y \in U \ {c} /\ c \in U \ {y} /\ U \ {c} \in SUBSET S /\ U \ {y} \in SUBSET S
        BY <2>2, <2>3, <2>4
  <2> DEFINE R == (U \ {c}) \ {y}
  <2>6. R = (U \ {y}) \ {c} /\ R \in SUBSET S
        BY <2>3
  <2>7. g[U \ {c}] = op[<<w[y], g[R]>>]
        BY <1>1, <2>2, <2>5
  <2>8. g[U \ {y}] = op[<<w[c], g[R]>>]
        BY <1>1, <2>1, <2>5, <2>6, ZenonT(60)
  <2>9. w[c] \in V /\ w[y] \in V /\ g[R] \in V
        BY <2>2, <2>3, <2>6
  <2> HIDE DEF c, R
  <2>10. op[<<w[c], op[<<w[y], g[R]>>]>>] = op[<<w[y], op[<<w[c], g[R]>>]>>]
    <3> DEFINE a == w[c]  b == w[y]  d == g[R]
    <3>1. a \in V /\ b \in V /\ d \in V
          BY <2>9
    <3> HIDE DEF a, b, d
    <3>2. op[<<a, op[<<b, d>>]>>] = op[<<op[<<a, b>>], d>>]
          BY <3>1 DEF Commutes
    <3>3. op[<<b, op[<<a, d>>]>>] = op[<<op[<<b, a>>], d>>]
          BY <3>1 DEF Commutes
    <3>4. op[<<a, b>>] = op[<<b, a>>]
          BY <3>1 DEF Commutes
    <3>5. QED
          BY <3>2, <3>3, <3>4 DEF a, b, d
  <2>11. QED
         BY <2>1, <2>3, <2>7, <2>8, <2>10
<1>2. Wrong \subseteq SUBSET S
      OBVIOUS
<1> HIDE DEF Wrong
<1>3. Wrong = {}
      BY <1>1, <1>2, SmallestSubset
<1>4. QED
      BY <1>3 DEF Wrong, FoldsAnyFirst

-----------------------------------------------------------------------------
(***************************************************************************)
(* Sums and products of the values w[x] for x \in T.                       *)
(***************************************************************************)
SumOn(w, T) == FoldFunctionOnSet(LAMBDA a, b : a + b, 0, w, T)
ProductOn(w, T) == FoldFunctionOnSet(LAMBDA a, b : a * b, 1, w, T)

LEMMA SumFolds ==
  ASSUME NEW S, IsFiniteSet(S), NEW w, \A x \in S : w[x] \in Int,
         NEW op, op = [p \in Int \X Int |-> p[1] + p[2]],
         NEW g \in [SUBSET S -> Int], FoldsTo(g, S, w, 0, op)
  PROVE  SumOn(w, S) = g[S]
<1> DEFINE Fixed(f) == f = [T \in SUBSET S |->
                     IF T = {} THEN 0 ELSE w[Chosen(T)] + f[T \ {Chosen(T)}]]
           iter == CHOOSE f : Fixed(f)
<1>1. SumOn(w, S) = iter[S]
      BY DEF SumOn, FoldFunctionOnSet, MapThenFoldSet, Chosen
<1>2. ASSUME NEW T \in SUBSET S, T # {}
      PROVE  /\ Chosen(T) \in T /\ T \ {Chosen(T)} \in SUBSET S /\ w[Chosen(T)] \in Int
             /\ g[T] = w[Chosen(T)] + g[T \ {Chosen(T)}]
  <2>1. Chosen(T) \in T
        BY <1>2 DEF Chosen
  <2>2. T \ {Chosen(T)} \in SUBSET S /\ w[Chosen(T)] \in Int
        BY <2>1
  <2>3. g[T] = op[<<w[Chosen(T)], g[T \ {Chosen(T)}]>>]
        BY <1>2 DEF FoldsTo
  <2>4. g[T \ {Chosen(T)}] \in Int
        BY <2>2
  <2>5. QED
        BY <2>1, <2>2, <2>3, <2>4
<1>3. \A T \in SUBSET S : T = {} => g[T] = 0
      BY DEF FoldsTo
<1>4. Fixed(g)
      BY <1>2, <1>3
<1>5. Fixed(iter)
  <2> HIDE DEF Fixed
  <2>1. QED
        BY <1>4
<1> DEFINE Wrong == {T \in SUBSET S : iter[T] # g[T]}
<1>6. ASSUME NEW T \in Wrong, \A x \in T : T \ {x} \notin Wrong PROVE FALSE
  <2>1. T \in SUBSET S /\ iter[T] # g[T]
        OBVIOUS
  <2> HIDE DEF iter
  <2>2. iter[T] = IF T = {} THEN 0 ELSE w[Chosen(T)] + iter[T \ {Chosen(T)}]
        BY <1>5, <2>1
  <2>3. T # {}
        BY <1>3, <2>1, <2>2
  <2>4. iter[T \ {Chosen(T)}] = g[T \ {Chosen(T)}]
        BY <1>2, <1>6, <2>1, <2>3
  <2>5. QED
        BY <1>2, <2>1, <2>2, <2>3, <2>4
<1>7. Wrong = {}
  <2>1. Wrong \subseteq SUBSET S
        OBVIOUS
  <2> HIDE DEF Wrong
  <2>2. QED
        BY <1>6, <2>1, SmallestSubset
<1>8. QED
      BY <1>1, <1>7

(* The sum over no element, and over one element and the others.           *)
LEMMA SumTakesOut ==
  ASSUME NEW S, IsFiniteSet(S), NEW w, \A x \in S : w[x] \in Int
  PROVE  /\ SumOn(w, S) \in Int
         /\ S = {} => SumOn(w, S) = 0
         /\ \A x \in S : /\ SumOn(w, S \ {x}) \in Int
                         /\ SumOn(w, S) = w[x] + SumOn(w, S \ {x})
<1> DEFINE op == [p \in Int \X Int |-> p[1] + p[2]]
<1>1. op \in [Int \X Int -> Int] /\ Commutes(op, Int)
  <2>1. op \in [Int \X Int -> Int] /\ \A a, b \in Int : op[<<a, b>>] = a + b
        OBVIOUS
  <2> HIDE DEF op
  <2>2. ASSUME NEW a \in Int, NEW b \in Int PROVE op[<<a, b>>] = op[<<b, a>>]
    <3>1. op[<<a, b>>] = a + b /\ op[<<b, a>>] = b + a /\ a + b = b + a
          BY <2>1
    <3>2. QED
          BY <3>1
  <2>3. \A a, b, c \in Int : op[<<a, op[<<b, c>>]>>] = op[<<op[<<a, b>>], c>>]
        BY <2>1
  <2>4. QED
        BY <2>1, <2>2, <2>3 DEF Commutes
<1>2. \A a, b \in Int : op[<<a, b>>] = a + b
      OBVIOUS
<1>3. op = [p \in Int \X Int |-> p[1] + p[2]]
      OBVIOUS
<1> HIDE DEF op
<1>4. PICK g \in [SUBSET S -> Int] : FoldsTo(g, S, w, 0, op)
  <2>1. 0 \in Int /\ op \in [Int \X Int -> Int]
        BY <1>1
  <2>2. QED
        BY <2>1, FoldExists
<1>5. SumOn(w, S) = g[S] /\ g[S] \in Int
      BY <1>3, <1>4, SumFolds
<1>6. S = {} => g[S] = 0
      BY <1>4 DEF FoldsTo
<1>7. FoldsAnyFirst(g, S, w, op)
  <2>1. 0 \in Int
        OBVIOUS
  <2>2. QED
        BY <1>1, <1>4, <2>1, FoldInAnyOrder
<1>8. ASSUME NEW x \in S
      PROVE  SumOn(w, S \ {x}) \in Int /\ SumOn(w, S) = w[x] + SumOn(w, S \ {x})
  <2> DEFINE R == S \ {x}  h == [T \in SUBSET R |-> g[T]]
  <2>1. R \in SUBSET S /\ IsFiniteSet(R) /\ R \subseteq S
        BY FS_Subset
  <2>2. h \in [SUBSET R -> Int] /\ \A T \in SUBSET R : h[T] = g[T]
        BY <2>1
  <2> HIDE DEF h
  <2>3. FoldsTo(h, R, w, 0, op)
    <3>1. ASSUME NEW T \in SUBSET R
          PROVE  h[T] = IF T = {} THEN 0 ELSE op[<<w[Chosen(T)], h[T \ {Chosen(T)}]>>]
      <4>1. T \in SUBSET S /\ T \ {Chosen(T)} \in SUBSET R
            BY <2>1
      <4>2. g[T] = IF T = {} THEN 0 ELSE op[<<w[Chosen(T)], g[T \ {Chosen(T)}]>>]
            BY <1>4, <4>1 DEF FoldsTo
      <4>3. h[T] = g[T] /\ h[T \ {Chosen(T)}] = g[T \ {Chosen(T)}]
            BY <2>2, <4>1
      <4>4. QED
            BY <4>2, <4>3
    <3>2. QED
          BY <3>1 DEF FoldsTo
  <2>4. SumOn(w, R) = h[R]
        BY <1>3, <2>1, <2>2, <2>3, SumFolds
  <2>5. SumOn(w, R) = g[R] /\ g[R] \in Int
        BY <2>1, <2>2, <2>4
  <2>6. g[S] = op[<<w[x], g[R]>>]
    <3>1. S \in SUBSET S
          OBVIOUS
    <3>2. QED
          BY <1>7, <3>1 DEF FoldsAnyFirst
  <2>7. QED
        BY <1>2, <1>5, <2>5, <2>6
<1>9. QED
      BY <1>5, <1>6, <1>8

LEMMA SumAddsOne ==
  ASSUME NEW S, IsFiniteSet(S), NEW x, x \notin S, NEW w, \A y \in S \cup {x} : w[y] \in Int
  PROVE  SumOn(w, S \cup {x}) = w[x] + SumOn(w, S) /\ SumOn(w, S) \in Int
<1> DEFINE U == S \cup {x}
<1>1. IsFiniteSet(U) /\ x \in U /\ U \ {x} = S /\ \A y \in U : w[y] \in Int
      BY FS_AddElement
<1> HIDE DEF U
<1>2. SumOn(w, U \ {x}) \in Int /\ SumOn(w, U) = w[x] + SumOn(w, U \ {x})
      BY <1>1, SumTakesOut
<1>3. QED
      BY <1>1, <1>2 DEF U

LEMMA NoSum ==
  ASSUME NEW w
  PROVE  SumOn(w, {}) = 0
<1>1. IsFiniteSet({}) /\ \A x \in {} : w[x] \in Int
      BY FS_EmptySet
<1>2. QED
      BY <1>1, SumTakesOut

(* Two weights that are the same on S, and one that is the other times c.  *)
LEMMA SumTimes ==
  ASSUME NEW S, IsFiniteSet(S), NEW w, \A x \in S : w[x] \in Int,
         NEW c \in Int, NEW v, \A x \in S : v[x] = c * w[x]
  PROVE  SumOn(v, S) = c * SumOn(w, S)
<1> DEFINE Wrong == {T \in SUBSET S : SumOn(v, T) # c * SumOn(w, T)}
<1>1. ASSUME NEW T \in Wrong, \A x \in T : T \ {x} \notin Wrong PROVE FALSE
  <2>1. T \in SUBSET S /\ SumOn(v, T) # c * SumOn(w, T) /\ IsFiniteSet(T)
        BY FS_Subset
  <2>2. T # {}
    <3>1. SumOn(v, {}) = 0 /\ SumOn(w, {}) = 0
          BY NoSum
    <3>2. c * 0 = 0
          OBVIOUS
    <3>3. QED
          BY <2>1, <3>1, <3>2
  <2>3. PICK x \in T : TRUE
        BY <2>2
  <2> DEFINE R == T \ {x}  a == SumOn(w, R)  b == w[x]
  <2>4. \A y \in T : w[y] \in Int /\ v[y] \in Int
        BY <2>1
  <2>5. SumOn(w, T) = b + a /\ a \in Int /\ b \in Int
        BY <2>1, <2>4, SumTakesOut
  <2>6. SumOn(v, T) = v[x] + SumOn(v, R)
        BY <2>1, <2>4, SumTakesOut
  <2>7. SumOn(v, R) = c * a
        BY <1>1, <2>1
  <2>8. v[x] = c * b
        BY <2>1
  <2> HIDE DEF R, a, b
  <2>9. c * b + c * a = c * (b + a)
        BY <2>5
  <2>10. QED
         BY <2>1, <2>5, <2>6, <2>7, <2>8, <2>9
<1>2. Wrong = {}
  <2>1. Wrong \subseteq SUBSET S
        OBVIOUS
  <2> HIDE DEF Wrong
  <2>2. QED
        BY <1>1, <2>1, SmallestSubset
<1>3. QED
      BY <1>2

LEMMA SumSame ==
  ASSUME NEW S, IsFiniteSet(S), NEW w, \A x \in S : w[x] \in Int,
         NEW v, \A x \in S : v[x] = w[x]
  PROVE  SumOn(v, S) = SumOn(w, S)
<1>1. \A x \in S : v[x] = 1 * w[x]
      OBVIOUS
<1>2. SumOn(v, S) = 1 * SumOn(w, S)
      BY <1>1, SumTimes
<1>3. SumOn(w, S) \in Int
      BY SumTakesOut
<1>4. QED
      BY <1>2, <1>3

LEMMA SumPlus ==
  ASSUME NEW S, IsFiniteSet(S), NEW u, NEW v, NEW w,
         \A x \in S : u[x] \in Int /\ v[x] \in Int /\ w[x] = u[x] + v[x]
  PROVE  SumOn(w, S) = SumOn(u, S) + SumOn(v, S)
<1> DEFINE Wrong == {T \in SUBSET S : SumOn(w, T) # SumOn(u, T) + SumOn(v, T)}
<1>1. ASSUME NEW T \in Wrong, \A x \in T : T \ {x} \notin Wrong PROVE FALSE
  <2>1. T \in SUBSET S /\ SumOn(w, T) # SumOn(u, T) + SumOn(v, T) /\ IsFiniteSet(T)
        BY FS_Subset
  <2>2. T # {}
    <3>1. SumOn(u, {}) = 0 /\ SumOn(v, {}) = 0 /\ SumOn(w, {}) = 0
          BY NoSum
    <3>2. QED
          BY <2>1, <3>1
  <2>3. PICK x \in T : TRUE
        BY <2>2
  <2> DEFINE R == T \ {x}
  <2>4. \A y \in T : u[y] \in Int /\ v[y] \in Int /\ w[y] \in Int
        BY <2>1
  <2>5. SumOn(u, T) = u[x] + SumOn(u, R) /\ SumOn(u, R) \in Int
        BY <2>1, <2>4, SumTakesOut
  <2>6. SumOn(v, T) = v[x] + SumOn(v, R) /\ SumOn(v, R) \in Int
        BY <2>1, <2>4, SumTakesOut
  <2>7. SumOn(w, T) = w[x] + SumOn(w, R)
        BY <2>1, <2>4, SumTakesOut
  <2>8. SumOn(w, R) = SumOn(u, R) + SumOn(v, R)
        BY <1>1, <2>1
  <2>9. w[x] = u[x] + v[x] /\ u[x] \in Int /\ v[x] \in Int
        BY <2>1
  <2> HIDE DEF R
  <2>10. QED
         BY <2>1, <2>5, <2>6, <2>7, <2>8, <2>9
<1>2. Wrong = {}
  <2>1. Wrong \subseteq SUBSET S
        OBVIOUS
  <2> HIDE DEF Wrong
  <2>2. QED
        BY <1>1, <2>1, SmallestSubset
<1>3. QED
      BY <1>2

(* The sum of sums in either order.                                        *)
SumOfRow(f, a, B) == SumOn([b \in B |-> f[<<a, b>>]], B)
SumOfColumn(f, A, b) == SumOn([a \in A |-> f[<<a, b>>]], A)

LEMMA SumsSwap ==
  ASSUME NEW A, IsFiniteSet(A), NEW B, IsFiniteSet(B), NEW f,
         \A a \in A : \A b \in B : f[<<a, b>>] \in Int,
         NEW row, \A a \in A : row[a] = SumOfRow(f, a, B),
         NEW column, \A b \in B : column[b] = SumOfColumn(f, A, b)
  PROVE  SumOn(row, A) = SumOn(column, B)
<1> USE DEF SumOfRow, SumOfColumn
<1> DEFINE Row(a) == [b \in B |-> f[<<a, b>>]]
           Part(T) == [b \in B |-> SumOn([a \in A |-> f[<<a, b>>]], T)]
           Wrong == {T \in SUBSET A : SumOn(row, T) # SumOn(Part(T), B)}
<1>1. ASSUME NEW a \in A
      PROVE  (\A b \in B : Row(a)[b] \in Int) /\ row[a] = SumOn(Row(a), B) /\ row[a] \in Int
  <2>1. (\A b \in B : Row(a)[b] \in Int) /\ row[a] = SumOn(Row(a), B)
        OBVIOUS
  <2> HIDE DEF Row
  <2>2. QED
        BY <2>1, SumTakesOut
<1>2. ASSUME NEW T \in Wrong, \A x \in T : T \ {x} \notin Wrong PROVE FALSE
  <2>1. T \in SUBSET A /\ SumOn(row, T) # SumOn(Part(T), B) /\ IsFiniteSet(T)
        BY FS_Subset
  <2>2. ASSUME NEW b \in B, NEW x \in T
        PROVE  /\ Part(T)[b] = Row(x)[b] + Part(T \ {x})[b]
               /\ Row(x)[b] \in Int /\ Part(T \ {x})[b] \in Int
    <3> DEFINE g == [a \in A |-> f[<<a, b>>]]
    <3>1. (\A a \in T : g[a] \in Int) /\ g[x] = Row(x)[b] /\ Row(x)[b] \in Int
          BY <2>1
    <3>2. Part(T)[b] = SumOn(g, T) /\ Part(T \ {x})[b] = SumOn(g, T \ {x})
          OBVIOUS
    <3> HIDE DEF g, Part, Row
    <3>3. SumOn(g, T) = g[x] + SumOn(g, T \ {x}) /\ SumOn(g, T \ {x}) \in Int
          BY <2>1, <3>1, SumTakesOut
    <3>4. QED
          BY <3>1, <3>2, <3>3
  <2>3. T # {}
    <3>1. CASE T = {}
      <4>1. SumOn(row, T) = 0
            BY <3>1, NoSum
      <4>2. \A b \in B : Part(T)[b] = 0 * 0
            BY <3>1, NoSum
      <4> DEFINE zero == [b \in B |-> 0]
      <4>3. \A b \in B : zero[b] \in Int /\ Part(T)[b] = 0 * zero[b]
            BY <4>2
      <4> HIDE DEF zero, Part
      <4>4. SumOn(Part(T), B) = 0 * SumOn(zero, B) /\ SumOn(zero, B) \in Int
            BY <4>3, SumTimes, SumTakesOut
      <4>5. QED
            BY <2>1, <4>1, <4>4
    <3>2. QED
          BY <3>1
  <2>4. PICK x \in T : TRUE
        BY <2>3
  <2> DEFINE R == T \ {x}
  <2>5. \A b \in B : /\ Row(x)[b] \in Int /\ Part(R)[b] \in Int
                     /\ Part(T)[b] = Row(x)[b] + Part(R)[b]
        BY <2>2
  <2>6. SumOn(row, R) = SumOn(Part(R), B)
        BY <1>2, <2>1
  <2> HIDE DEF Row, Part, R
  <2>7. SumOn(Part(T), B) = SumOn(Row(x), B) + SumOn(Part(R), B)
        BY <2>5, SumPlus
  <2>8. SumOn(row, T) = row[x] + SumOn(row, R) /\ SumOn(row, R) \in Int
        BY <1>1, <2>1, SumTakesOut DEF R
  <2>9. row[x] = SumOn(Row(x), B)
        BY <1>1, <2>1
  <2>10. QED
         BY <2>1, <2>6, <2>7, <2>8, <2>9
<1>3. Wrong = {}
  <2>1. Wrong \subseteq SUBSET A
        OBVIOUS
  <2> HIDE DEF Wrong
  <2>2. QED
        BY <1>2, <2>1, SmallestSubset
<1>4. SumOn(row, A) = SumOn(Part(A), B)
      BY <1>3
<1>5. \A b \in B : Part(A)[b] = column[b]
      OBVIOUS
<1>6. \A b \in B : column[b] \in Int
  <2>1. ASSUME NEW b \in B PROVE column[b] \in Int
    <3> DEFINE g == [a \in A |-> f[<<a, b>>]]
    <3>1. (\A a \in A : g[a] \in Int) /\ column[b] = SumOn(g, A)
          OBVIOUS
    <3> HIDE DEF g
    <3>2. QED
          BY <3>1, SumTakesOut
  <2>2. QED
        BY <2>1
<1> HIDE DEF Part
<1>7. SumOn(Part(A), B) = SumOn(column, B)
      BY <1>5, <1>6, SumSame
<1>8. QED
      BY <1>4, <1>7

(* The sum over what g renames, one to one.                                *)
LEMMA SumRenamed ==
  ASSUME NEW S, IsFiniteSet(S), NEW g, \A x, y \in S : g[x] = g[y] => x = y,
         NEW w, \A x \in S : w[g[x]] \in Int, NEW v, \A x \in S : v[x] = w[g[x]],
         NEW U, U = {g[x] : x \in S}
  PROVE  SumOn(w, U) = SumOn(v, S)
<1> DEFINE Image(T) == {g[x] : x \in T}
           Wrong == {T \in SUBSET S : SumOn(w, Image(T)) # SumOn(v, T)}
<1>1. ASSUME NEW T \in Wrong, \A x \in T : T \ {x} \notin Wrong PROVE FALSE
  <2>1. T \in SUBSET S /\ SumOn(w, Image(T)) # SumOn(v, T) /\ IsFiniteSet(T)
        BY FS_Subset
  <2>2. T # {}
    <3>1. CASE T = {}
      <4>1. Image(T) = {}
            BY <3>1
      <4> HIDE DEF Image
      <4>2. QED
            BY <2>1, <3>1, <4>1, NoSum
    <3>2. QED
          BY <3>1
  <2>3. PICK x \in T : TRUE
        BY <2>2
  <2> DEFINE R == T \ {x}
  <2>4. SumOn(w, Image(R)) = SumOn(v, R)
        BY <1>1, <2>1
  <2>5. g[x] \notin Image(R) /\ Image(T) = Image(R) \cup {g[x]}
        BY <2>1
  <2>6. IsFiniteSet(Image(R))
    <3>1. IsFiniteSet(R)
          BY <2>1, FS_Subset
    <3> DEFINE h == [y \in R |-> g[y]]
    <3>2. h \in Surjection(R, Image(R))
          BY DEF Surjection
    <3> HIDE DEF h, Image, R
    <3>3. QED
          BY <3>1, <3>2, FS_Surjection
  <2>7. \A y \in Image(R) \cup {g[x]} : w[y] \in Int
        BY <2>1
  <2>8. \A y \in T : v[y] \in Int /\ v[y] = w[g[y]]
        BY <2>1
  <2> HIDE DEF Image
  <2>9. SumOn(w, Image(T)) = w[g[x]] + SumOn(w, Image(R))
        BY <2>5, <2>6, <2>7, SumAddsOne
  <2>10. SumOn(v, T) = v[x] + SumOn(v, R)
         BY <2>1, <2>8, SumTakesOut
  <2>11. QED
         BY <2>1, <2>4, <2>8, <2>9, <2>10
<1>2. Wrong = {}
  <2>1. Wrong \subseteq SUBSET S
        OBVIOUS
  <2> HIDE DEF Wrong
  <2>2. QED
        BY <1>1, <2>1, SmallestSubset
<1>3. SumOn(w, Image(S)) = SumOn(v, S)
      BY <1>2
<1>4. QED
      BY <1>3

(* The sum over the union of disjoint sets is the sum of their sums.       *)
SumOfPart(w, S, of, a) == SumOn(w, {x \in S : of[x] = a})

LEMMA SumOfParts ==
  ASSUME NEW S, IsFiniteSet(S), NEW w, \A x \in S : w[x] \in Int,
         NEW A, IsFiniteSet(A), NEW of, \A x \in S : of[x] \in A,
         NEW part, \A a \in A : part[a] = SumOfPart(w, S, of, a)
  PROVE  SumOn(w, S) = SumOn(part, A)
<1> DEFINE Part(T) == [a \in A |-> SumOn(w, {x \in T : of[x] = a})]
           Wrong == {T \in SUBSET S : SumOn(w, T) # SumOn(Part(T), A)}
<1>1. ASSUME NEW T \in SUBSET S, NEW a \in A PROVE Part(T)[a] \in Int
  <2> DEFINE U == {x \in T : of[x] = a}
  <2>1. IsFiniteSet(U) /\ \A x \in U : w[x] \in Int
        BY FS_Subset
  <2>2. Part(T)[a] = SumOn(w, U)
        OBVIOUS
  <2> HIDE DEF U, Part
  <2>3. QED
        BY <2>1, <2>2, SumTakesOut
<1>2. ASSUME NEW T \in Wrong, \A x \in T : T \ {x} \notin Wrong PROVE FALSE
  <2>1. T \in SUBSET S /\ SumOn(w, T) # SumOn(Part(T), A) /\ IsFiniteSet(T)
        BY FS_Subset
  <2>2. T # {}
    <3>1. CASE T = {}
      <4>1. SumOn(w, T) = 0
            BY <3>1, NoSum
      <4>2. \A a \in A : {x \in T : of[x] = a} = {}
            BY <3>1
      <4>3. \A a \in A : Part(T)[a] = 0
            BY <4>2, NoSum
      <4> DEFINE zero == [a \in A |-> 0]
      <4>4. \A a \in A : zero[a] \in Int /\ Part(T)[a] = 0 * zero[a]
            BY <4>3
      <4> HIDE DEF zero, Part
      <4>5. SumOn(Part(T), A) = 0 * SumOn(zero, A) /\ SumOn(zero, A) \in Int
            BY <4>4, SumTimes, SumTakesOut
      <4>6. QED
            BY <2>1, <4>1, <4>5
    <3>2. QED
          BY <3>1
  <2>3. PICK x \in T : TRUE
        BY <2>2
  <2> DEFINE R == T \ {x}  p == of[x]
  <2>4. R \in SUBSET S /\ p \in A /\ x \in S
        BY <2>1
  <2>5. SumOn(w, R) = SumOn(Part(R), A)
        BY <1>2, <2>4
  <2>6. ASSUME NEW a \in A, a # p PROVE Part(T)[a] = Part(R)[a]
    <3>1. {y \in T : of[y] = a} = {y \in R : of[y] = a}
          BY <2>6
    <3>2. QED
          BY <3>1
  <2>7. Part(T)[p] = w[x] + Part(R)[p]
    <3> DEFINE U == {y \in T : of[y] = p}
    <3>1. IsFiniteSet(U) /\ x \in U /\ (\A y \in U : w[y] \in Int) /\ U \ {x} = {y \in R : of[y] = p}
          BY <2>1, FS_Subset
    <3>2. Part(T)[p] = SumOn(w, U) /\ Part(R)[p] = SumOn(w, U \ {x})
          BY <2>4, <3>1
    <3> HIDE DEF U, Part
    <3>3. SumOn(w, U) = w[x] + SumOn(w, U \ {x})
          BY <3>1, SumTakesOut
    <3>4. QED
          BY <3>2, <3>3
  <2> DEFINE Q == A \ {p}
  <2>8. (\A a \in A : Part(T)[a] \in Int) /\ (\A a \in A : Part(R)[a] \in Int)
        BY <1>1, <2>1, <2>4
  <2>9. IsFiniteSet(Q) /\ Q \subseteq A /\ \A a \in Q : Part(T)[a] = Part(R)[a]
        BY <2>6, FS_Subset
  <2>10. w[x] \in Int
         BY <2>4
  <2> HIDE DEF Part, R, p
  <2>11. SumOn(Part(T), A) = Part(T)[p] + SumOn(Part(T), Q) /\ SumOn(Part(T), Q) \in Int
         BY <2>4, <2>8, SumTakesOut
  <2>12. SumOn(Part(R), A) = Part(R)[p] + SumOn(Part(R), Q) /\ SumOn(Part(R), Q) \in Int
         BY <2>4, <2>8, SumTakesOut
  <2>13. SumOn(Part(T), Q) = SumOn(Part(R), Q)
    <3> HIDE DEF Q
    <3>1. \A a \in Q : Part(R)[a] \in Int
          BY <2>8, <2>9
    <3>2. QED
          BY <2>9, <3>1, SumSame
  <2>14. SumOn(w, T) = w[x] + SumOn(w, R)
         BY <2>1, SumTakesOut DEF R
  <2>15. Part(R)[p] \in Int
         BY <2>4, <2>8
  <2> HIDE DEF Q
  <2>16. QED
         BY <2>1, <2>5, <2>7, <2>10, <2>11, <2>12, <2>13, <2>14, <2>15
<1>3. Wrong = {}
  <2>1. Wrong \subseteq SUBSET S
        OBVIOUS
  <2> HIDE DEF Wrong
  <2>2. QED
        BY <1>2, <2>1, SmallestSubset
<1>4. SumOn(w, S) = SumOn(Part(S), A)
      BY <1>3
<1>5. \A a \in A : part[a] = Part(S)[a] /\ Part(S)[a] \in Int
      BY <1>1 DEF SumOfPart
<1> HIDE DEF Part
<1>6. SumOn(part, A) = SumOn(Part(S), A)
      BY <1>5, SumSame
<1>7. QED
      BY <1>4, <1>6

(* Products fold as sums do.                                               *)
LEMMA ProductFolds ==
  ASSUME NEW S, IsFiniteSet(S), NEW w, \A x \in S : w[x] \in Int,
         NEW op, op = [p \in Int \X Int |-> p[1] * p[2]],
         NEW g \in [SUBSET S -> Int], FoldsTo(g, S, w, 1, op)
  PROVE  ProductOn(w, S) = g[S]
<1> DEFINE Fixed(f) == f = [T \in SUBSET S |->
                     IF T = {} THEN 1 ELSE w[Chosen(T)] * f[T \ {Chosen(T)}]]
           iter == CHOOSE f : Fixed(f)
<1>1. ProductOn(w, S) = iter[S]
      BY DEF ProductOn, FoldFunctionOnSet, MapThenFoldSet, Chosen
<1>2. ASSUME NEW T \in SUBSET S, T # {}
      PROVE  /\ Chosen(T) \in T /\ T \ {Chosen(T)} \in SUBSET S /\ w[Chosen(T)] \in Int
             /\ g[T] = w[Chosen(T)] * g[T \ {Chosen(T)}]
  <2>1. Chosen(T) \in T
        BY <1>2 DEF Chosen
  <2>2. T \ {Chosen(T)} \in SUBSET S /\ w[Chosen(T)] \in Int
        BY <2>1
  <2>3. g[T] = op[<<w[Chosen(T)], g[T \ {Chosen(T)}]>>]
        BY <1>2 DEF FoldsTo
  <2>4. g[T \ {Chosen(T)}] \in Int
        BY <2>2
  <2>5. QED
        BY <2>1, <2>2, <2>3, <2>4
<1>3. \A T \in SUBSET S : T = {} => g[T] = 1
      BY DEF FoldsTo
<1>4. Fixed(g)
      BY <1>2, <1>3
<1>5. Fixed(iter)
  <2> HIDE DEF Fixed
  <2>1. QED
        BY <1>4
<1> DEFINE Wrong == {T \in SUBSET S : iter[T] # g[T]}
<1>6. ASSUME NEW T \in Wrong, \A x \in T : T \ {x} \notin Wrong PROVE FALSE
  <2>1. T \in SUBSET S /\ iter[T] # g[T]
        OBVIOUS
  <2> HIDE DEF iter
  <2>2. iter[T] = IF T = {} THEN 1 ELSE w[Chosen(T)] * iter[T \ {Chosen(T)}]
        BY <1>5, <2>1
  <2>3. T # {}
        BY <1>3, <2>1, <2>2
  <2>4. iter[T \ {Chosen(T)}] = g[T \ {Chosen(T)}]
        BY <1>2, <1>6, <2>1, <2>3
  <2>5. QED
        BY <1>2, <2>1, <2>2, <2>3, <2>4
<1>7. Wrong = {}
  <2>1. Wrong \subseteq SUBSET S
        OBVIOUS
  <2> HIDE DEF Wrong
  <2>2. QED
        BY <1>6, <2>1, SmallestSubset
<1>8. QED
      BY <1>1, <1>7

(* The product of no element, and of one element and the others.           *)
LEMMA ProductTakesOut ==
  ASSUME NEW S, IsFiniteSet(S), NEW w, \A x \in S : w[x] \in Int
  PROVE  /\ ProductOn(w, S) \in Int
         /\ S = {} => ProductOn(w, S) = 1
         /\ \A x \in S : /\ ProductOn(w, S \ {x}) \in Int
                         /\ ProductOn(w, S) = w[x] * ProductOn(w, S \ {x})
<1> DEFINE op == [p \in Int \X Int |-> p[1] * p[2]]
<1>1. op \in [Int \X Int -> Int] /\ Commutes(op, Int)
  <2>1. op \in [Int \X Int -> Int] /\ \A a, b \in Int : op[<<a, b>>] = a * b
        OBVIOUS
  <2> HIDE DEF op
  <2>2. ASSUME NEW a \in Int, NEW b \in Int PROVE op[<<a, b>>] = op[<<b, a>>]
    <3>1. op[<<a, b>>] = a * b /\ op[<<b, a>>] = b * a /\ a * b = b * a
          BY <2>1
    <3>2. QED
          BY <3>1
  <2>3. \A a, b, c \in Int : op[<<a, op[<<b, c>>]>>] = op[<<op[<<a, b>>], c>>]
        BY <2>1
  <2>4. QED
        BY <2>1, <2>2, <2>3 DEF Commutes
<1>2. \A a, b \in Int : op[<<a, b>>] = a * b
      OBVIOUS
<1>3. op = [p \in Int \X Int |-> p[1] * p[2]]
      OBVIOUS
<1> HIDE DEF op
<1>4. PICK g \in [SUBSET S -> Int] : FoldsTo(g, S, w, 1, op)
  <2>1. 1 \in Int /\ op \in [Int \X Int -> Int]
        BY <1>1
  <2>2. QED
        BY <2>1, FoldExists
<1>5. ProductOn(w, S) = g[S] /\ g[S] \in Int
      BY <1>3, <1>4, ProductFolds
<1>6. S = {} => g[S] = 1
      BY <1>4 DEF FoldsTo
<1>7. FoldsAnyFirst(g, S, w, op)
  <2>1. 1 \in Int
        OBVIOUS
  <2>2. QED
        BY <1>1, <1>4, <2>1, FoldInAnyOrder
<1>8. ASSUME NEW x \in S
      PROVE  ProductOn(w, S \ {x}) \in Int /\ ProductOn(w, S) = w[x] * ProductOn(w, S \ {x})
  <2> DEFINE R == S \ {x}  h == [T \in SUBSET R |-> g[T]]
  <2>1. R \in SUBSET S /\ IsFiniteSet(R) /\ R \subseteq S
        BY FS_Subset
  <2>2. h \in [SUBSET R -> Int] /\ \A T \in SUBSET R : h[T] = g[T]
        BY <2>1
  <2> HIDE DEF h
  <2>3. FoldsTo(h, R, w, 1, op)
    <3>1. ASSUME NEW T \in SUBSET R
          PROVE  h[T] = IF T = {} THEN 1 ELSE op[<<w[Chosen(T)], h[T \ {Chosen(T)}]>>]
      <4>1. T \in SUBSET S /\ T \ {Chosen(T)} \in SUBSET R
            BY <2>1
      <4>2. g[T] = IF T = {} THEN 1 ELSE op[<<w[Chosen(T)], g[T \ {Chosen(T)}]>>]
            BY <1>4, <4>1 DEF FoldsTo
      <4>3. h[T] = g[T] /\ h[T \ {Chosen(T)}] = g[T \ {Chosen(T)}]
            BY <2>2, <4>1
      <4>4. QED
            BY <4>2, <4>3
    <3>2. QED
          BY <3>1 DEF FoldsTo
  <2>4. ProductOn(w, R) = h[R]
    <3>1. \A y \in R : w[y] \in Int
          BY <2>1
    <3> HIDE DEF R
    <3>2. QED
          BY <1>3, <2>1, <2>2, <2>3, <3>1, ProductFolds, ZenonT(60)
  <2>5. ProductOn(w, R) = g[R] /\ g[R] \in Int
        BY <2>1, <2>2, <2>4
  <2>6. g[S] = op[<<w[x], g[R]>>]
    <3>1. S \in SUBSET S
          OBVIOUS
    <3>2. QED
          BY <1>7, <3>1 DEF FoldsAnyFirst
  <2>7. QED
        BY <1>2, <1>5, <2>5, <2>6
<1>9. QED
      BY <1>5, <1>6, <1>8

-----------------------------------------------------------------------------
(***************************************************************************)
(* Parts of a sequence, entry by entry; the greatest element of a set.     *)
(***************************************************************************)
(* From place i to place j, counted from 0.                                *)
LEMMA AnyPiece ==
  ASSUME NEW s, IsSeq(s), NEW i \in Nat, NEW j \in Nat, i <= j, j <= Len(s)
  PROVE  /\ IsSeq(SubSeq(s, i + 1, j)) /\ Len(SubSeq(s, i + 1, j)) = j - i
         /\ \A k \in 1..j - i : SubSeq(s, i + 1, j)[k] = s[i + k]
<1> DEFINE t == SubSeq(s, i + 1, j)
<1>1. Len(s) \in Nat
      BY AnySeq
<1>2. \A k \in i + 1..j : s[k] \in Entries(s)
      BY <1>1 DEF Entries
<1>3. /\ t \in Seq(Entries(s))
      /\ Len(t) = IF i + 1 <= j THEN j - (i + 1) + 1 ELSE 0
      /\ \A k \in 1..j - (i + 1) + 1 : t[k] = s[i + 1 + k - 1]
  <2> HIDE DEF t
  <2>1. i + 1 \in Int /\ j \in Int
        OBVIOUS
  <2>2. QED
        BY <1>2, <2>1, SubSeqProperties DEF t
<1> HIDE DEF t
<1>4. Len(t) = j - i
      BY <1>3
<1>5. ASSUME NEW k \in 1..j - i PROVE t[k] = s[i + k]
  <2>1. k \in 1..j - (i + 1) + 1 /\ i + 1 + k - 1 = i + k
        OBVIOUS
  <2>2. QED
        BY <1>3, <2>1
<1>6. IsSeq(t)
  <2>1. \A k \in 1..Len(t) : t[k] \in Entries(t)
        BY DEF Entries
  <2>2. t = [k \in 1..Len(t) |-> t[k]] /\ Len(t) \in Nat
        BY <1>3, LenProperties
  <2>3. t \in [1..Len(t) -> Entries(t)]
        BY <2>1, <2>2
  <2>4. QED
        BY <2>2, <2>3, SeqDef DEF IsSeq
<1>7. QED
      BY <1>4, <1>5, <1>6 DEF t

(* A function on 1..n is a sequence.                                       *)
LEMMA AnyListing ==
  ASSUME NEW f, NEW n \in Nat, f = [i \in 1..n |-> f[i]]
  PROVE  IsSeq(f) /\ Len(f) = n
<1>1. f \in Seq(Range(f))
  <2>1. f \in [1..n -> Range(f)]
        BY DEF Range
  <2>2. QED
        BY <2>1, SeqDef
<1>2. Len(f) = n
  <2>1. Len(f) \in Nat /\ DOMAIN f = 1..Len(f)
        BY <1>1, LenProperties
  <2>2. 1..Len(f) = 1..n
        BY <2>1
  <2>3. QED
        BY <2>1, <2>2
<1>3. Range(f) = Entries(f)
      BY <1>2 DEF Range, Entries
<1>4. QED
      BY <1>1, <1>2, <1>3 DEF IsSeq

LEMMA ConcatEach ==
  ASSUME NEW s, IsSeq(s), NEW t, IsSeq(t)
  PROVE  /\ IsSeq(s \o t) /\ Len(s \o t) = Len(s) + Len(t)
         /\ \A k \in 1..Len(s) : (s \o t)[k] = s[k]
         /\ \A k \in 1..Len(t) : (s \o t)[Len(s) + k] = t[k]
<1> DEFINE S == Entries(s) \cup Entries(t)  c == s \o t
<1>1. s \in Seq(S) /\ t \in Seq(S) /\ Len(s) \in Nat /\ Len(t) \in Nat
      BY SeqMonotonic, AnySeq DEF IsSeq
<1>2. \A i \in 1..Len(s) + Len(t) : c[i] = IF i <= Len(s) THEN s[i] ELSE t[i - Len(s)]
      BY <1>1, ConcatProperties
<1>3. IsSeq(c) /\ Len(c) = Len(s) + Len(t)
      BY AnyConcat
<1> HIDE DEF c
<1>4. \A k \in 1..Len(s) : c[k] = s[k]
      BY <1>1, <1>2
<1>5. ASSUME NEW k \in 1..Len(t) PROVE c[Len(s) + k] = t[k]
  <2>1. Len(s) + k \in 1..Len(s) + Len(t) /\ ~(Len(s) + k <= Len(s)) /\ Len(s) + k - Len(s) = k
        BY <1>1
  <2>2. QED
        BY <1>2, <2>1
<1>6. QED
      BY <1>3, <1>4, <1>5 DEF c

LEMMA GreatestElement ==
  ASSUME NEW A, NEW n \in Nat, A \subseteq 0..n, A # {}
  PROVE  Max(A) \in A /\ \A k \in A : k <= Max(A)
<1> DEFINE B == {n - k : k \in A}
<1>1. B \subseteq Nat /\ B # {}
  <2>1. \A k \in A : k \in 0..n /\ n - k \in Nat
        OBVIOUS
  <2>2. B \subseteq Nat
        BY <2>1
  <2>3. QED
        BY <2>2
<1>2. PICK m \in B : \A k \in B : m <= k
      BY <1>1, LeastElement
<1>3. PICK x \in A : m = n - x
      OBVIOUS
<1>4. \A y \in A : x >= y
  <2>1. \A y \in A : m <= n - y
        BY <1>2
  <2>2. QED
        BY <1>3, <2>1
<1>5. \E z \in A : \A y \in A : z >= y
      BY <1>4
<1>6. Max(A) \in A /\ \A y \in A : Max(A) >= y
      BY <1>5 DEF Max
<1>7. QED
      BY <1>6

(* The filter that keeps every entry.                                      *)
LEMMA AllPicked ==
  ASSUME NEW t, NEW s, IsSeq(t), IsSeq(s), Picks(t, s, 1..Len(s))
  PROVE  t = s
<1> DEFINE n == Len(s)  m == Len(t)
<1>1. n \in Nat /\ m \in Nat
      BY AnySeq
<1> HIDE DEF n, m
<1>2. PICK at \in [1..m -> 1..n] :
        /\ \A k \in 1..m : t[k] = s[at[k]]
        /\ \A k, l \in 1..m : k < l => at[k] < at[l]
        /\ \A i \in 1..n : \E k \in 1..m : at[k] = i
      BY DEF Picks, n, m
<1> DEFINE Moved == {k \in 1..m : at[k] # k}
<1>3. ASSUME NEW k \in Moved, \A l \in Moved : k <= l PROVE FALSE
  <2>1. k \in 1..m /\ at[k] \in 1..n /\ at[k] # k
        BY <1>3
  <2>2. \A l \in 1..m : l < k => at[l] = l
        BY <1>1, <1>3
  <2>3. k < at[k]
    <3>1. CASE k = 1
          BY <1>1, <2>1, <3>1
    <3>2. CASE k > 1
      <4>1. k - 1 \in 1..m /\ k - 1 < k
            BY <1>1, <2>1, <3>2
      <4>2. at[k - 1] = k - 1 /\ at[k - 1] < at[k]
            BY <1>2, <2>1, <2>2, <4>1
      <4>3. QED
            BY <1>1, <2>1, <4>1, <4>2
    <3>3. QED
          BY <1>1, <2>1, <3>1, <3>2
  <2>4. k \in 1..n
        BY <1>1, <2>1, <2>3
  <2>5. PICK l \in 1..m : at[l] = k
        BY <1>2, <2>4
  <2>6. CASE l < k
        BY <1>1, <2>1, <2>2, <2>5, <2>6
  <2>7. CASE l = k
        BY <2>1, <2>5, <2>7
  <2>8. CASE k < l
    <3>1. at[k] < at[l]
          BY <1>2, <2>1, <2>8
    <3>2. QED
          BY <1>1, <2>1, <2>3, <2>5, <3>1
  <2>9. QED
        BY <1>1, <2>1, <2>6, <2>7, <2>8
<1>4. Moved = {}
      BY <1>1, <1>3, LeastElement, Moved \subseteq Nat
<1>5. \A k \in 1..m : at[k] = k
      BY <1>4
<1>6. m = n
  <2>1. \A k \in 1..m : k \in 1..n
        BY <1>5
  <2>2. \A i \in 1..n : i \in 1..m
        BY <1>2, <1>5
  <2>3. m <= n
    <3>1. CASE m = 0
          BY <1>1, <3>1
    <3>2. CASE m # 0
      <4>1. m \in 1..m
            BY <1>1, <3>2
      <4>2. m \in 1..n
            BY <2>1, <4>1
      <4>3. QED
            BY <1>1, <4>2
    <3>3. QED
          BY <3>1, <3>2
  <2>4. n <= m
    <3>1. CASE n = 0
          BY <1>1, <3>1
    <3>2. CASE n # 0
      <4>1. n \in 1..n
            BY <1>1, <3>2
      <4>2. n \in 1..m
            BY <2>2, <4>1
      <4>3. QED
            BY <1>1, <4>2
    <3>3. QED
          BY <3>1, <3>2
  <2>5. QED
        BY <1>1, <2>3, <2>4
<1>7. QED
      BY <1>2, <1>5, <1>6, AnyEqual DEF n, m
=============================================================================
