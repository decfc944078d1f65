------------------------- MODULE PostProcessingProofs -------------------------
(***************************************************************************)
(* Theorems about RunnerPostProcessing.run, for every gazetteer, every     *)
(* sample and every configuration of the flags.                            *)
(***************************************************************************)
EXTENDS PostProcessing, CombinationsProofs

-----------------------------------------------------------------------------
(***************************************************************************)
(* Matches.  What is generated for a suggestion has the base score.        *)
(***************************************************************************)
IsMatch(m) ==
  /\ m = [start |-> m.start, end |-> m.end, key |-> m.key, origin |-> m.origin, dist |-> m.dist,
          crf |-> m.crf, flags |-> m.flags, final |-> m.final, code |-> m.code, sep |-> m.sep]
  /\ m.start \in Int /\ m.end \in Int /\ m.dist \in Nat
  /\ m.crf \in 0..100 /\ m.final \in {0} \cup DOMAIN Logit
  /\ Generated(m) => m.crf = SuggestionScore

IsList(s) == IsSeq(s) /\ \A k \in 1..Len(s) : IsMatch(s[k])

(* x is y with other flags, which are the same as far as W tells.          *)
Grown(x, y, W) ==
  /\ x.start = y.start /\ x.end = y.end /\ x.key = y.key /\ x.origin = y.origin
  /\ x.dist = y.dist /\ x.crf = y.crf
  /\ \A w \in W : w \in x.flags <=> w \in y.flags

(* The matches of s are those of r, in any order, but for their flags.     *)
Regrown(s, r, W) ==
  /\ \A x \in Entries(s) : \E y \in Entries(r) : Grown(x, y, W)
  /\ \A y \in Entries(r) : \E x \in Entries(s) : Grown(x, y, W)

LEMMA RegrownTwice ==
  ASSUME NEW W, NEW V, NEW r, NEW s, NEW t, Regrown(s, r, W), Regrown(t, s, V)
  PROVE  Regrown(t, r, W \cap V)
<1>1. ASSUME NEW x, NEW y, NEW z, Grown(y, z, W), Grown(x, y, V) PROVE Grown(x, z, W \cap V)
      BY <1>1 DEF Grown
<1>2. ASSUME NEW x \in Entries(t) PROVE \E z \in Entries(r) : Grown(x, z, W \cap V)
  <2>1. PICK y \in Entries(s) : Grown(x, y, V)
        BY DEF Regrown
  <2>2. PICK z \in Entries(r) : Grown(y, z, W)
        BY DEF Regrown
  <2>3. QED
        BY <1>1, <2>1, <2>2
<1>3. ASSUME NEW z \in Entries(r) PROVE \E x \in Entries(t) : Grown(x, z, W \cap V)
  <2>1. PICK y \in Entries(s) : Grown(y, z, W)
        BY DEF Regrown
  <2>2. PICK x \in Entries(t) : Grown(x, y, V)
        BY DEF Regrown
  <2>3. QED
        BY <1>1, <2>1, <2>2
<1>4. QED
      BY <1>2, <1>3 DEF Regrown

-----------------------------------------------------------------------------
(* The largest of some numbers up to N.                                    *)
LEMMA MaxOfSome ==
  ASSUME NEW N \in Nat, NEW S, S \subseteq 0..N, S # {}
  PROVE  Max(S) \in S /\ \A y \in S : Max(S) >= y
<1> DEFINE Below == {n \in 0..N : N - n \in S}
<1>1. PICK s \in S : s \in 0..N
      OBVIOUS
<1>2. N - s \in Below
  <2>1. N - s \in 0..N /\ N - (N - s) = s
        BY <1>1
  <2>2. QED
        BY <2>1
<1>3. \A n \in Below : n \in 0..N /\ N - n \in S
      OBVIOUS
<1>4. \A y \in S : y \in 0..N /\ N - y \in Below
  <2>1. \A y \in 0..N : N - y \in 0..N /\ N - (N - y) = y
        OBVIOUS
  <2>2. QED
        BY <2>1
<1>5. Below \subseteq Nat
      OBVIOUS
<1> HIDE DEF Below
<1>6. PICK n \in Below : \A k \in Below : n <= k
      BY <1>2, <1>5, LeastElement
<1>7. \A y \in S : N - n >= y
      BY <1>3, <1>4, <1>6
<1>8. \E p \in S : \A y \in S : p >= y
      BY <1>3, <1>7
<1>9. QED
      BY <1>8 DEF Max

(* The grid of the scores: percentages, the thresholds among them.         *)
LEMMA GridOfScores ==
  /\ DOMAIN Logit \subseteq 1..99
  /\ SuggestionScore \in DOMAIN Logit
  /\ \A x : Logistic(x) \in {0} \cup DOMAIN Logit
<1> DEFINE odds == <<10, 15, 20, 25, 33, 40, 50, 60, 66, 75, 80, 85, 90, 95, 99>>
<1>1. DOMAIN Logit = {odds[i] : i \in 1..15}
      BY DEF Logit
<1>2. \A i \in 1..15 : odds[i] \in 1..99
      OBVIOUS
<1>3. odds[14] = 95
      OBVIOUS
<1> HIDE DEF odds
<1>4. DOMAIN Logit \subseteq 1..99 /\ 95 \in DOMAIN Logit
      BY <1>1, <1>2, <1>3
<1>5. ASSUME NEW x PROVE Logistic(x) \in {0} \cup DOMAIN Logit
  <2> DEFINE S == {0} \cup {p \in DOMAIN Logit : Logit[p] <= x}
  <2>1. S \subseteq 0..99 /\ S # {}
        BY <1>4
  <2>2. Logistic(x) = Max(S)
        BY DEF Logistic
  <2> HIDE DEF S
  <2>3. Max(S) \in S
        BY <2>1, MaxOfSome
  <2>4. QED
        BY <2>2, <2>3 DEF S
<1>6. QED
      BY <1>4, <1>5 DEF SuggestionScore

-----------------------------------------------------------------------------
(***************************************************************************)
(* Flags.                                                                  *)
(***************************************************************************)
LEMMA FlagsAdded ==
  ASSUME NEW m, IsMatch(m), NEW F, NEW W, "GENERATED_BY_SUGGESTED_COUNTRY" \notin F, W \cap F = {}
  PROVE  /\ IsMatch(AddFlags(m, F)) /\ Grown(AddFlags(m, F), m, W)
         /\ AddFlags(m, F).flags = m.flags \cup F
<1> DEFINE n == AddFlags(m, F)
<1>1. n = [start |-> m.start, end |-> m.end, key |-> m.key, origin |-> m.origin, dist |-> m.dist,
           crf |-> m.crf, flags |-> m.flags \cup F, final |-> m.final, code |-> m.code, sep |-> m.sep]
      BY DEF IsMatch, AddFlags
<1> HIDE DEF n
<1>2. /\ n = [start |-> n.start, end |-> n.end, key |-> n.key, origin |-> n.origin, dist |-> n.dist,
              crf |-> n.crf, flags |-> n.flags, final |-> n.final, code |-> n.code, sep |-> n.sep]
      /\ n.start = m.start /\ n.end = m.end /\ n.key = m.key /\ n.origin = m.origin
      /\ n.dist = m.dist /\ n.crf = m.crf /\ n.flags = m.flags \cup F /\ n.final = m.final
      BY <1>1
<1>3. Generated(n) <=> Generated(m)
      BY <1>2 DEF Generated
<1>4. IsMatch(n)
      BY <1>2, <1>3 DEF IsMatch
<1>5. Grown(n, m, W)
      BY <1>2 DEF Grown
<1>6. QED
      BY <1>2, <1>4, <1>5 DEF n

(* t is s with flags added in place, none of them in W.                    *)
Flagged(t, s, W) ==
  /\ DOMAIN t = DOMAIN s /\ t = [k \in DOMAIN s |-> t[k]]
  /\ \A k \in DOMAIN s : \E F : /\ t[k] = AddFlags(s[k], F) /\ W \cap F = {}
                                /\ "GENERATED_BY_SUGGESTED_COUNTRY" \notin F

LEMMA FlaggedList ==
  ASSUME NEW s, IsList(s), NEW t, NEW W, Flagged(t, s, W)
  PROVE  IsList(t) /\ Len(t) = Len(s) /\ Regrown(t, s, W)
         /\ \A k \in 1..Len(s) : Grown(t[k], s[k], W) /\ s[k].flags \subseteq t[k].flags
<1>1. Len(s) \in Nat /\ DOMAIN s = 1..Len(s) /\ \A k \in 1..Len(s) : IsMatch(s[k])
      BY AnySeq DEF IsList
<1>2. IsSeq(t) /\ Len(t) = Len(s)
      BY <1>1, GivenByEntries DEF Flagged
<1>3. ASSUME NEW k \in 1..Len(s)
      PROVE  IsMatch(t[k]) /\ Grown(t[k], s[k], W) /\ s[k].flags \subseteq t[k].flags
  <2>1. PICK F : /\ t[k] = AddFlags(s[k], F) /\ W \cap F = {}
                 /\ "GENERATED_BY_SUGGESTED_COUNTRY" \notin F
        BY <1>1 DEF Flagged
  <2>2. IsMatch(s[k])
        BY <1>1
  <2>3. /\ IsMatch(AddFlags(s[k], F)) /\ Grown(AddFlags(s[k], F), s[k], W)
        /\ AddFlags(s[k], F).flags = s[k].flags \cup F
        BY <2>1, <2>2, FlagsAdded
  <2>4. QED
        BY <2>1, <2>3
<1>4. QED
      BY <1>2, <1>3 DEF IsList, Regrown, Entries

(* The flags that the properties speak of.                                 *)
Watched == {"COUNTRY_IS_PRESENT", "TOWN_IS_PRESENT", "IS_FROM_EXTENDED_DATA",
            "GENERATED_BY_SUGGESTED_COUNTRY"}

(* The flags of the country head, of which a match has one at most.        *)
HeadRanks == {"MLP_STRONGLY_AGREES", "MLP_AGREES", "MLP_DOESNT_DISAGREE"}
OneOfHead(F) == \A g, h \in HeadRanks : g \in F /\ h \in F => g = h

LEMMA TownFlagsAreAdded ==
  ASSUME NEW s, NEW smp
  PROVE  Flagged(TownFlags(s, smp), s, Watched)
<1> DEFINE F(m) == SeparatorTypo(m) \cup PopulationFlags(m) \cup InsideStreet(m, smp)
<1>1. TownFlags(s, smp) = [k \in DOMAIN s |-> AddFlags(s[k], F(s[k]))]
      BY DEF TownFlags, FlagEach
<1>2. \A m : F(m) \subseteq {"IS_SEPARATOR_TYPO", "IS_INSIDE_STREET", "IS_METROPOLIS", "IS_SMALL_TOWN",
                             "IS_NOT_LARGEST_TOWN_WITH_NAME"}
      BY DEF SeparatorTypo, PopulationFlags, InsideStreet, FlagIf
<1>3. \A m : Watched \cap F(m) = {} /\ "GENERATED_BY_SUGGESTED_COUNTRY" \notin F(m)
  <2> HIDE DEF F
  <2>1. QED
        BY <1>2 DEF Watched
<1> HIDE DEF F
<1>4. QED
      BY <1>1, <1>3 DEF Flagged

LEMMA CountryFlagsAreAdded ==
  ASSUME NEW s, NEW smp \in Samples
  PROVE  Flagged(CountryFlags(s, smp), s, Watched)
<1> DEFINE F(m) == SeparatorTypo(m) \cup InsideStreet(m, smp) \cup ProvinceFlags(m)
                     \cup HeadFlags(m, smp) \cup Evidence(m, smp)
<1>1. CountryFlags(s, smp) = [k \in DOMAIN s |-> AddFlags(s[k], F(s[k]))]
      BY DEF CountryFlags, FlagEach
<1>2. \A m : SeparatorTypo(m) \cup InsideStreet(m, smp) \subseteq {"IS_SEPARATOR_TYPO", "IS_INSIDE_STREET"}
      BY DEF SeparatorTypo, InsideStreet, FlagIf
<1>3. \A m : ProvinceFlags(m) \subseteq {"IS_COMMON_STATE_PROVINCE_ALIAS", "IS_UNCOMMON_STATE_PROVINCE_ALIAS"}
      BY DEF ProvinceFlags, FlagIf
<1>4. \A m : HeadFlags(m, smp) \subseteq {"MLP_STRONGLY_AGREES", "MLP_AGREES", "MLP_DOESNT_DISAGREE"}
      BY DEF HeadFlags, FlagIf
<1>5. \A m : Evidence(m, smp) \subseteq {"IBAN_IS_PRESENT", "PHONE_PREFIX_IS_PRESENT",
                                         "DOMAIN_IS_PRESENT", "POSTAL_CODE_IS_PRESENT"}
      BY SamplesAssumption DEF Evidence
<1>6. ASSUME NEW m PROVE Watched \cap F(m) = {} /\ "GENERATED_BY_SUGGESTED_COUNTRY" \notin F(m)
  <2> DEFINE a == SeparatorTypo(m) \cup InsideStreet(m, smp)  b == ProvinceFlags(m)
             c == HeadFlags(m, smp)  d == Evidence(m, smp)
  <2>1. \A w \in Watched : w \notin a /\ w \notin b /\ w \notin c /\ w \notin d
    <3> HIDE DEF a, b, c, d
    <3>1. a \subseteq {"IS_SEPARATOR_TYPO", "IS_INSIDE_STREET"}
          BY <1>2 DEF a
    <3>2. b \subseteq {"IS_COMMON_STATE_PROVINCE_ALIAS", "IS_UNCOMMON_STATE_PROVINCE_ALIAS"}
          BY <1>3 DEF b
    <3>3. c \subseteq {"MLP_STRONGLY_AGREES", "MLP_AGREES", "MLP_DOESNT_DISAGREE"}
          BY <1>4 DEF c
    <3>4. d \subseteq {"IBAN_IS_PRESENT", "PHONE_PREFIX_IS_PRESENT",
                       "DOMAIN_IS_PRESENT", "POSTAL_CODE_IS_PRESENT"}
          BY <1>5 DEF d
    <3>5. QED
          BY <3>1, <3>2, <3>3, <3>4 DEF Watched
  <2>2. F(m) = a \cup b \cup c \cup d
        OBVIOUS
  <2> HIDE DEF a, b, c, d, F
  <2>3. QED
        BY <2>1, <2>2 DEF Watched
<1> HIDE DEF F
<1>7. QED
      BY <1>1, <1>6 DEF Flagged

LEMMA InclusionIsAdded ==
  ASSUME NEW s, NEW larger
  PROVE  Flagged(WithInclusion(s, larger), s, Watched) /\ Flagged(WithInclusion(s, larger), s, HeadRanks)
<1> DEFINE Around(i) == {j \in DOMAIN larger : Larger(larger[j], s[i])}
           F(i) == FlagIf(\E j \in Around(i) : i <= j /\ larger[j].dist < 1,
                          "IS_INSIDE_ANOTHER_LOWER_RANKED_MATCH")
                   \cup FlagIf(\E j \in Around(i) : i > j, "IS_INSIDE_ANOTHER_HIGHER_RANKED_MATCH")
<1>1. WithInclusion(s, larger) = [k \in DOMAIN s |-> AddFlags(s[k], F(k))]
      BY DEF WithInclusion
<1>2. \A i : F(i) \subseteq {"IS_INSIDE_ANOTHER_LOWER_RANKED_MATCH", "IS_INSIDE_ANOTHER_HIGHER_RANKED_MATCH"}
  <2> HIDE DEF Around
  <2>1. QED
        BY DEF FlagIf
<1> HIDE DEF F
<1>3. \A i : /\ Watched \cap F(i) = {} /\ HeadRanks \cap F(i) = {}
             /\ "GENERATED_BY_SUGGESTED_COUNTRY" \notin F(i)
      BY <1>2 DEF Watched, HeadRanks
<1>4. QED
      BY <1>1, <1>3 DEF Flagged

LEMMA PositionsAreAdded ==
  ASSUME NEW s, NEW smp
  PROVE  LET t == [k \in DOMAIN s |-> AddFlags(s[k], PositionFlags(s[k], smp))] IN
         Flagged(t, s, Watched) /\ Flagged(t, s, HeadRanks)
<1>1. \A m : PositionFlags(m, smp) \subseteq {"IS_SHORT", "IS_IN_FIRST_THIRD", "IS_IN_LAST_THIRD"}
      BY DEF PositionFlags, FlagIf
<1>2. \A m : /\ Watched \cap PositionFlags(m, smp) = {} /\ HeadRanks \cap PositionFlags(m, smp) = {}
             /\ "GENERATED_BY_SUGGESTED_COUNTRY" \notin PositionFlags(m, smp)
      BY <1>1 DEF Watched, HeadRanks
<1>3. QED
      BY <1>2 DEF Flagged

LEMMA MistakesAreAdded ==
  ASSUME NEW s, NEW predictions
  PROVE  /\ Flagged(ReasonableMistakes(s, predictions), s, Watched)
         /\ Flagged(ReasonableMistakes(s, predictions), s, HeadRanks)
<1> DEFINE F(m) == FlagIf(\E p \in predictions : m.start = m.end \/ <<m.start, m.end>> \in p,
                          "COULD_BE_REASONABLE_MISTAKE")
<1>1. ReasonableMistakes(s, predictions) = [k \in DOMAIN s |-> AddFlags(s[k], F(s[k]))]
      BY DEF ReasonableMistakes, FlagEach
<1>2. \A m : F(m) \subseteq {"COULD_BE_REASONABLE_MISTAKE"}
      BY DEF FlagIf
<1> HIDE DEF F
<1>3. \A m : /\ Watched \cap F(m) = {} /\ HeadRanks \cap F(m) = {}
             /\ "GENERATED_BY_SUGGESTED_COUNTRY" \notin F(m)
      BY <1>2 DEF Watched, HeadRanks
<1>4. QED
      BY <1>1, <1>3 DEF Flagged

LEMMA AloneIsAdded ==
  ASSUME NEW s, NEW smp
  PROVE  Flagged(AloneOnLine(s, smp), s, Watched)
<1> DEFINE Line(m) == {p \in 0..smp.length - 1 \ Span(m) :
                         \A q \in smp.newlines : (q < m.start => p > q) /\ (q >= m.end => p < q)}
           F(m) == FlagIf(Line(m) \subseteq smp.blanks, "IS_ALONE_ON_LINE")
<1>1. AloneOnLine(s, smp) = [k \in DOMAIN s |-> AddFlags(s[k], F(s[k]))]
      BY DEF AloneOnLine, FlagEach
<1>2. \A m : F(m) \subseteq {"IS_ALONE_ON_LINE"}
  <2> HIDE DEF Line
  <2>1. QED
        BY DEF FlagIf
<1> HIDE DEF F
<1>3. \A m : Watched \cap F(m) = {} /\ "GENERATED_BY_SUGGESTED_COUNTRY" \notin F(m)
      BY <1>2 DEF Watched
<1>4. QED
      BY <1>1, <1>3 DEF Flagged

LEMMA PostcodesAreAdded ==
  ASSUME NEW s, NEW smp
  PROVE  Flagged(PostcodeFlags(s, smp), s, Watched)
<1> DEFINE F(m) == FlagIf(\E p \in smp.postcodes : p.origin = m.origin /\ m.key \in PostcodeAliases[p.key],
                          "POSTCODE_FOR_TOWN_FOUND")
<1>1. PostcodeFlags(s, smp) = [k \in DOMAIN s |-> AddFlags(s[k], F(s[k]))]
      BY DEF PostcodeFlags, FlagEach
<1>2. \A m : F(m) \subseteq {"POSTCODE_FOR_TOWN_FOUND"}
      BY DEF FlagIf
<1> HIDE DEF F
<1>3. \A m : Watched \cap F(m) = {} /\ "GENERATED_BY_SUGGESTED_COUNTRY" \notin F(m)
      BY <1>2 DEF Watched
<1>4. QED
      BY <1>1, <1>3 DEF Flagged

(* add_relationship_flags says which countries and towns support each      *)
(* other.                                                                  *)
SupportedTowns(r, t, c) ==
  \A k \in DOMAIN t : \E F : /\ r[k] = AddFlags(t[k], F)
                             /\ "COUNTRY_IS_PRESENT" \in F <=> \E m \in Entries(c) : PairIsValid(t[k], m)

LEMMA TownRelationsAreAdded ==
  ASSUME NEW t, NEW c, IsSeq(c), NEW smp, NEW r, r = TownRelations(t, c, smp)
  PROVE  Flagged(r, t, Watched \ {"COUNTRY_IS_PRESENT"}) /\ SupportedTowns(r, t, c)
<1> DEFINE All == {c[i] : i \in DOMAIN c}
           Partners(m) == {x \in All : PairIsValid(m, x)}
           A(m) == FlagIf(Partners(m) # {}, "COUNTRY_IS_PRESENT")
           B(m) == FlagIf(\E x \in Partners(m) : IsSuggestion(x), "SUGGESTED_COUNTRY_IS_PRESENT")
           C(m) == FlagIf(\E x \in Partners(m) : IsClose(m, x), "IS_VERY_CLOSE_TO_COUNTRY")
           D(m) == FlagIf(\E x \in Partners(m) : OnSameLine(m, x, smp), "IS_ON_SAME_LINE_AS_COUNTRY")
           E(m) == FlagIf(CountryHead(smp) = m.origin, "MLP_COUNTRY_IS_PRESENT")
           F(m) == A(m) \cup B(m) \cup C(m) \cup D(m) \cup E(m)
<1>1. r = [k \in DOMAIN t |-> AddFlags(t[k], F(t[k]))]
      BY DEF TownRelations, FlagEach
<1>2. All = Entries(c)
      BY AnySeq DEF Entries
<1>3. \A m : "COUNTRY_IS_PRESENT" \in A(m) <=> \E x \in Entries(c) : PairIsValid(m, x)
      BY <1>2 DEF FlagIf
<1>4. \A m : /\ A(m) \subseteq {"COUNTRY_IS_PRESENT"} /\ B(m) \subseteq {"SUGGESTED_COUNTRY_IS_PRESENT"}
             /\ C(m) \subseteq {"IS_VERY_CLOSE_TO_COUNTRY"} /\ D(m) \subseteq {"IS_ON_SAME_LINE_AS_COUNTRY"}
             /\ E(m) \subseteq {"MLP_COUNTRY_IS_PRESENT"}
  <2> HIDE DEF Partners
  <2>1. QED
        BY DEF FlagIf
<1>5. \A m : F(m) = A(m) \cup B(m) \cup C(m) \cup D(m) \cup E(m)
      OBVIOUS
<1> HIDE DEF A, B, C, D, E, F
<1>6. \A m : /\ (Watched \ {"COUNTRY_IS_PRESENT"}) \cap F(m) = {}
             /\ "GENERATED_BY_SUGGESTED_COUNTRY" \notin F(m)
             /\ "COUNTRY_IS_PRESENT" \in F(m) <=> \E x \in Entries(c) : PairIsValid(m, x)
      BY <1>3, <1>4, <1>5 DEF Watched
<1>7. QED
      BY <1>1, <1>6 DEF Flagged, SupportedTowns

(* Towns of the extended data do not speak for their country.              *)
Speaks(t, c) == PairIsValid(t, c) /\ "IS_FROM_EXTENDED_DATA" \notin t.flags

SupportedCountries(r, c, t) ==
  \A k \in DOMAIN c : \E F : /\ r[k] = AddFlags(c[k], F)
                             /\ "TOWN_IS_PRESENT" \in F <=> \E x \in Entries(t) : Speaks(x, c[k])

LEMMA CountryRelationsAreAdded ==
  ASSUME NEW c, NEW t, IsSeq(t), NEW smp, NEW r, r = CountryRelations(c, t, smp)
  PROVE  /\ Flagged(r, c, Watched \ {"TOWN_IS_PRESENT"}) /\ Flagged(r, c, HeadRanks)
         /\ SupportedCountries(r, c, t)
<1> DEFINE All == {t[i] : i \in DOMAIN t}
           Partners(m) == {x \in All : Speaks(x, m)}
           A(m) == FlagIf(Partners(m) # {}, "TOWN_IS_PRESENT")
           B(m) == FlagIf(\E x \in Partners(m) : IsClose(x, m), "IS_VERY_CLOSE_TO_TOWN")
           C(m) == FlagIf(\E x \in Partners(m) : OnSameLine(x, m, smp), "IS_ON_SAME_LINE_AS_TOWN")
           F(m) == A(m) \cup B(m) \cup C(m)
<1>1. r = [k \in DOMAIN c |-> AddFlags(c[k], F(c[k]))]
      BY DEF CountryRelations, FlagEach, Speaks
<1>2. All = Entries(t)
      BY AnySeq DEF Entries
<1>3. \A m : "TOWN_IS_PRESENT" \in A(m) <=> \E x \in Entries(t) : Speaks(x, m)
  <2>1. QED
        BY <1>2 DEF FlagIf
<1>4. \A m : /\ A(m) \subseteq {"TOWN_IS_PRESENT"} /\ B(m) \subseteq {"IS_VERY_CLOSE_TO_TOWN"}
             /\ C(m) \subseteq {"IS_ON_SAME_LINE_AS_TOWN"}
  <2> HIDE DEF Partners
  <2>1. QED
        BY DEF FlagIf
<1>5. \A m : F(m) = A(m) \cup B(m) \cup C(m)
      OBVIOUS
<1> HIDE DEF A, B, C, F
<1>6. \A m : /\ (Watched \ {"TOWN_IS_PRESENT"}) \cap F(m) = {} /\ HeadRanks \cap F(m) = {}
             /\ "GENERATED_BY_SUGGESTED_COUNTRY" \notin F(m)
             /\ "TOWN_IS_PRESENT" \in F(m) <=> \E x \in Entries(t) : Speaks(x, m)
  <2>1. QED
        BY <1>3, <1>4, <1>5 DEF Watched, HeadRanks
<1>7. QED
      BY <1>1, <1>6 DEF Flagged, SupportedCountries

-----------------------------------------------------------------------------
(***************************************************************************)
(* Lists of matches: sorted, filtered, one after the other.                *)
(***************************************************************************)
LEMMA MatchNumbers ==
  ASSUME NEW m, IsMatch(m)
  PROVE  m.start \in Int /\ m.end \in Int /\ m.dist \in Int /\ m.crf \in Int /\ m.final \in Int
<1>1. m.final \in {0} \cup DOMAIN Logit /\ m.crf \in 0..100
      BY DEF IsMatch
<1>2. m.start \in Int /\ m.end \in Int /\ m.dist \in Int
      BY DEF IsMatch
<1>3. m.final \in Int
      BY <1>1, GridOfScores
<1>4. m.crf \in Int
      BY <1>1
<1>5. QED
      BY <1>2, <1>3, <1>4

LEMMA RegrownByItself == ASSUME NEW s, NEW W PROVE Regrown(s, s, W)
  BY DEF Regrown, Grown

LEMMA FewerWatched ==
  ASSUME NEW s, NEW r, NEW W, NEW V, V \subseteq W, Regrown(s, r, W)
  PROVE  Regrown(s, r, V)
<1>1. W \cap V = V
      OBVIOUS
<1>2. Regrown(r, r, V)
      BY RegrownByItself
<1>3. Regrown(s, r, V \cap W)
      BY <1>2, RegrownTwice
<1>4. V \cap W = V
      OBVIOUS
<1>5. QED
      BY <1>3, <1>4

LEMMA EntriesMatch ==
  ASSUME NEW s
  PROVE  IsList(s) <=> IsSeq(s) /\ \A x \in Entries(s) : IsMatch(x)
  BY DEF IsList, Entries

LEMMA SomeAreKept ==
  ASSUME NEW s, IsList(s), NEW I, I \subseteq DOMAIN s
  PROVE  IsList(Kept(s, I)) /\ Entries(Kept(s, I)) = {s[i] : i \in I}
<1> DEFINE t == Kept(s, I)
<1>1. IsSeq(s) /\ DOMAIN s = 1..Len(s) /\ \A k \in 1..Len(s) : IsMatch(s[k])
      BY AnySeq DEF IsList
<1>2. I \cap (1..Len(s)) = I
      BY <1>1
<1>3. IsSeq(t) /\ Picks(t, s, I)
      BY <1>1, <1>2, KeptPicks
<1> HIDE DEF t
<1>4. PICK at \in [1..Len(t) -> I] :
        /\ \A k \in 1..Len(t) : t[k] = s[at[k]]
        /\ \A i \in I : \E k \in 1..Len(t) : at[k] = i
      BY <1>3 DEF Picks
<1>5. Entries(t) = {s[i] : i \in I}
  <2>1. Entries(t) \subseteq {s[i] : i \in I}
        BY <1>4 DEF Entries
  <2>2. ASSUME NEW i \in I PROVE s[i] \in Entries(t)
    <3>1. PICK k \in 1..Len(t) : at[k] = i
          BY <1>4
    <3>2. QED
          BY <1>4, <3>1 DEF Entries
  <2>3. QED
        BY <2>1, <2>2
<1>6. \A x \in Entries(t) : IsMatch(x)
      BY <1>1, <1>5
<1>7. QED
      BY <1>3, <1>5, <1>6, EntriesMatch DEF t

LEMMA OneAfterTheOther ==
  ASSUME NEW s, IsList(s), NEW t, IsList(t)
  PROVE  IsList(s \o t) /\ Entries(s \o t) = Entries(s) \cup Entries(t)
<1>1. IsSeq(s) /\ IsSeq(t)
      BY DEF IsList
<1>2. IsSeq(s \o t) /\ Entries(s \o t) = Entries(s) \cup Entries(t)
      BY <1>1, AnyConcat
<1>3. QED
      BY <1>2, EntriesMatch

Higher(a, b) == a.dist < b.dist \/ (a.dist = b.dist /\ a.crf > b.crf)

LEMMA RankedIsASort ==
  ASSUME NEW s, IsList(s), NEW r, r = Ranked(s)
  PROVE  /\ IsList(r) /\ Entries(r) = Entries(s)
         /\ \A k, l \in 1..Len(r) : Higher(r[k], r[l]) => k < l
<1> DEFINE D == 1..Len(s)
           Nearer(j, i) == \/ s[j].dist < s[i].dist
                           \/ s[j].dist = s[i].dist /\ (s[j].crf > s[i].crf \/ (s[j].crf = s[i].crf /\ j < i))
           Before(i) == LET b == s[i] IN {j \in DOMAIN s : LET a == s[j] IN
                          \/ a.dist < b.dist
                          \/ a.dist = b.dist /\ (a.crf > b.crf \/ (a.crf = b.crf /\ j < i))}
           before == [i \in DOMAIN s |-> Before(i)]
           order == Arranged(before)
<1>1. /\ Len(s) \in Nat /\ DOMAIN s = D
      /\ \A k \in D : IsMatch(s[k]) /\ s[k].dist \in Int /\ s[k].crf \in Int
  <2>1. \A k \in D : IsMatch(s[k])
        BY DEF IsList
  <2>2. \A k \in D : s[k].dist \in Int /\ s[k].crf \in Int
        BY <2>1, MatchNumbers
  <2>3. Len(s) \in Nat /\ DOMAIN s = D
        BY AnySeq DEF IsList
  <2>4. QED
        BY <2>1, <2>2, <2>3
<1>2. \A i, j \in D : j \in before[i] <=> Nearer(j, i)
      BY <1>1
<1>3. \A i \in D : before[i] \subseteq D
      BY <1>1
<1>4. r = [k \in DOMAIN order |-> s[order[k]]]
      BY DEF Ranked
<1>5. D = DOMAIN before
      BY <1>1
<1> HIDE DEF before
<1>6. Orders(before, D)
  <2>1. IsFiniteSet(D)
        BY <1>1, FS_Interval
  <2>2. \A x \in D : x \notin before[x]
        BY <1>1, <1>2
  <2>3. ASSUME NEW x \in D, NEW y \in D, x \in before[y] PROVE before[x] \subseteq before[y]
    <3>1. ASSUME NEW z \in before[x] PROVE z \in before[y]
      <4>1. z \in D
            BY <1>3, <3>1
      <4>2. Nearer(x, y) /\ Nearer(z, x)
            BY <1>2, <2>3, <3>1, <4>1
      <4>3. /\ s[x].dist \in Int /\ s[y].dist \in Int /\ s[z].dist \in Int
            /\ s[x].crf \in Int /\ s[y].crf \in Int /\ s[z].crf \in Int
            BY <1>1, <4>1
      <4>4. Nearer(z, y)
            BY <1>1, <4>1, <4>2, <4>3, SMTT(40)
      <4>5. QED
            BY <1>2, <4>1, <4>4
    <3>2. QED
          BY <3>1
  <2>4. ASSUME NEW x \in D, NEW y \in D, x # y PROVE x \in before[y] \/ y \in before[x]
    <3>1. s[x].dist \in Int /\ s[y].dist \in Int /\ s[x].crf \in Int /\ s[y].crf \in Int
          BY <1>1
    <3>2. Nearer(x, y) \/ Nearer(y, x)
          BY <1>1, <2>4, <3>1
    <3>3. QED
          BY <1>2, <3>2
  <2>5. QED
        BY <1>3, <1>5, <2>1, <2>2, <2>3, <2>4 DEF Orders
<1>7. /\ order \in [1..Len(order) -> D] /\ IsSeq(order)
      /\ \A x \in D : \E k \in 1..Len(order) : order[k] = x
      /\ \A k, l \in 1..Len(order) : k < l => order[k] \in before[order[l]]
      BY <1>6, ArrangedInOrder
<1> HIDE DEF order
<1>8. /\ DOMAIN r = 1..Len(order) /\ Len(order) \in Nat
      /\ \A k \in 1..Len(order) : r[k] = s[order[k]] /\ order[k] \in D
  <2>1. Len(order) \in Nat /\ DOMAIN order = 1..Len(order)
        BY <1>7, AnySeq
  <2>2. QED
        BY <1>4, <1>7, <2>1
<1>9. IsSeq(r) /\ Len(r) = Len(order)
      BY <1>4, <1>8, GivenByEntries
<1>10. Entries(r) = Entries(s)
  <2>1. Entries(r) \subseteq Entries(s)
        BY <1>8, <1>9 DEF Entries
  <2>2. ASSUME NEW i \in D PROVE s[i] \in Entries(r)
    <3>1. PICK k \in 1..Len(order) : order[k] = i
          BY <1>7
    <3>2. QED
          BY <1>8, <1>9, <3>1 DEF Entries
  <2>3. QED
        BY <2>1, <2>2 DEF Entries
<1>11. ASSUME NEW k \in 1..Len(r), NEW l \in 1..Len(r), Higher(r[k], r[l]) PROVE k < l
  <2> DEFINE x == order[k]  y == order[l]
  <2>1. x \in D /\ y \in D /\ r[k] = s[x] /\ r[l] = s[y]
        BY <1>8, <1>9
  <2>2. /\ s[x].dist \in Int /\ s[y].dist \in Int /\ s[x].crf \in Int /\ s[y].crf \in Int
        /\ x \in Int /\ y \in Int
        BY <1>1, <2>1
  <2> HIDE DEF x, y
  <2>3. ~Nearer(y, x) /\ x # y
    <3>1. \/ s[x].dist < s[y].dist
          \/ s[x].dist = s[y].dist /\ s[x].crf > s[y].crf
          BY <1>11, <2>1 DEF Higher
    <3>2. x # y
          BY <2>2, <3>1
    <3>3. ~Nearer(y, x)
          BY <2>2, <3>1
    <3>4. QED
          BY <3>2, <3>3
  <2>4. ~(l < k)
    <3>1. y \notin before[x]
          BY <1>2, <2>1, <2>3
    <3>2. QED
          BY <1>7, <1>9, <3>1 DEF x, y
  <2>5. k # l
        BY <2>3 DEF x, y
  <2>6. QED
        BY <2>4, <2>5
<1>12. QED
       BY <1>9, <1>10, <1>11, EntriesMatch

(* The list that filter_fuzzy_results sorts is the one it is given.        *)
LEMMA ListItself == ASSUME NEW s, IsList(s) PROVE s \o <<>> = s
BY ConcatEmptySeq DEF IsList, IsSeq

(* filter_fuzzy_results drops nothing.                                     *)
LEMMA FilterKeepsAll ==
  ASSUME NEW s, IsList(s), NEW smp
  PROVE  LET r == FilterFuzzyResults(s, smp) IN IsList(r) /\ Regrown(r, s, Watched)
<1> DEFINE ranked == Ranked(s)  inside == WithInclusion(ranked, ranked)  r == FilterFuzzyResults(s, smp)
<1>1. IsList(ranked) /\ Entries(ranked) = Entries(s)
      BY RankedIsASort
<1>2. Regrown(ranked, s, Watched)
  <2> HIDE DEF ranked
  <2>1. Regrown(s, s, Watched)
        BY RegrownByItself
  <2>2. QED
        BY <1>1, <2>1 DEF Regrown
<1>3. IsList(inside) /\ Regrown(inside, ranked, Watched)
  <2>1. Flagged(inside, ranked, Watched)
        BY InclusionIsAdded
  <2> HIDE DEF inside, ranked
  <2>2. QED
        BY <1>1, <2>1, FlaggedList
<1>4. IsList(r) /\ Regrown(r, inside, Watched)
  <2>1. r = [k \in DOMAIN inside |-> AddFlags(inside[k], PositionFlags(inside[k], smp))]
        BY ListItself DEF FilterFuzzyResults, FlagEach
  <2> HIDE DEF inside, r
  <2>2. Flagged(r, inside, Watched)
        BY <2>1, PositionsAreAdded
  <2>3. QED
        BY <1>3, <2>2, FlaggedList
<1> HIDE DEF inside, ranked, r
<1>5. Regrown(r, s, (Watched \cap Watched) \cap Watched)
  <2>1. Regrown(inside, s, Watched \cap Watched)
        BY <1>2, <1>3, RegrownTwice
  <2>2. QED
        BY <1>4, <2>1, RegrownTwice
<1>6. (Watched \cap Watched) \cap Watched = Watched
      OBVIOUS
<1>7. QED
      BY <1>4, <1>5, <1>6 DEF r

LEMMA CodesFirst ==
  ASSUME NEW s, IsList(s)
  PROVE  IsList(FlagCodes(s)) /\ Regrown(FlagCodes(s), s, Watched)
<1> DEFINE ofCodes == {i \in DOMAIN s : s[i].code}
           a == Kept(s, ofCodes)  b == Kept(s, DOMAIN s \ ofCodes)  f == WithInclusion(a, s)
<1>1. /\ IsList(a) /\ Entries(a) = {s[i] : i \in ofCodes}
      /\ IsList(b) /\ Entries(b) = {s[i] : i \in DOMAIN s \ ofCodes}
      BY SomeAreKept
<1>2. DOMAIN s = 1..Len(s)
      BY AnySeq DEF IsList
<1>3. Entries(a) \cup Entries(b) = Entries(s)
      BY <1>1, <1>2 DEF Entries
<1>4. FlagCodes(s) = f \o b
      BY DEF FlagCodes
<1>5. Flagged(f, a, Watched)
      BY InclusionIsAdded
<1> HIDE DEF a, b, f
<1>6. IsList(f) /\ Regrown(f, a, Watched)
      BY <1>1, <1>5, FlaggedList
<1>7. IsList(f \o b) /\ Entries(f \o b) = Entries(f) \cup Entries(b)
      BY <1>1, <1>6, OneAfterTheOther
<1>8. Regrown(b, b, Watched)
      BY RegrownByItself
<1>9. Regrown(f \o b, s, Watched)
      BY <1>3, <1>6, <1>7, <1>8 DEF Regrown
<1>10. QED
       BY <1>4, <1>7, <1>9

-----------------------------------------------------------------------------
(***************************************************************************)
(* What the fuzzy runner finds, for every gazetteer: fresh matches, which  *)
(* have characters, no score yet and at most one flag.                     *)
(***************************************************************************)
Fresh(m) == IsMatch(m) /\ m.start < m.end /\ m.flags \subseteq {"IS_INSIDE_ANOTHER_WORD"}

FreshList(s) == IsSeq(s) /\ \A k \in 1..Len(s) : Fresh(s[k])

LEMMA RangeOfList ==
  ASSUME NEW s, s \in Seq(Range(s))
  PROVE  IsSeq(s) /\ Entries(s) = Range(s)
<1>1. Len(s) \in Nat /\ DOMAIN s = 1..Len(s)
      BY LenProperties
<1>2. Entries(s) = Range(s)
      BY <1>1 DEF Entries, Range
<1>3. QED
      BY <1>2 DEF IsSeq

(* A list of lists, one for each entry of another list.                    *)
LEMMA Flattened ==
  ASSUME NEW s, IsSeq(s), NEW f, f = [k \in DOMAIN s |-> f[k]], \A k \in 1..Len(s) : IsSeq(f[k])
  PROVE  /\ IsSeq(FlattenSeq(f))
         /\ \A x : x \in Entries(FlattenSeq(f)) <=> \E k \in 1..Len(s) : x \in Entries(f[k])
<1>1. Len(s) \in Nat /\ DOMAIN s = 1..Len(s)
      BY AnySeq
<1>2. DOMAIN f = 1..Len(s)
      BY <1>1
<1>3. IsSeq(f) /\ Len(f) = Len(s)
      BY <1>1, <1>2, GivenByEntries
<1>4. IsSeq(FlattenSeq(f)) /\ Entries(FlattenSeq(f)) = UNION {Entries(f[i]) : i \in 1..Len(s)}
      BY <1>3, FlattenEntries
<1>5. QED
      BY <1>4

IsPlace(p, smp) ==
  p.start \in Nat /\ p.end \in Nat /\ p.start < p.end /\ p.dist \in Nat /\ Distance(p, smp) >= 0

LEMMA PlacesNearby ==
  ASSUME NEW key, NEW smp \in Samples, NEW max
  PROVE  LET near == NearMatches(key, smp, max)
             places == smp.found[key]
         IN /\ IsSeq(near) /\ \A p \in Entries(near) : IsPlace(p, smp)
            /\ key \in DOMAIN smp.found =>
                 \A i \in DOMAIN places :
                   places[i].dist <= (IF key \in Short THEN 0 ELSE max) => places[i] \in Entries(near)
<1> DEFINE near == NearMatches(key, smp, max)
           places == smp.found[key]
           dist == IF key \in Short THEN 0 ELSE max
           I == {i \in DOMAIN places : places[i].dist <= dist}
<1>1. CASE key \notin DOMAIN smp.found
  <2>1. near = <<>>
        BY <1>1 DEF NearMatches
  <2>2. IsSeq(near) /\ Entries(near) = {}
        BY <2>1, AnyEmpty DEF Entries
  <2>3. QED
        BY <1>1, <2>2
<1>2. CASE key \in DOMAIN smp.found
  <2>1. near = Kept(places, I)
        BY <1>2 DEF NearMatches
  <2>2. places \in Range(smp.found)
        BY <1>2 DEF Range
  <2> HIDE DEF places
  <2>3. places \in Seq(Range(places)) /\ \A p \in Range(places) : IsPlace(p, smp)
        BY <2>2, SamplesAssumption DEF IsPlace
  <2>4. IsSeq(places) /\ DOMAIN places = 1..Len(places) /\ \A i \in 1..Len(places) : IsPlace(places[i], smp)
    <3>1. IsSeq(places) /\ Entries(places) = Range(places)
          BY <2>3, RangeOfList
    <3>2. QED
          BY <2>3, <3>1, AnySeq DEF Entries
  <2> HIDE DEF near, dist
  <2>5. IsSeq(near) /\ Picks(near, places, I \cap (1..Len(places)))
        BY <2>1, <2>4, KeptPicks
  <2>6. PICK at \in [1..Len(near) -> I \cap (1..Len(places))] :
          /\ \A k \in 1..Len(near) : near[k] = places[at[k]]
          /\ \A i \in I \cap (1..Len(places)) : \E k \in 1..Len(near) : at[k] = i
        BY <2>5 DEF Picks
  <2>7. \A p \in Entries(near) : IsPlace(p, smp)
        BY <2>4, <2>6 DEF Entries
  <2>8. ASSUME NEW i \in DOMAIN places, places[i].dist <= dist PROVE places[i] \in Entries(near)
    <3>1. i \in I \cap (1..Len(places))
          BY <2>4, <2>8
    <3>2. PICK k \in 1..Len(near) : at[k] = i
          BY <2>6, <3>1
    <3>3. QED
          BY <2>6, <3>2 DEF Entries
  <2>9. QED
        BY <2>5, <2>7, <2>8 DEF near, dist, places
<1>3. QED
      BY <1>1, <1>2

LEMMA FoundFresh ==
  ASSUME NEW smp \in Samples, NEW p, IsPlace(p, smp), NEW key, NEW origin
  PROVE  Fresh(FuzzyMatch(p, key, origin, smp))
<1> DEFINE m == FuzzyMatch(p, key, origin, smp)
           d == Distance(p, smp)
           F == IF Standalone(p, smp) THEN {} ELSE {"IS_INSIDE_ANOTHER_WORD"}
<1>1. m = [start |-> p.start, end |-> p.end, key |-> key, origin |-> origin, dist |-> d, crf |-> 0,
           final |-> 0, code |-> key \in Short, sep |-> p.sep, flags |-> F]
      BY DEF FuzzyMatch
<1>2. d \in Nat
  <2> DEFINE breaks == {q \in smp.newlines : p.start < q /\ q < p.end - 1}
  <2>1. IsFiniteSet(breaks)
        BY SamplesAssumption, FS_Subset
  <2>2. Cardinality(breaks) \in Nat
        BY <2>1, FS_CardinalityType
  <2>3. d = p.dist - Cardinality(breaks)
        BY DEF Distance
  <2>4. d >= 0
        BY DEF IsPlace
  <2> HIDE DEF breaks, d
  <2>5. QED
        BY <2>2, <2>3, <2>4 DEF IsPlace
<1>3. F \subseteq {"IS_INSIDE_ANOTHER_WORD"}
      OBVIOUS
<1> HIDE DEF m, d, F
<1>4. /\ m = [start |-> m.start, end |-> m.end, key |-> m.key, origin |-> m.origin, dist |-> m.dist,
              crf |-> m.crf, flags |-> m.flags, final |-> m.final, code |-> m.code, sep |-> m.sep]
      /\ m.start = p.start /\ m.end = p.end /\ m.dist = d /\ m.crf = 0 /\ m.flags = F /\ m.final = 0
      BY <1>1
<1>5. ~Generated(m)
      BY <1>3, <1>4 DEF Generated
<1>6. IsMatch(m)
      BY <1>2, <1>4, <1>5 DEF IsMatch, IsPlace
<1>7. QED
      BY <1>3, <1>4, <1>6 DEF Fresh, IsPlace, m

(* A match for each key, place and origin.                                 *)
LEMMA WhatAScanFinds ==
  ASSUME NEW g, IsGazetteer(g), NEW smp \in Samples, NEW max
  PROVE  /\ FreshList(Scan(g, smp, max))
         /\ \A m : m \in Entries(Scan(g, smp, max)) <=>
              \E e \in Range(g) : \E p \in Entries(NearMatches(e.key, smp, max)) :
                \E o \in Range(e.origins) : m = FuzzyMatch(p, e.key, o, smp)
<1> DEFINE Near(k) == NearMatches(g[k].key, smp, max)
           Cell(k, n) == [o \in DOMAIN g[k].origins |->
                            FuzzyMatch(Near(k)[n], g[k].key, g[k].origins[o], smp)]
           row(k) == [n \in DOMAIN Near(k) |-> Cell(k, n)]
           Row(k) == FlattenSeq(row(k))
           rows == [k \in DOMAIN g |-> Row(k)]
           Meets(m, k) == \E p \in Entries(Near(k)) : \E o \in Range(g[k].origins) :
                            m = FuzzyMatch(p, g[k].key, o, smp)
<1>1. Scan(g, smp, max) = FlattenSeq(rows)
      BY DEF Scan
<1>2. IsSeq(g) /\ Entries(g) = Range(g) /\ Len(g) \in Nat /\ DOMAIN g = 1..Len(g)
      BY RangeOfList, AnySeq DEF IsGazetteer
<1>3. ASSUME NEW k \in 1..Len(g)
      PROVE  IsSeq(Row(k)) /\ \A m : m \in Entries(Row(k)) <=> Meets(m, k)
  <2> DEFINE near == Near(k)  origins == g[k].origins  key == g[k].key
  <2>1. IsSeq(near) /\ Len(near) \in Nat /\ DOMAIN near = 1..Len(near)
        BY PlacesNearby, AnySeq
  <2>2. g[k] \in Range(g)
        BY <1>2 DEF Range
  <2>3. IsSeq(origins) /\ Entries(origins) = Range(origins)
        /\ Len(origins) \in Nat /\ DOMAIN origins = 1..Len(origins)
        BY <2>2, RangeOfList, AnySeq DEF IsGazetteer
  <2>4. ASSUME NEW n \in 1..Len(near)
        PROVE  /\ IsSeq(Cell(k, n))
               /\ \A m : m \in Entries(Cell(k, n)) <=> \E o \in Range(origins) : m = FuzzyMatch(near[n], key, o, smp)
    <3> DEFINE c == Cell(k, n)
    <3>1. c = [o \in DOMAIN origins |-> FuzzyMatch(near[n], key, origins[o], smp)]
          OBVIOUS
    <3> HIDE DEF c, near, origins, key
    <3>2. DOMAIN c = 1..Len(origins) /\ c = [o \in 1..Len(origins) |-> c[o]]
          BY <2>3, <3>1
    <3>3. IsSeq(c) /\ Len(c) = Len(origins)
          BY <2>3, <3>2, GivenByEntries
    <3>4. \A m : m \in Entries(c) <=> \E o \in Range(origins) : m = FuzzyMatch(near[n], key, o, smp)
      <4>1. \A o \in 1..Len(origins) : c[o] = FuzzyMatch(near[n], key, origins[o], smp)
            BY <2>3, <3>1
      <4>2. Entries(c) = {c[o] : o \in 1..Len(origins)}
            BY <3>3 DEF Entries
      <4>3. Range(origins) = {origins[o] : o \in 1..Len(origins)}
            BY <2>3 DEF Entries
      <4>4. QED
            BY <4>1, <4>2, <4>3
    <3>5. QED
          BY <3>3, <3>4 DEF c, near, origins, key
  <2>5. row(k) = [n \in DOMAIN near |-> row(k)[n]] /\ \A n \in 1..Len(near) : row(k)[n] = Cell(k, n)
        BY <2>1
  <2> HIDE DEF row, Cell, near, origins, key
  <2>6. /\ IsSeq(Row(k))
        /\ \A x : x \in Entries(Row(k)) <=> \E n \in 1..Len(near) : x \in Entries(row(k)[n])
        BY <2>1, <2>4, <2>5, Flattened
  <2>7. ASSUME NEW m PROVE m \in Entries(Row(k)) <=> Meets(m, k)
    <3>1. m \in Entries(Row(k)) <=>
            \E n \in 1..Len(near) : \E o \in Range(origins) : m = FuzzyMatch(near[n], key, o, smp)
      <4>1. \A n \in 1..Len(near) :
              m \in Entries(row(k)[n]) <=> \E o \in Range(origins) : m = FuzzyMatch(near[n], key, o, smp)
            BY <2>4, <2>5
      <4>2. m \in Entries(Row(k)) <=> \E n \in 1..Len(near) : m \in Entries(row(k)[n])
            BY <2>6
      <4> HIDE DEF Row
      <4>3. QED
            BY <4>1, <4>2
    <3>2. Meets(m, k) <=> \E p \in Entries(near) : \E o \in Range(origins) : m = FuzzyMatch(p, key, o, smp)
          BY DEF near, origins, key
    <3>3. QED
          BY <3>1, <3>2 DEF Entries
  <2>8. QED
        BY <2>6, <2>7
<1>4. rows = [k \in DOMAIN g |-> rows[k]] /\ \A k \in 1..Len(g) : rows[k] = Row(k)
      BY <1>2
<1> HIDE DEF rows, Row, Meets
<1>5. /\ IsSeq(FlattenSeq(rows))
      /\ \A m : m \in Entries(FlattenSeq(rows)) <=> \E k \in 1..Len(g) : Meets(m, k)
  <2>1. \A k \in 1..Len(g) : IsSeq(rows[k])
        BY <1>3, <1>4
  <2>2. /\ IsSeq(FlattenSeq(rows))
        /\ \A m : m \in Entries(FlattenSeq(rows)) <=> \E k \in 1..Len(g) : m \in Entries(rows[k])
        BY <1>2, <1>4, <2>1, Flattened
  <2>3. QED
        BY <1>3, <1>4, <2>2
<1>6. ASSUME NEW m
      PROVE  (\E k \in 1..Len(g) : Meets(m, k)) <=>
               \E e \in Range(g) : \E p \in Entries(NearMatches(e.key, smp, max)) :
                 \E o \in Range(e.origins) : m = FuzzyMatch(p, e.key, o, smp)
  <2>1. Range(g) = {g[k] : k \in 1..Len(g)}
        BY <1>2 DEF Entries
  <2>2. QED
        BY <2>1 DEF Meets
<1>7. ASSUME NEW k \in 1..Len(g), NEW m, Meets(m, k) PROVE Fresh(m)
  <2>1. PICK p \in Entries(Near(k)) : \E o \in Range(g[k].origins) : m = FuzzyMatch(p, g[k].key, o, smp)
        BY <1>7 DEF Meets
  <2>2. IsPlace(p, smp)
        BY <2>1, PlacesNearby
  <2>3. QED
        BY <2>1, <2>2, FoundFresh
<1>8. \A i \in 1..Len(FlattenSeq(rows)) : Fresh(FlattenSeq(rows)[i])
      BY <1>5, <1>7 DEF Entries
<1>9. QED
      BY <1>1, <1>5, <1>6, <1>8 DEF FreshList

(* The union of gazetteers is one, and has all their names.                *)
LEMMA UnionOfGazetteers ==
  ASSUME NEW n \in Nat, NEW order \in [1..n -> DOMAIN ExtendedAllPossibilitiesTown]
  PROVE  /\ IsGazetteer(United(order))
         /\ \A k \in 1..n : \A e \in Range(ExtendedAllPossibilitiesTown[order[k]]) :
              \E u \in Range(United(order)) : u.key = e.key
         /\ \A u \in Range(United(order)) : \E k \in 1..n : u \in Range(ExtendedAllPossibilitiesTown[order[k]])
<1> DEFINE f == [k \in DOMAIN order |-> ExtendedAllPossibilitiesTown[order[k]]]
           entries == FlattenSeq(f)
           With(key) == {i \in DOMAIN entries : entries[i].key = key}
           I == {i \in DOMAIN entries : \A j \in With(entries[i].key) : i <= j}
           first == Kept(entries, I)
           U == United(order)
           N == Len(entries)
<1>1. U = [k \in DOMAIN first |-> entries[Max(With(first[k].key))]]
      BY DEF United
<1>2. IsSeq(order) /\ Len(order) = n /\ DOMAIN order = 1..n
      BY GivenByEntries
<1>3. ASSUME NEW k \in 1..n PROVE IsGazetteer(f[k]) /\ IsSeq(f[k]) /\ Entries(f[k]) = Range(f[k])
  <2>1. f[k] = ExtendedAllPossibilitiesTown[order[k]] /\ order[k] \in DOMAIN ExtendedAllPossibilitiesTown
        BY <1>2
  <2>2. f[k] \in Range(ExtendedAllPossibilitiesTown)
        BY <2>1 DEF Range
  <2>3. IsGazetteer(f[k])
        BY <2>2, GazetteersAssumption
  <2>4. QED
        BY <2>3, RangeOfList DEF IsGazetteer
<1>4. f = [k \in DOMAIN order |-> f[k]] /\ \A k \in 1..n : f[k] = ExtendedAllPossibilitiesTown[order[k]]
      BY <1>2
<1> HIDE DEF f
<1>5. /\ IsSeq(entries)
      /\ \A x : x \in Entries(entries) <=> \E k \in 1..n : x \in Entries(f[k])
      BY <1>2, <1>3, <1>4, Flattened
<1> HIDE DEF entries
<1>6. N \in Nat /\ DOMAIN entries = 1..N
      BY <1>5, AnySeq
<1>7. \A i \in 1..N : /\ entries[i].origins \in Seq(Range(entries[i].origins)) \ {<<>>}
                      /\ entries[i] \in Entries(entries)
  <2>1. \A i \in 1..N : entries[i] \in Entries(entries)
        BY DEF Entries
  <2>2. \A x \in Entries(entries) : x.origins \in Seq(Range(x.origins)) \ {<<>>}
        BY <1>3, <1>5 DEF IsGazetteer
  <2>3. QED
        BY <2>1, <2>2
<1>8. IsSeq(first) /\ Picks(first, entries, I \cap (1..N))
      BY <1>5, KeptPicks
<1>9. I \cap (1..N) = I
      BY <1>6
<1>10. PICK at \in [1..Len(first) -> I] :
         /\ \A k \in 1..Len(first) : first[k] = entries[at[k]]
         /\ \A i \in I : \E k \in 1..Len(first) : at[k] = i
  <2> HIDE DEF first, I
  <2>1. Picks(first, entries, I)
        BY <1>8, <1>9
  <2>2. QED
        BY <2>1 DEF Picks
<1>11. Len(first) \in Nat /\ DOMAIN first = 1..Len(first)
       BY <1>8, AnySeq
<1>12. ASSUME NEW key, With(key) # {}
       PROVE  Max(With(key)) \in With(key) /\ \E i \in I : i \in With(key)
  <2>1. With(key) \subseteq 0..N /\ With(key) \subseteq Nat
        BY <1>6
  <2>2. Max(With(key)) \in With(key)
    <3> HIDE DEF With
    <3>1. QED
          BY <1>6, <1>12, <2>1, MaxOfSome
  <2>3. PICK i \in With(key) : \A j \in With(key) : i <= j
    <3> HIDE DEF With
    <3>1. QED
          BY <1>12, <2>1, LeastElement, SMTT(40)
  <2>4. i \in DOMAIN entries /\ entries[i].key = key
        BY <2>3
  <2>5. i \in I
        BY <2>3, <2>4
  <2>6. QED
        BY <2>2, <2>3, <2>5
<1>13. ASSUME NEW k \in 1..Len(first)
       PROVE  /\ U[k] = entries[Max(With(first[k].key))]
              /\ Max(With(first[k].key)) \in 1..N /\ U[k].key = first[k].key
  <2>1. at[k] \in I /\ first[k] = entries[at[k]]
        BY <1>10
  <2>2. at[k] \in With(first[k].key)
        BY <2>1
  <2>3. U[k] = entries[Max(With(first[k].key))]
        BY <1>1, <1>11
  <2>4. Max(With(first[k].key)) \in With(first[k].key)
        BY <1>12, <2>2
  <2>5. QED
        BY <1>6, <2>3, <2>4
<1>14. DOMAIN U = 1..Len(first) /\ U = [k \in 1..Len(first) |-> U[k]]
       BY <1>1, <1>11
<1> HIDE DEF U, first, I
<1>15. IsSeq(U) /\ Len(U) = Len(first)
       BY <1>11, <1>14, GivenByEntries
<1>16. Entries(U) = Range(U)
       BY <1>14, <1>15 DEF Entries, Range
<1>17. IsGazetteer(U)
  <2>1. U \in Seq(Range(U))
        BY <1>15, <1>16 DEF IsSeq
  <2>2. ASSUME NEW x \in Range(U) PROVE x.origins \in Seq(Range(x.origins)) \ {<<>>}
    <3>1. PICK k \in 1..Len(first) : x = U[k]
          BY <1>14 DEF Range
    <3>2. PICK i \in 1..N : x = entries[i]
          BY <1>13, <3>1
    <3>3. QED
          BY <1>7, <3>2
  <2>3. QED
        BY <2>1, <2>2 DEF IsGazetteer
<1>18. ASSUME NEW k \in 1..n, NEW e \in Range(ExtendedAllPossibilitiesTown[order[k]])
       PROVE  \E u \in Range(U) : u.key = e.key
  <2>1. e \in Entries(entries)
        BY <1>3, <1>4, <1>5
  <2>2. PICK j \in 1..N : e = entries[j]
        BY <2>1 DEF Entries
  <2>3. j \in With(e.key)
        BY <1>6, <2>2
  <2>4. PICK i \in I : i \in With(e.key)
        BY <1>12, <2>3
  <2>5. PICK l \in 1..Len(first) : at[l] = i
        BY <1>10
  <2>6. first[l].key = e.key
        BY <1>10, <2>4, <2>5
  <2>7. U[l].key = e.key /\ U[l] \in Range(U)
        BY <1>13, <1>14, <2>5, <2>6 DEF Range
  <2>8. QED
        BY <2>7
<1>19. ASSUME NEW u \in Range(U)
       PROVE  \E k \in 1..n : u \in Range(ExtendedAllPossibilitiesTown[order[k]])
  <2>1. PICK k \in 1..Len(first) : u = U[k]
        BY <1>14 DEF Range
  <2>2. u \in Entries(entries)
        BY <1>7, <1>13, <2>1
  <2>3. QED
        BY <1>3, <1>4, <1>5, <2>2
<1>20. QED
       BY <1>17, <1>18, <1>19 DEF U

(* All lists are fresh, and a suggestion opens the towns of its country.   *)
LEMMA WhatIsMatched ==
  ASSUME NEW smp \in Samples, NEW fz \in FuzzyMatches(smp)
  PROVE  /\ FreshList(fz.names) /\ FreshList(fz.codes) /\ FreshList(fz.towns) /\ FreshList(fz.extended)
         /\ \A m \in Entries(fz.towns) \cup Entries(fz.extended) : Plain[m.key] # Plain["NO TOWN"]
         /\ smp.suggested \in DOMAIN ExtendedAllPossibilitiesTown =>
              \A e \in Range(ExtendedAllPossibilitiesTown[smp.suggested]) :
                NearMatches(e.key, smp, Tolerance) # <<>> => \E m \in Entries(fz.extended) : m.key = e.key
<1> DEFINE named == Scan(AllPossibilitiesCountry, smp, Tolerance)
           coded == Scan(Alpha2ToAlpha2, smp, 0)
           listed == Scan(AllPossibilitiesTown, smp, Tolerance)
           opened == Opened(named, coded, smp) \cap DOMAIN ExtendedAllPossibilitiesTown
<1>1. PICK order \in SetToSeqs(opened) :
        fz = [names |-> named, codes |-> coded, towns |-> listed,
              extended |-> Scan(United(order), smp, Tolerance)]
      BY DEF FuzzyMatches
<1>2. FreshList(named) /\ FreshList(coded) /\ FreshList(listed)
      BY WhatAScanFinds, GazetteersAssumption
<1>3. smp.suggested \in DOMAIN ExtendedAllPossibilitiesTown => smp.suggested \in opened
      BY GazetteersAssumption DEF Opened
<1>4. IsFiniteSet(opened)
      BY GazetteersAssumption, FS_Subset
<1>5. opened \subseteq DOMAIN ExtendedAllPossibilitiesTown
      OBVIOUS
<1> HIDE DEF named, coded, listed, opened
<1> DEFINE n == Cardinality(opened)  U == United(order)
<1>6. n \in Nat
      BY <1>4, FS_CardinalityType
<1>7. /\ order \in [1..n -> opened] /\ \A i, j \in 1..n : i # j => order[i] # order[j]
      BY DEF SetToSeqs
<1>8. \A x \in opened : \E k \in 1..n : order[k] = x
  <2>1. order \in Injection(1..n, opened)
        BY <1>7 DEF Injection, IsInjective
  <2>2. IsFiniteSet(1..n) /\ Cardinality(1..n) = n
        BY <1>6, FS_Interval
  <2>3. order \in Surjection(1..n, opened)
        BY <1>4, <2>1, <2>2, FS_Injection
  <2>4. QED
        BY <2>3 DEF Surjection
<1>9. order \in [1..n -> DOMAIN ExtendedAllPossibilitiesTown]
      BY <1>5, <1>7
<1> HIDE DEF n
<1>10. /\ IsGazetteer(U)
       /\ \A k \in 1..n : \A e \in Range(ExtendedAllPossibilitiesTown[order[k]]) :
            \E u \in Range(U) : u.key = e.key
       /\ \A u \in Range(U) : \E k \in 1..n : u \in Range(ExtendedAllPossibilitiesTown[order[k]])
       BY <1>6, <1>9, UnionOfGazetteers
<1> HIDE DEF U
<1>11. FreshList(Scan(U, smp, Tolerance))
       BY <1>10, WhatAScanFinds
<1>12. ASSUME smp.suggested \in DOMAIN ExtendedAllPossibilitiesTown,
              NEW e \in Range(ExtendedAllPossibilitiesTown[smp.suggested]),
              NearMatches(e.key, smp, Tolerance) # <<>>
       PROVE  \E m \in Entries(Scan(U, smp, Tolerance)) : m.key = e.key
  <2>1. PICK k \in 1..n : order[k] = smp.suggested
        BY <1>3, <1>8, <1>12
  <2>2. PICK u \in Range(U) : u.key = e.key
        BY <1>10, <1>12, <2>1
  <2>3. PICK p \in Entries(NearMatches(u.key, smp, Tolerance)) : TRUE
    <3> DEFINE near == NearMatches(u.key, smp, Tolerance)
    <3>1. IsSeq(near) /\ near # <<>>
          BY <1>12, <2>2, PlacesNearby
    <3> HIDE DEF near
    <3>2. Len(near) \in Nat \ {0}
          BY <3>1, AnySeq
    <3>3. near[1] \in Entries(near)
          BY <3>2 DEF Entries
    <3>4. QED
          BY <3>3 DEF near
  <2>4. PICK o \in Range(u.origins) : TRUE
    <3>1. u.origins \in Seq(Range(u.origins)) /\ u.origins # <<>>
          BY <1>10 DEF IsGazetteer
    <3>2. IsSeq(u.origins) /\ Entries(u.origins) = Range(u.origins)
          BY <3>1, RangeOfList
    <3>3. Len(u.origins) \in Nat \ {0}
          BY <3>1, <3>2, AnySeq
    <3>4. u.origins[1] \in Range(u.origins)
          BY <3>2, <3>3 DEF Entries
    <3>5. QED
          BY <3>4
  <2> DEFINE m == FuzzyMatch(p, u.key, o, smp)
  <2>5. m \in Entries(Scan(U, smp, Tolerance))
        BY <1>10, WhatAScanFinds
  <2>6. m.key = e.key
        BY <2>2 DEF FuzzyMatch
  <2>7. QED
        BY <2>5, <2>6
<1>13. /\ fz.names = named /\ fz.codes = coded /\ fz.towns = listed
       /\ fz.extended = Scan(U, smp, Tolerance)
       BY <1>1 DEF U
<1>14. ASSUME NEW m \in Entries(fz.towns) \cup Entries(fz.extended)
       PROVE  Plain[m.key] # Plain["NO TOWN"]
  <2>1. CASE m \in Entries(fz.towns)
    <3>1. PICK e \in Range(AllPossibilitiesTown) : m.key = e.key
      <4>1. m \in Entries(Scan(AllPossibilitiesTown, smp, Tolerance))
            BY <1>13, <2>1 DEF listed
      <4>2. PICK e \in Range(AllPossibilitiesTown) : \E p \in Entries(NearMatches(e.key, smp, Tolerance)) :
              \E o \in Range(e.origins) : m = FuzzyMatch(p, e.key, o, smp)
            BY <4>1, WhatAScanFinds, GazetteersAssumption
      <4>3. QED
            BY <4>2 DEF FuzzyMatch
    <3>2. QED
          BY <3>1, PlaceholderAssumption
  <2>2. CASE m \in Entries(fz.extended)
    <3>1. PICK u \in Range(U) : m.key = u.key
      <4>1. PICK u \in Range(U) : \E p \in Entries(NearMatches(u.key, smp, Tolerance)) :
              \E o \in Range(u.origins) : m = FuzzyMatch(p, u.key, o, smp)
            BY <1>10, <1>13, <2>2, WhatAScanFinds
      <4>2. QED
            BY <4>1 DEF FuzzyMatch
    <3>2. PICK k \in 1..n : u \in Range(ExtendedAllPossibilitiesTown[order[k]])
          BY <1>10
    <3>3. order[k] \in DOMAIN ExtendedAllPossibilitiesTown
          BY <1>9
    <3>4. ExtendedAllPossibilitiesTown[order[k]] \in Range(ExtendedAllPossibilitiesTown)
          BY <3>3 DEF Range
    <3>5. QED
          BY <3>1, <3>2, <3>4, PlaceholderAssumption
  <2>3. QED
        BY <2>1, <2>2
<1>15. QED
       BY <1>2, <1>11, <1>12, <1>13, <1>14

-----------------------------------------------------------------------------
(***************************************************************************)
(* Scores.  A mean over the characters of a match is a percentage, and a   *)
(* suggestion is appended with the base score.                             *)
(***************************************************************************)
LEMMA Percentage ==
  ASSUME NEW c \in Nat, NEW d \in Nat \ {0}, c <= d
  PROVE  (100 * c) \div d \in 0..100
<1> DEFINE q == (100 * c) \div d
<1>1. q \in Int /\ d * q <= 100 * c /\ 100 * c < d * q + d
      OBVIOUS
<1> HIDE DEF q
<1>2. q >= 0
  <2>1. ASSUME q <= -1 PROVE FALSE
    <3>1. d * q <= d * (-1)
          BY <1>1, <2>1
    <3>2. QED
          BY <1>1, <3>1
  <2>2. QED
        BY <1>1, <2>1
<1>3. q <= 100
  <2>1. ASSUME q >= 101 PROVE FALSE
    <3>1. d * q >= d * 101
          BY <1>1, <2>1
    <3>2. QED
          BY <1>1, <3>1
  <2>2. QED
        BY <1>1, <2>1
<1>4. QED
      BY <1>1, <1>2, <1>3 DEF q

(* What a score leaves as it is.                                           *)
Alike(x, y) ==
  /\ x.start = y.start /\ x.end = y.end /\ x.key = y.key /\ x.origin = y.origin
  /\ x.dist = y.dist /\ x.flags = y.flags

LEMMA AnotherScore ==
  ASSUME NEW m, IsMatch(m), ~Generated(m), NEW x \in 0..100
  PROVE  LET n == [m EXCEPT !.crf = x] IN IsMatch(n) /\ Alike(n, m) /\ n.crf = x
<1> DEFINE n == [m EXCEPT !.crf = x]
<1>1. n = [start |-> m.start, end |-> m.end, key |-> m.key, origin |-> m.origin, dist |-> m.dist,
           crf |-> x, flags |-> m.flags, final |-> m.final, code |-> m.code, sep |-> m.sep]
      BY DEF IsMatch
<1> HIDE DEF n
<1>2. /\ n = [start |-> n.start, end |-> n.end, key |-> n.key, origin |-> n.origin, dist |-> n.dist,
              crf |-> n.crf, flags |-> n.flags, final |-> n.final, code |-> n.code, sep |-> n.sep]
      /\ n.start = m.start /\ n.end = m.end /\ n.key = m.key /\ n.origin = m.origin
      /\ n.dist = m.dist /\ n.crf = x /\ n.flags = m.flags /\ n.final = m.final
      BY <1>1
<1>3. ~Generated(n)
      BY <1>2 DEF Generated
<1>4. IsMatch(n)
      BY <1>2, <1>3 DEF IsMatch
<1>5. QED
      BY <1>2, <1>4 DEF Alike, n

(* Lists of matches that stand in the address.                             *)
Standing(s) == IsList(s) /\ \A m \in Entries(s) : m.start < m.end /\ ~Generated(m)

LEMMA FreshStands ==
  ASSUME NEW s, FreshList(s)
  PROVE  Standing(s) /\ \A m \in Entries(s) : m.flags \subseteq {"IS_INSIDE_ANOTHER_WORD"}
  BY DEF FreshList, Fresh, Standing, IsList, Entries, Generated

LEMMA ScoredAlike ==
  ASSUME NEW s, Standing(s), NEW tagged
  PROVE  LET t == Scored(s, tagged) IN
         /\ Standing(t)
         /\ \A x \in Entries(t) : \E y \in Entries(s) : Alike(x, y)
         /\ \A y \in Entries(s) : \E x \in Entries(t) : Alike(x, y)
<1> DEFINE mean(m) == (100 * Cardinality(Span(m) \cap tagged)) \div Cardinality(Span(m))
           t == Scored(s, tagged)
<1>1. t = [k \in DOMAIN s |-> [s[k] EXCEPT !.crf = mean(s[k])]]
      BY DEF Scored
<1>2. Len(s) \in Nat /\ DOMAIN s = 1..Len(s)
      BY AnySeq DEF Standing, IsList
<1>3. ASSUME NEW k \in 1..Len(s)
      PROVE  IsMatch(s[k]) /\ ~Generated(s[k]) /\ s[k].start < s[k].end /\ mean(s[k]) \in 0..100
  <2>1. IsMatch(s[k]) /\ ~Generated(s[k]) /\ s[k].start < s[k].end
        BY DEF Standing, IsList, Entries
  <2>2. s[k].start \in Int /\ s[k].end \in Int
        BY <2>1, MatchNumbers
  <2> DEFINE a == Cardinality(Span(s[k]) \cap tagged)  b == Cardinality(Span(s[k]))
  <2>3. IsFiniteSet(Span(s[k])) /\ b = s[k].end - s[k].start
    <3>1. s[k].end - 1 \in Int /\ Span(s[k]) = (s[k].start)..(s[k].end - 1)
          BY <2>2 DEF Span
    <3>2. /\ IsFiniteSet((s[k].start)..(s[k].end - 1))
          /\ Cardinality((s[k].start)..(s[k].end - 1)) =
               IF s[k].start > s[k].end - 1 THEN 0 ELSE (s[k].end - 1) - s[k].start + 1
          BY <2>2, <3>1, FS_Interval
    <3>3. QED
          BY <2>1, <2>2, <3>1, <3>2
  <2>4. IsFiniteSet(Span(s[k]) \cap tagged) /\ a <= b
        BY <2>3, FS_Subset
  <2>5. a \in Nat /\ b \in Nat \ {0}
        BY <2>1, <2>2, <2>3, <2>4, FS_CardinalityType
  <2> HIDE DEF a, b
  <2>6. (100 * a) \div b \in 0..100
        BY <2>4, <2>5, Percentage
  <2>7. QED
        BY <2>1, <2>6 DEF a, b
<1> HIDE DEF mean, t
<1>4. DOMAIN t = 1..Len(s) /\ t = [k \in 1..Len(s) |-> t[k]]
      /\ \A k \in 1..Len(s) : t[k] = [s[k] EXCEPT !.crf = mean(s[k])]
      BY <1>1, <1>2
<1>5. IsSeq(t) /\ Len(t) = Len(s)
      BY <1>2, <1>4, GivenByEntries
<1>6. ASSUME NEW k \in 1..Len(s) PROVE IsMatch(t[k]) /\ Alike(t[k], s[k])
  <2> DEFINE x == mean(s[k])  m == s[k]
  <2>1. IsMatch(m) /\ ~Generated(m) /\ x \in 0..100 /\ t[k] = [m EXCEPT !.crf = x]
        BY <1>3, <1>4
  <2> HIDE DEF x, m
  <2>2. IsMatch([m EXCEPT !.crf = x]) /\ Alike([m EXCEPT !.crf = x], m)
        BY <2>1, AnotherScore
  <2>3. QED
        BY <2>1, <2>2 DEF m
<1>7. \A k \in 1..Len(s) : t[k].start < t[k].end /\ ~Generated(t[k])
      BY <1>3, <1>6 DEF Alike, Generated
<1>8. QED
      BY <1>5, <1>6, <1>7 DEF Standing, IsList, Entries, t

(* The country that was suggested has a match of its own.                  *)
Suggests(s, smp) ==
  \E m \in Entries(s) : /\ Generated(m) /\ m.origin = smp.suggested /\ m.crf = SuggestionScore

SuggestionFlags == {"IS_INSIDE_ANOTHER_WORD", "IS_SUGGESTED_COUNTRY", "GENERATED_BY_SUGGESTED_COUNTRY"}

LEMMA SuggestionIsAppended ==
  ASSUME NEW s, Standing(s), \A m \in Entries(s) : m.flags \subseteq {"IS_INSIDE_ANOTHER_WORD"},
         sample \in Samples
  PROVE  LET t == WithSuggestion(SuggestionFlagged(s)) IN
         /\ IsList(t) /\ \A m \in Entries(t) : m.flags \subseteq SuggestionFlags
         /\ sample.suggested \notin {"NONE", "NO COUNTRY"} => Suggests(t, sample)
<1> DEFINE f == SuggestionFlagged(s)  t == WithSuggestion(f)
           Raised(m) == IF m.crf > SuggestionScore THEN m.crf ELSE SuggestionScore
           New(m) == [AddFlags(m, {"IS_SUGGESTED_COUNTRY"}) EXCEPT !.crf = Raised(m)]
<1>1. Len(s) \in Nat /\ DOMAIN s = 1..Len(s)
      BY AnySeq DEF Standing, IsList
<1>2. ASSUME NEW m, IsMatch(m), ~Generated(m) PROVE IsMatch(New(m)) /\ New(m).flags = m.flags \cup {"IS_SUGGESTED_COUNTRY"}
  <2> DEFINE a == AddFlags(m, {"IS_SUGGESTED_COUNTRY"})
  <2>1. IsMatch(a) /\ a.flags = m.flags \cup {"IS_SUGGESTED_COUNTRY"}
    <3>1. /\ "GENERATED_BY_SUGGESTED_COUNTRY" \notin {"IS_SUGGESTED_COUNTRY"}
          /\ {} \cap {"IS_SUGGESTED_COUNTRY"} = {}
          OBVIOUS
    <3>2. QED
          BY <1>2, <3>1, FlagsAdded
  <2>2. ~Generated(a)
        BY <1>2, <2>1 DEF Generated
  <2>3. Raised(m) \in 0..100
    <3>1. m.crf \in 0..100
          BY <1>2 DEF IsMatch
    <3>2. QED
          BY <3>1 DEF SuggestionScore
  <2> HIDE DEF a, Raised
  <2>4. New(m) = [a EXCEPT !.crf = Raised(m)]
        BY DEF a
  <2> DEFINE x == Raised(m)
  <2>5. x \in 0..100 /\ New(m) = [a EXCEPT !.crf = x]
        BY <2>3, <2>4
  <2> HIDE DEF x, New
  <2>6. IsMatch([a EXCEPT !.crf = x]) /\ Alike([a EXCEPT !.crf = x], a)
        BY <2>1, <2>2, <2>5, AnotherScore
  <2>7. QED
        BY <2>1, <2>5, <2>6 DEF Alike
<1>3. ASSUME NEW k \in 1..Len(s)
      PROVE  IsMatch(f[k]) /\ f[k].flags \subseteq SuggestionFlags
  <2>1. IsMatch(s[k]) /\ ~Generated(s[k]) /\ s[k].flags \subseteq {"IS_INSIDE_ANOTHER_WORD"}
        BY DEF Standing, IsList, Entries
  <2>2. f[k] = New(s[k]) \/ f[k] = s[k]
    <3>1. f[k] = IF s[k].key = sample.suggested /\ s[k].origin = sample.suggested
                 THEN [AddFlags(s[k], {"IS_SUGGESTED_COUNTRY"})
                         EXCEPT !.crf = IF @ > SuggestionScore THEN @ ELSE SuggestionScore]
                 ELSE s[k]
          BY <1>1 DEF SuggestionFlagged
    <3>2. AddFlags(s[k], {"IS_SUGGESTED_COUNTRY"}).crf = s[k].crf
      <4>1. /\ "GENERATED_BY_SUGGESTED_COUNTRY" \notin {"IS_SUGGESTED_COUNTRY"}
            /\ {} \cap {"IS_SUGGESTED_COUNTRY"} = {}
            OBVIOUS
      <4>2. Grown(AddFlags(s[k], {"IS_SUGGESTED_COUNTRY"}), s[k], {})
            BY <2>1, <4>1, FlagsAdded
      <4>3. QED
            BY <4>2 DEF Grown
    <3>3. QED
          BY <3>1, <3>2
  <2>3. /\ f[k] = New(s[k]) => f[k].flags = s[k].flags \cup {"IS_SUGGESTED_COUNTRY"}
        /\ IsMatch(f[k])
        BY <1>2, <2>1, <2>2
  <2>4. QED
        BY <2>1, <2>2, <2>3 DEF SuggestionFlags
<1>4. DOMAIN f = 1..Len(s) /\ f = [k \in 1..Len(s) |-> f[k]]
      BY <1>1 DEF SuggestionFlagged
<1> HIDE DEF f, New
<1>5. IsSeq(f) /\ Len(f) = Len(s)
      BY <1>1, <1>4, GivenByEntries
<1>6. IsMatch(SuggestedMatch) /\ Generated(SuggestedMatch) /\ SuggestedMatch.origin = sample.suggested
      /\ SuggestedMatch.crf = SuggestionScore /\ SuggestedMatch.flags \subseteq SuggestionFlags
  <2> DEFINE m == SuggestedMatch
  <2>1. m = [start |-> sample.length + 2, end |-> sample.length + 2, key |-> sample.suggested,
             origin |-> sample.suggested, dist |-> 0, crf |-> SuggestionScore,
             flags |-> {"GENERATED_BY_SUGGESTED_COUNTRY"}, final |-> 0, code |-> TRUE, sep |-> FALSE]
    <3> DEFINE r == Match(sample.suggested, sample.suggested, 0)  e == sample.length + 2
    <3>1. r = [start |-> 0, end |-> 0, key |-> sample.suggested, origin |-> sample.suggested,
               dist |-> 0, crf |-> 0, flags |-> {}, final |-> 0, code |-> FALSE, sep |-> FALSE]
          BY DEF Match
    <3>2. m = [r EXCEPT !.start = e, !.end = e, !.crf = SuggestionScore,
                        !.flags = {"GENERATED_BY_SUGGESTED_COUNTRY"}, !.code = TRUE]
          BY DEF SuggestedMatch
    <3> HIDE DEF r, e, m
    <3>3. m = [start |-> e, end |-> e, key |-> sample.suggested,
               origin |-> sample.suggested, dist |-> 0, crf |-> SuggestionScore,
               flags |-> {"GENERATED_BY_SUGGESTED_COUNTRY"}, final |-> 0, code |-> TRUE, sep |-> FALSE]
          BY <3>1, <3>2
    <3>4. QED
          BY <3>3 DEF e
  <2>2. sample.length + 2 \in Int /\ SuggestionScore \in 0..100
        BY SamplesAssumption DEF SuggestionScore
  <2> HIDE DEF m
  <2>3. /\ m = [start |-> m.start, end |-> m.end, key |-> m.key, origin |-> m.origin, dist |-> m.dist,
                crf |-> m.crf, flags |-> m.flags, final |-> m.final, code |-> m.code, sep |-> m.sep]
        /\ m.start = sample.length + 2 /\ m.end = sample.length + 2 /\ m.dist = 0 /\ m.final = 0
        /\ m.crf = SuggestionScore /\ m.flags = {"GENERATED_BY_SUGGESTED_COUNTRY"}
        /\ m.origin = sample.suggested
        BY <2>1
  <2>4. IsMatch(m)
        BY <2>2, <2>3 DEF IsMatch
  <2>5. QED
        BY <2>3, <2>4 DEF Generated, SuggestionFlags, m
<1>7. CASE sample.suggested \in {"NONE", "NO COUNTRY"}
  <2>1. t = f
        BY <1>7 DEF WithSuggestion
  <2>2. QED
        BY <1>3, <1>5, <1>7, <2>1 DEF IsList, Entries, f
<1>8. CASE sample.suggested \notin {"NONE", "NO COUNTRY"}
  <2>1. t = Append(f, SuggestedMatch)
        BY <1>8 DEF WithSuggestion
  <2> HIDE DEF t
  <2>2. /\ IsSeq(t) /\ Len(t) = Len(s) + 1 /\ t[Len(s) + 1] = SuggestedMatch
        /\ \A k \in 1..Len(s) : t[k] = f[k]
        BY <1>5, <2>1, AnyAppend
  <2>3. \A k \in 1..Len(t) : k = Len(s) + 1 \/ k \in 1..Len(s)
        BY <1>1, <2>2
  <2>4. Len(s) + 1 \in 1..Len(t)
        BY <1>1, <2>2
  <2>5. \A k \in 1..Len(t) : IsMatch(t[k]) /\ t[k].flags \subseteq SuggestionFlags
        BY <1>3, <1>6, <2>2, <2>3
  <2>6. SuggestedMatch \in Entries(t)
        BY <2>2, <2>4 DEF Entries
  <2>7. Suggests(t, sample)
        BY <1>6, <2>6 DEF Suggests
  <2>8. QED
        BY <2>2, <2>5, <2>7 DEF IsList, Entries, t, f
<1>9. QED
      BY <1>7, <1>8

-----------------------------------------------------------------------------
(***************************************************************************)
(* The invariant, stage by stage.                                          *)
(***************************************************************************)
Related == {"COUNTRY_IS_PRESENT", "TOWN_IS_PRESENT"}

Unrelated(s) == \A m \in Entries(s) : m.flags \cap Related = {}

(* What SupportIsMutual says of two lists.                                 *)
Mutual(c, t) ==
  /\ \A x \in Entries(t) : "COUNTRY_IS_PRESENT" \in x.flags /\ "IS_FROM_EXTENDED_DATA" \notin x.flags =>
       \E y \in Entries(c) : y.origin = x.origin /\ ("TOWN_IS_PRESENT" \in y.flags \/ Generated(y))
  /\ \A y \in Entries(c) : "TOWN_IS_PRESENT" \in y.flags =>
       \E x \in Entries(t) : /\ x.origin = y.origin /\ "COUNTRY_IS_PRESENT" \in x.flags
                             /\ "IS_FROM_EXTENDED_DATA" \notin x.flags

(* What SuggestionOpensItsTowns says of a list of towns.                   *)
OpensTowns(t, smp) ==
  smp.suggested \in DOMAIN ExtendedAllPossibilitiesTown =>
    \A e \in Range(ExtendedAllPossibilitiesTown[smp.suggested]) :
      NearMatches(e.key, smp, Tolerance) # <<>> =>
        \E x \in Entries(t) : x.key = e.key /\ "IS_FROM_EXTENDED_DATA" \in x.flags

Named(t) == \A x \in Entries(t) : Plain[x.key] # Plain["NO TOWN"]

(* The suggestion after its final score.                                   *)
Offers(c, smp) ==
  \E m \in Entries(c) : /\ m.origin = smp.suggested /\ m.final = SuggestionScore
                        /\ m.flags = {"GENERATED_BY_SUGGESTED_COUNTRY"}

IsSuggested(smp) == smp.suggested \notin {"NONE", "NO COUNTRY"}

(* A country inside another of higher rank has a flag that says so, which  *)
(* its final score does not survive.                                       *)
Outranked == "IS_INSIDE_ANOTHER_HIGHER_RANKED_MATCH"
Sunk(s) == \A x, y \in Entries(s) : Larger(y, x) /\ Higher(y, x) => Outranked \in x.flags
OneHead(s) == \A x \in Entries(s) : OneOfHead(x.flags)
Drowned(s) ==
  \A x, y \in Entries(s) : ~Generated(x) /\ Larger(y, x) /\ Higher(y, x) => x.final < MinimalScore

TypeInv ==
  /\ pc \in {"waiting", "fetched", "scored", "merged", "flagged", "yielded", "replied"}
  /\ sample \in Samples \cup {NoSample} /\ (pc # "waiting" => sample \in Samples)
  /\ force \in BOOLEAN
  /\ IsList(countries) /\ IsList(codes) /\ IsList(towns)

GeneratorInv == pc \notin {"waiting", "fetched"} => suggested = sample.suggested /\ force = sample.force

MatchedInv ==
  /\ pc \in {"fetched", "scored"} => fuzzy \in FuzzyMatches(sample)
  /\ pc = "scored" => /\ \A m \in Entries(countries) : m.flags \subseteq SuggestionFlags
                      /\ \A m \in Entries(codes) : m.flags \subseteq SuggestionFlags

SuggestInv ==
  IsSuggested(sample) =>
    /\ pc = "scored" => Suggests(codes, sample)
    /\ pc \in {"merged", "flagged"} => Suggests(countries, sample)
    /\ pc \in {"yielded", "replied"} => Offers(countries, sample)

TownsInv == pc \in {"merged", "flagged", "yielded"} => OpensTowns(towns, sample) /\ Named(towns)

RelationInv ==
  /\ pc = "merged" => Unrelated(countries) /\ Unrelated(towns)
  /\ pc \in {"flagged", "yielded"} => Mutual(countries, towns)

NestedInv ==
  /\ pc = "merged" => \A m \in Entries(countries) : m.flags \subseteq SuggestionFlags
  /\ pc = "flagged" => Sunk(countries) /\ OneHead(countries)
  /\ pc = "yielded" => Drowned(countries)

Combinations0 ==
  GenerateCombinations(AboveThreshold(countries), AboveThreshold(towns), NoCountry, NoTown,
                       sample.suggested, sample.force)

AnswersInv == pc \in {"yielded", "replied"} => answers = Combinations0

ReplyInv ==
  pc = "replied" => reply = PairMatches(IF Len(answers) < NumResults THEN Len(answers) ELSE NumResults)

PostInv ==
  /\ TypeInv /\ GeneratorInv /\ MatchedInv /\ SuggestInv
  /\ TownsInv /\ RelationInv /\ NestedInv /\ AnswersInv /\ ReplyInv

-----------------------------------------------------------------------------
(* score_matches_with_emissions, on what the fuzzy runner found.           *)
LEMMA FreshScored ==
  ASSUME NEW s, FreshList(s), NEW tagged
  PROVE  /\ Standing(Scored(s, tagged))
         /\ \A m \in Entries(Scored(s, tagged)) : m.flags \subseteq {"IS_INSIDE_ANOTHER_WORD"}
<1>1. Standing(s) /\ \A m \in Entries(s) : m.flags \subseteq {"IS_INSIDE_ANOTHER_WORD"}
      BY FreshStands
<1>2. /\ Standing(Scored(s, tagged))
      /\ \A x \in Entries(Scored(s, tagged)) : \E y \in Entries(s) : Alike(x, y)
      BY <1>1, ScoredAlike
<1>3. QED
      BY <1>1, <1>2 DEF Alike

(* The towns of the extended data join the towns.                          *)
LEMMA TownsMerged ==
  ASSUME NEW smp \in Samples, NEW fz \in FuzzyMatches(smp), NEW ext, NEW t,
         ext = [k \in DOMAIN fz.extended |-> AddFlags(fz.extended[k], {"IS_FROM_EXTENDED_DATA"})],
         t = Scored(fz.towns \o ext, smp.town)
  PROVE  IsList(t) /\ Unrelated(t) /\ OpensTowns(t, smp) /\ Named(t)
<1> DEFINE EXT == "IS_FROM_EXTENDED_DATA"
           both == fz.towns \o ext
<1>1. /\ FreshList(fz.towns) /\ FreshList(fz.extended)
      /\ \A m \in Entries(fz.towns) \cup Entries(fz.extended) : Plain[m.key] # Plain["NO TOWN"]
      /\ smp.suggested \in DOMAIN ExtendedAllPossibilitiesTown =>
           \A e \in Range(ExtendedAllPossibilitiesTown[smp.suggested]) :
             NearMatches(e.key, smp, Tolerance) # <<>> => \E m \in Entries(fz.extended) : m.key = e.key
      BY WhatIsMatched
<1>2. /\ Standing(fz.towns) /\ Standing(fz.extended)
      /\ \A m \in Entries(fz.towns) \cup Entries(fz.extended) : m.flags \subseteq {"IS_INSIDE_ANOTHER_WORD"}
      BY <1>1, FreshStands
<1>3. Len(fz.extended) \in Nat /\ DOMAIN fz.extended = 1..Len(fz.extended)
      BY <1>2, AnySeq DEF Standing, IsList
<1>4. DOMAIN ext = 1..Len(fz.extended) /\ ext = [k \in 1..Len(fz.extended) |-> ext[k]]
      /\ \A k \in 1..Len(fz.extended) : ext[k] = AddFlags(fz.extended[k], {EXT})
      BY <1>3
<1>5. IsSeq(ext) /\ Len(ext) = Len(fz.extended)
      BY <1>3, <1>4, GivenByEntries
<1>6. ASSUME NEW k \in 1..Len(fz.extended)
      PROVE  LET x == ext[k]  y == fz.extended[k] IN
             /\ IsMatch(x) /\ x.flags = y.flags \cup {EXT} /\ x.key = y.key
             /\ x.start < x.end /\ ~Generated(x)
  <2> DEFINE y == fz.extended[k]
  <2>1. /\ {} \cap {EXT} = {} /\ "GENERATED_BY_SUGGESTED_COUNTRY" \notin {EXT}
        /\ IsMatch(y) /\ y.start < y.end /\ ~Generated(y)
        BY <1>2 DEF Standing, IsList, Entries
  <2> HIDE DEF y
  <2>2. /\ IsMatch(AddFlags(y, {EXT})) /\ Grown(AddFlags(y, {EXT}), y, {})
        /\ AddFlags(y, {EXT}).flags = y.flags \cup {EXT}
        BY <2>1, FlagsAdded
  <2>3. ext[k] = AddFlags(y, {EXT})
        BY <1>4 DEF y
  <2>4. QED
        BY <2>1, <2>2, <2>3 DEF Grown, Generated, y
<1>7. Standing(ext)
      BY <1>5, <1>6 DEF Standing, IsList, Entries
<1>8. Standing(both) /\ Entries(both) = Entries(fz.towns) \cup Entries(ext)
  <2>1. IsList(both) /\ Entries(both) = Entries(fz.towns) \cup Entries(ext)
        BY <1>2, <1>7, OneAfterTheOther DEF Standing
  <2>2. QED
        BY <1>2, <1>7, <2>1 DEF Standing
<1>9. \A m \in Entries(both) : m.flags \subseteq {"IS_INSIDE_ANOTHER_WORD", EXT} /\ Plain[m.key] # Plain["NO TOWN"]
  <2>1. ASSUME NEW m \in Entries(ext)
        PROVE  m.flags \subseteq {"IS_INSIDE_ANOTHER_WORD", EXT} /\ Plain[m.key] # Plain["NO TOWN"]
    <3>1. PICK k \in 1..Len(fz.extended) : m = ext[k]
          BY <1>5 DEF Entries
    <3>2. fz.extended[k] \in Entries(fz.extended)
          BY DEF Entries
    <3>3. m.flags = fz.extended[k].flags \cup {EXT} /\ m.key = fz.extended[k].key
          BY <1>6, <3>1
    <3>4. /\ fz.extended[k].flags \subseteq {"IS_INSIDE_ANOTHER_WORD"}
          /\ Plain[fz.extended[k].key] # Plain["NO TOWN"]
          BY <1>1, <1>2, <3>2
    <3>5. m.flags \subseteq {"IS_INSIDE_ANOTHER_WORD", EXT}
          BY <3>3, <3>4
    <3>6. Plain[m.key] # Plain["NO TOWN"]
          BY <3>3, <3>4
    <3>7. QED
          BY <3>5, <3>6
  <2>2. QED
        BY <1>1, <1>2, <1>8, <2>1
<1> HIDE DEF both
<1>10. /\ Standing(t)
       /\ \A x \in Entries(t) : \E y \in Entries(both) : Alike(x, y)
       /\ \A y \in Entries(both) : \E x \in Entries(t) : Alike(x, y)
       BY <1>8, ScoredAlike DEF both
<1>11. \A x \in Entries(t) : x.flags \subseteq {"IS_INSIDE_ANOTHER_WORD", EXT} /\ Plain[x.key] # Plain["NO TOWN"]
  <2>1. ASSUME NEW x \in Entries(t)
        PROVE  x.flags \subseteq {"IS_INSIDE_ANOTHER_WORD", EXT} /\ Plain[x.key] # Plain["NO TOWN"]
    <3>1. PICK y \in Entries(both) : Alike(x, y)
          BY <1>10
    <3>2. x.flags = y.flags /\ x.key = y.key
          BY <3>1 DEF Alike
    <3>3. QED
          BY <1>9, <3>2
  <2>2. QED
        BY <2>1
<1>12. Unrelated(t) /\ Named(t)
       BY <1>11 DEF Unrelated, Related, Named
<1>13. ASSUME smp.suggested \in DOMAIN ExtendedAllPossibilitiesTown,
              NEW e \in Range(ExtendedAllPossibilitiesTown[smp.suggested]),
              NearMatches(e.key, smp, Tolerance) # <<>>
       PROVE  \E x \in Entries(t) : x.key = e.key /\ EXT \in x.flags
  <2>1. PICK m \in Entries(fz.extended) : m.key = e.key
        BY <1>1, <1>13
  <2>2. PICK k \in 1..Len(fz.extended) : m = fz.extended[k]
        BY DEF Entries
  <2>3. ext[k] \in Entries(both) /\ ext[k].key = e.key /\ EXT \in ext[k].flags
        BY <1>5, <1>6, <1>8, <2>1, <2>2 DEF Entries
  <2>4. PICK x \in Entries(t) : Alike(x, ext[k])
        BY <1>10, <2>3
  <2>5. QED
        BY <2>3, <2>4 DEF Alike
<1>14. QED
       BY <1>10, <1>12, <1>13 DEF OpensTowns, Standing

(* The flag managers, one after the other, drop no match; and what they    *)
(* say of countries and towns fits together.                               *)
LEMMA ListsFlagged ==
  ASSUME NEW smp \in Samples, NEW c, IsList(c), NEW t, IsList(t), Unrelated(c), Unrelated(t),
         NEW c1, c1 = FlagCodes(FilterFuzzyResults(CountryFlags(c, smp), smp)),
         NEW t1, t1 = FilterFuzzyResults(TownFlags(t, smp), smp),
         NEW c3, c3 = ReasonableMistakes(CountryRelations(c1, t1, smp), smp.townPredictions),
         NEW t3, t3 = PostcodeFlags(AloneOnLine(ReasonableMistakes(TownRelations(t1, c1, smp), smp.countryPredictions),
                                                smp), smp)
  PROVE  /\ IsList(c3) /\ IsList(t3) /\ Mutual(c3, t3)
         /\ Regrown(c3, c, Watched \ Related) /\ Regrown(t3, t, Watched \ Related)
<1>1. IsList(c1) /\ Regrown(c1, c, Watched)
  <2> DEFINE a == CountryFlags(c, smp)  b == FilterFuzzyResults(a, smp)
  <2>1. Flagged(a, c, Watched)
        BY CountryFlagsAreAdded
  <2> HIDE DEF a
  <2>2. IsList(a) /\ Regrown(a, c, Watched)
        BY <2>1, FlaggedList
  <2>3. IsList(b) /\ Regrown(b, a, Watched)
        BY <2>2, FilterKeepsAll
  <2>4. c1 = FlagCodes(b)
        BY DEF a
  <2> HIDE DEF b
  <2>5. IsList(c1) /\ Regrown(c1, b, Watched)
        BY <2>3, <2>4, CodesFirst
  <2>6. Regrown(b, c, Watched \cap Watched)
        BY <2>2, <2>3, RegrownTwice
  <2>7. Regrown(c1, c, (Watched \cap Watched) \cap Watched)
        BY <2>5, <2>6, RegrownTwice
  <2>8. (Watched \cap Watched) \cap Watched = Watched
        OBVIOUS
  <2>9. QED
        BY <2>5, <2>7, <2>8
<1>2. IsList(t1) /\ Regrown(t1, t, Watched)
  <2> DEFINE a == TownFlags(t, smp)
  <2>1. Flagged(a, t, Watched)
        BY TownFlagsAreAdded
  <2>2. t1 = FilterFuzzyResults(a, smp)
        OBVIOUS
  <2> HIDE DEF a
  <2>3. IsList(a) /\ Regrown(a, t, Watched)
        BY <2>1, FlaggedList
  <2>4. IsList(t1) /\ Regrown(t1, a, Watched)
        BY <2>2, <2>3, FilterKeepsAll
  <2>5. Regrown(t1, t, Watched \cap Watched)
        BY <2>3, <2>4, RegrownTwice
  <2>6. Watched \cap Watched = Watched
        OBVIOUS
  <2>7. QED
        BY <2>4, <2>5, <2>6
<1>3. Unrelated(c1) /\ Unrelated(t1)
  <2>1. ASSUME NEW s, NEW r, Unrelated(r), Regrown(s, r, Watched) PROVE Unrelated(s)
    <3>1. ASSUME NEW x \in Entries(s), NEW w \in Related PROVE w \notin x.flags
      <4>1. PICK y \in Entries(r) : Grown(x, y, Watched)
            BY <2>1 DEF Regrown
      <4>2. w \in Watched /\ w \notin y.flags
            BY <2>1 DEF Related, Watched, Unrelated
      <4>3. QED
            BY <4>1, <4>2 DEF Grown
    <3>2. QED
          BY <3>1 DEF Unrelated
  <2>2. QED
        BY <1>1, <1>2, <2>1
<1> DEFINE c2 == CountryRelations(c1, t1, smp)
<1>4. Flagged(c2, c1, Watched \ {"TOWN_IS_PRESENT"}) /\ SupportedCountries(c2, c1, t1)
  <2>1. IsSeq(t1)
        BY <1>2 DEF IsList
  <2>2. QED
        BY <2>1, CountryRelationsAreAdded DEF c2
<1> DEFINE t2 == TownRelations(t1, c1, smp)
<1>5. Flagged(t2, t1, Watched \ {"COUNTRY_IS_PRESENT"}) /\ SupportedTowns(t2, t1, c1)
  <2>1. IsSeq(c1)
        BY <1>1 DEF IsList
  <2> HIDE DEF c2
  <2>2. QED
        BY <2>1, TownRelationsAreAdded DEF t2
<1> HIDE DEF c2, t2
<1>6. /\ IsList(c2) /\ Len(c2) = Len(c1) /\ Regrown(c2, c1, Watched \ {"TOWN_IS_PRESENT"})
      /\ \A k \in 1..Len(c1) : Grown(c2[k], c1[k], Watched \ {"TOWN_IS_PRESENT"})
      BY <1>1, <1>4, FlaggedList
<1>7. /\ IsList(t2) /\ Len(t2) = Len(t1) /\ Regrown(t2, t1, Watched \ {"COUNTRY_IS_PRESENT"})
      /\ \A k \in 1..Len(t1) : Grown(t2[k], t1[k], Watched \ {"COUNTRY_IS_PRESENT"})
      BY <1>2, <1>5, FlaggedList
<1>8. DOMAIN c1 = 1..Len(c1) /\ DOMAIN t1 = 1..Len(t1)
      BY <1>1, <1>2, AnySeq DEF IsList
(* Flags in place: only what the relations say is of the two kinds.        *)
<1>9. ASSUME NEW k \in 1..Len(c1)
      PROVE  "TOWN_IS_PRESENT" \in c2[k].flags <=> \E x \in Entries(t1) : Speaks(x, c1[k])
  <2>1. PICK F : /\ c2[k] = AddFlags(c1[k], F)
                 /\ "TOWN_IS_PRESENT" \in F <=> \E x \in Entries(t1) : Speaks(x, c1[k])
    <3>1. k \in DOMAIN c1
          BY <1>8
    <3>2. QED
          BY <1>4, <3>1 DEF SupportedCountries
  <2>2. IsMatch(c1[k]) /\ c1[k] \in Entries(c1)
        BY <1>1 DEF IsList, Entries
  <2>3. "TOWN_IS_PRESENT" \notin c1[k].flags
        BY <1>3, <2>2 DEF Unrelated, Related
  <2>4. AddFlags(c1[k], F).flags = c1[k].flags \cup F
        BY <2>2 DEF IsMatch, AddFlags
  <2>5. QED
        BY <2>1, <2>3, <2>4
<1>10. ASSUME NEW k \in 1..Len(t1)
       PROVE  "COUNTRY_IS_PRESENT" \in t2[k].flags <=> \E m \in Entries(c1) : PairIsValid(t1[k], m)
  <2>1. PICK F : /\ t2[k] = AddFlags(t1[k], F)
                 /\ "COUNTRY_IS_PRESENT" \in F <=> \E m \in Entries(c1) : PairIsValid(t1[k], m)
    <3>1. k \in DOMAIN t1
          BY <1>8
    <3>2. QED
          BY <1>5, <3>1 DEF SupportedTowns
  <2>2. IsMatch(t1[k]) /\ t1[k] \in Entries(t1)
        BY <1>2 DEF IsList, Entries
  <2>3. "COUNTRY_IS_PRESENT" \notin t1[k].flags
        BY <1>3, <2>2 DEF Unrelated, Related
  <2>4. AddFlags(t1[k], F).flags = t1[k].flags \cup F
        BY <2>2 DEF IsMatch, AddFlags
  <2>5. QED
        BY <2>1, <2>3, <2>4
<1>11. IsList(c3) /\ Regrown(c3, c2, Watched)
  <2>1. Flagged(c3, c2, Watched)
        BY MistakesAreAdded DEF c2
  <2>2. QED
        BY <1>6, <2>1, FlaggedList
<1>12. IsList(t3) /\ Regrown(t3, t2, Watched)
  <2> DEFINE a == ReasonableMistakes(t2, smp.countryPredictions)  b == AloneOnLine(a, smp)
  <2>1. Flagged(a, t2, Watched)
        BY MistakesAreAdded
  <2>2. Flagged(b, a, Watched)
        BY AloneIsAdded
  <2>3. Flagged(t3, b, Watched)
        BY PostcodesAreAdded DEF t2
  <2> HIDE DEF a, b
  <2>4. IsList(a) /\ Regrown(a, t2, Watched)
        BY <1>7, <2>1, FlaggedList
  <2>5. IsList(b) /\ Regrown(b, a, Watched)
        BY <2>2, <2>4, FlaggedList
  <2>6. IsList(t3) /\ Regrown(t3, b, Watched)
        BY <2>3, <2>5, FlaggedList
  <2>7. Regrown(b, t2, Watched \cap Watched)
        BY <2>4, <2>5, RegrownTwice
  <2>8. Regrown(t3, t2, (Watched \cap Watched) \cap Watched)
        BY <2>6, <2>7, RegrownTwice
  <2>9. (Watched \cap Watched) \cap Watched = Watched
        OBVIOUS
  <2>10. QED
         BY <2>6, <2>8, <2>9
<1>13. Regrown(c3, c, Watched \ Related)
  <2>1. Regrown(c2, c, Watched \cap (Watched \ {"TOWN_IS_PRESENT"}))
        BY <1>1, <1>6, RegrownTwice
  <2>2. Regrown(c3, c, (Watched \cap (Watched \ {"TOWN_IS_PRESENT"})) \cap Watched)
        BY <1>11, <2>1, RegrownTwice
  <2>3. Watched \ Related \subseteq (Watched \cap (Watched \ {"TOWN_IS_PRESENT"})) \cap Watched
        BY DEF Related
  <2>4. QED
        BY <2>2, <2>3, FewerWatched
<1>14. Regrown(t3, t, Watched \ Related)
  <2>1. Regrown(t2, t, Watched \cap (Watched \ {"COUNTRY_IS_PRESENT"}))
        BY <1>2, <1>7, RegrownTwice
  <2>2. Regrown(t3, t, (Watched \cap (Watched \ {"COUNTRY_IS_PRESENT"})) \cap Watched)
        BY <1>12, <2>1, RegrownTwice
  <2>3. Watched \ Related \subseteq (Watched \cap (Watched \ {"COUNTRY_IS_PRESENT"})) \cap Watched
        BY DEF Related
  <2>4. QED
        BY <2>2, <2>3, FewerWatched
<1>15. Mutual(c3, t3)
  <2>1. /\ "COUNTRY_IS_PRESENT" \in Watched /\ "TOWN_IS_PRESENT" \in Watched
        /\ "IS_FROM_EXTENDED_DATA" \in Watched
        /\ "IS_FROM_EXTENDED_DATA" \in Watched \ {"COUNTRY_IS_PRESENT"}
        BY DEF Watched
  <2>2. ASSUME NEW x \in Entries(t3),
               "COUNTRY_IS_PRESENT" \in x.flags, "IS_FROM_EXTENDED_DATA" \notin x.flags
        PROVE  \E y \in Entries(c3) : y.origin = x.origin /\ "TOWN_IS_PRESENT" \in y.flags
    <3>1. PICK k \in 1..Len(t1) : Grown(x, t2[k], Watched)
          BY <1>7, <1>12 DEF Regrown, Entries
    <3>2. /\ "COUNTRY_IS_PRESENT" \in t2[k].flags /\ "IS_FROM_EXTENDED_DATA" \notin t2[k].flags
          /\ x.origin = t2[k].origin
          BY <2>1, <2>2, <3>1 DEF Grown
    <3>3. Grown(t2[k], t1[k], Watched \ {"COUNTRY_IS_PRESENT"})
          BY <1>7
    <3>4. "IS_FROM_EXTENDED_DATA" \notin t1[k].flags /\ x.origin = t1[k].origin
          BY <2>1, <3>2, <3>3 DEF Grown
    <3>5. PICK m \in Entries(c1) : PairIsValid(t1[k], m)
          BY <1>10, <3>2
    <3>6. PICK j \in 1..Len(c1) : m = c1[j]
          BY DEF Entries
    <3>7. t1[k] \in Entries(t1) /\ Speaks(t1[k], c1[j])
          BY <3>4, <3>5, <3>6 DEF Entries, Speaks
    <3>8. "TOWN_IS_PRESENT" \in c2[j].flags
          BY <1>9, <3>7
    <3>9. c2[j].origin = c1[j].origin /\ c2[j] \in Entries(c2)
          BY <1>6 DEF Grown, Entries
    <3>10. PICK y \in Entries(c3) : Grown(y, c2[j], Watched)
           BY <1>11, <3>9 DEF Regrown
    <3>11. y.origin = x.origin /\ "TOWN_IS_PRESENT" \in y.flags
           BY <2>1, <3>4, <3>5, <3>6, <3>8, <3>9, <3>10 DEF Grown, PairIsValid
    <3>12. QED
           BY <3>11
  <2>3. ASSUME NEW y \in Entries(c3), "TOWN_IS_PRESENT" \in y.flags
        PROVE  \E x \in Entries(t3) : /\ x.origin = y.origin /\ "COUNTRY_IS_PRESENT" \in x.flags
                                      /\ "IS_FROM_EXTENDED_DATA" \notin x.flags
    <3>1. PICK j \in 1..Len(c1) : Grown(y, c2[j], Watched)
          BY <1>6, <1>11 DEF Regrown, Entries
    <3>2. "TOWN_IS_PRESENT" \in c2[j].flags /\ y.origin = c2[j].origin
          BY <2>1, <2>3, <3>1 DEF Grown
    <3>3. PICK m \in Entries(t1) : Speaks(m, c1[j])
          BY <1>9, <3>2
    <3>4. PICK k \in 1..Len(t1) : m = t1[k]
          BY DEF Entries
    <3>5. c1[j] \in Entries(c1) /\ PairIsValid(t1[k], c1[j]) /\ "IS_FROM_EXTENDED_DATA" \notin t1[k].flags
          BY <3>3, <3>4 DEF Entries, Speaks
    <3>6. "COUNTRY_IS_PRESENT" \in t2[k].flags
          BY <1>10, <3>5
    <3>7. Grown(t2[k], t1[k], Watched \ {"COUNTRY_IS_PRESENT"}) /\ t2[k] \in Entries(t2)
          BY <1>7 DEF Entries
    <3>8. "IS_FROM_EXTENDED_DATA" \notin t2[k].flags /\ t2[k].origin = t1[k].origin
          BY <2>1, <3>5, <3>7 DEF Grown
    <3>9. PICK x \in Entries(t3) : Grown(x, t2[k], Watched)
          BY <1>12, <3>7 DEF Regrown
    <3>10. Grown(c2[j], c1[j], Watched \ {"TOWN_IS_PRESENT"})
           BY <1>6
    <3>11. /\ x.origin = y.origin /\ "COUNTRY_IS_PRESENT" \in x.flags
           /\ "IS_FROM_EXTENDED_DATA" \notin x.flags
           BY <2>1, <3>2, <3>5, <3>6, <3>8, <3>9, <3>10 DEF Grown, PairIsValid
    <3>12. QED
           BY <3>11
  <2>4. QED
        BY <2>2, <2>3 DEF Mutual
<1>16. QED
       BY <1>11, <1>12, <1>13, <1>14, <1>15

(* What the flag managers leave of the suggestion and of the towns.        *)
LEMMA RegrownKeeps ==
  ASSUME NEW smp, NEW s, NEW r, Regrown(s, r, Watched \ Related)
  PROVE  /\ Suggests(r, smp) => Suggests(s, smp)
         /\ OpensTowns(r, smp) => OpensTowns(s, smp)
         /\ Named(r) => Named(s)
<1> DEFINE W == Watched \ Related
<1>1. "GENERATED_BY_SUGGESTED_COUNTRY" \in W /\ "IS_FROM_EXTENDED_DATA" \in W
      BY DEF Watched, Related
<1> HIDE DEF W
<1>2. /\ \A x \in Entries(s) : \E y \in Entries(r) : Grown(x, y, W)
      /\ \A y \in Entries(r) : \E x \in Entries(s) : Grown(x, y, W)
      BY DEF Regrown, W
<1>3. ASSUME Suggests(r, smp) PROVE Suggests(s, smp)
  <2>1. PICK m \in Entries(r) : Generated(m) /\ m.origin = smp.suggested /\ m.crf = SuggestionScore
        BY <1>3 DEF Suggests
  <2>2. PICK x \in Entries(s) : Grown(x, m, W)
        BY <1>2
  <2>3. Generated(x) /\ x.origin = smp.suggested /\ x.crf = SuggestionScore
        BY <1>1, <2>1, <2>2 DEF Grown, Generated
  <2>4. QED
        BY <2>3 DEF Suggests
<1>4. ASSUME OpensTowns(r, smp) PROVE OpensTowns(s, smp)
  <2>1. ASSUME smp.suggested \in DOMAIN ExtendedAllPossibilitiesTown,
               NEW e \in Range(ExtendedAllPossibilitiesTown[smp.suggested]),
               NearMatches(e.key, smp, Tolerance) # <<>>
        PROVE  \E x \in Entries(s) : x.key = e.key /\ "IS_FROM_EXTENDED_DATA" \in x.flags
    <3>1. PICK y \in Entries(r) : y.key = e.key /\ "IS_FROM_EXTENDED_DATA" \in y.flags
          BY <1>4, <2>1 DEF OpensTowns
    <3>2. PICK x \in Entries(s) : Grown(x, y, W)
          BY <1>2
    <3>3. QED
          BY <1>1, <3>1, <3>2 DEF Grown
  <2>2. QED
        BY <2>1 DEF OpensTowns
<1>5. ASSUME Named(r) PROVE Named(s)
  <2>1. ASSUME NEW x \in Entries(s) PROVE Plain[x.key] # Plain["NO TOWN"]
    <3>1. PICK y \in Entries(r) : Grown(x, y, W)
          BY <1>2
    <3>2. x.key = y.key
          BY <3>1 DEF Grown
    <3>3. Plain[y.key] # Plain["NO TOWN"]
          BY <1>5 DEF Named
    <3>4. QED
          BY <3>2, <3>3
  <2>2. QED
        BY <2>1 DEF Named
<1>6. QED
      BY <1>3, <1>4, <1>5

(* The final scores.                                                       *)
LEMMA FinalScores ==
  ASSUME NEW m, IsMatch(m)
  PROVE  /\ LET n == FinalCountry(m) IN
            /\ IsMatch(n) /\ n.origin = m.origin
            /\ n.start = m.start /\ n.end = m.end /\ n.dist = m.dist /\ n.crf = m.crf
            /\ Generated(m) => n.flags = {"GENERATED_BY_SUGGESTED_COUNTRY"} /\ n.final = SuggestionScore
            /\ ~Generated(m) => n.flags = m.flags /\ n.final = CountryScore(m.crf, m.dist, m.flags)
         /\ LET n == FinalTown(m) IN IsMatch(n) /\ n.origin = m.origin /\ n.key = m.key /\ n.flags = m.flags
<1> DEFINE F == IF Generated(m) THEN {"GENERATED_BY_SUGGESTED_COUNTRY"} ELSE m.flags
<1>1. ASSUME NEW x \in {0} \cup DOMAIN Logit, NEW G, "GENERATED_BY_SUGGESTED_COUNTRY" \in G <=> Generated(m)
      PROVE  LET n == [m EXCEPT !.flags = G, !.final = x] IN
             /\ IsMatch(n) /\ n.origin = m.origin /\ n.key = m.key /\ n.flags = G /\ n.final = x
             /\ n.start = m.start /\ n.end = m.end /\ n.dist = m.dist /\ n.crf = m.crf
  <2> DEFINE n == [m EXCEPT !.flags = G, !.final = x]
  <2>1. n = [start |-> m.start, end |-> m.end, key |-> m.key, origin |-> m.origin, dist |-> m.dist,
             crf |-> m.crf, flags |-> G, final |-> x, code |-> m.code, sep |-> m.sep]
    <3> DEFINE o == [m EXCEPT !.flags = G]
    <3>1. o = [start |-> m.start, end |-> m.end, key |-> m.key, origin |-> m.origin, dist |-> m.dist,
               crf |-> m.crf, flags |-> G, final |-> m.final, code |-> m.code, sep |-> m.sep]
          BY DEF IsMatch
    <3>2. n = [o EXCEPT !.final = x]
          OBVIOUS
    <3> HIDE DEF n, o
    <3>3. QED
          BY <3>1, <3>2
  <2> HIDE DEF n
  <2>2. /\ n = [start |-> n.start, end |-> n.end, key |-> n.key, origin |-> n.origin, dist |-> n.dist,
                crf |-> n.crf, flags |-> n.flags, final |-> n.final, code |-> n.code, sep |-> n.sep]
        /\ n.start = m.start /\ n.end = m.end /\ n.dist = m.dist /\ n.crf = m.crf /\ n.final = x
        /\ n.flags = G /\ n.origin = m.origin /\ n.key = m.key
        BY <2>1
  <2>3. Generated(n) <=> Generated(m)
        BY <1>1, <2>2 DEF Generated
  <2>4. IsMatch(n)
        BY <2>2, <2>3 DEF IsMatch
  <2>5. QED
        BY <2>2, <2>4 DEF n
<1>2. \A crf, bonus, malus : Combined(crf, bonus, malus) \in {0} \cup DOMAIN Logit
      BY GridOfScores DEF Combined
<1> DEFINE x == CountryScore(m.crf, m.dist, F)  y == TownScore(m.crf, m.dist, m.flags)
<1>3. "GENERATED_BY_SUGGESTED_COUNTRY" \in F <=> Generated(m)
      BY DEF Generated
<1>4. x \in {0} \cup DOMAIN Logit /\ (Generated(m) => x = SuggestionScore)
  <2>1. CASE Generated(m)
    <3>1. x = m.crf /\ m.crf = SuggestionScore
          BY <1>3, <2>1 DEF CountryScore, IsMatch
    <3>2. QED
          BY <3>1, GridOfScores
  <2>2. CASE ~Generated(m)
    <3> HIDE DEF F
    <3>1. x = Combined(m.crf, Sum(CountryBonus, F), Sum(CountryMalus, F) + TypoMalus(-50, m.dist, F))
          BY <1>3, <2>2 DEF CountryScore
    <3> HIDE DEF x
    <3>2. QED
          BY <1>2, <2>2, <3>1
  <2>3. QED
        BY <2>1, <2>2
<1>5. y \in {0} \cup DOMAIN Logit
      BY <1>2 DEF TownScore
<1>6. FinalCountry(m) = [m EXCEPT !.flags = F, !.final = x]
      BY DEF FinalCountry
<1>7. FinalTown(m) = [m EXCEPT !.flags = m.flags, !.final = y]
  <2> HIDE DEF y
  <2>1. [m EXCEPT !.final = y] = [m EXCEPT !.flags = m.flags, !.final = y]
        BY DEF IsMatch
  <2>2. QED
        BY <2>1 DEF FinalTown, y
<1> HIDE DEF x, y
<1>8. LET n == [m EXCEPT !.flags = F, !.final = x] IN
      /\ IsMatch(n) /\ n.origin = m.origin /\ n.key = m.key /\ n.flags = F /\ n.final = x
      /\ n.start = m.start /\ n.end = m.end /\ n.dist = m.dist /\ n.crf = m.crf
  <2> HIDE DEF F
  <2>1. QED
        BY <1>1, <1>3, <1>4
<1>9. LET n == [m EXCEPT !.flags = m.flags, !.final = y] IN
      IsMatch(n) /\ n.origin = m.origin /\ n.key = m.key /\ n.flags = m.flags /\ n.final = y
  <2>1. "GENERATED_BY_SUGGESTED_COUNTRY" \in m.flags <=> Generated(m)
        BY DEF Generated
  <2>2. QED
        BY <1>1, <1>5, <2>1
<1>10. ~Generated(m) => x = CountryScore(m.crf, m.dist, m.flags)
       BY DEF x
<1> DEFINE a == FinalCountry(m)
<1>11. /\ IsMatch(a) /\ a.origin = m.origin
       /\ a.start = m.start /\ a.end = m.end /\ a.dist = m.dist /\ a.crf = m.crf
       /\ Generated(m) => a.flags = {"GENERATED_BY_SUGGESTED_COUNTRY"} /\ a.final = SuggestionScore
       /\ ~Generated(m) => a.flags = m.flags /\ a.final = CountryScore(m.crf, m.dist, m.flags)
  <2> DEFINE n == [m EXCEPT !.flags = F, !.final = x]
  <2>1. a = n
        BY <1>6
  <2>2. Generated(m) => F = {"GENERATED_BY_SUGGESTED_COUNTRY"}
        OBVIOUS
  <2>3. ~Generated(m) => F = m.flags
        OBVIOUS
  <2> HIDE DEF a, n, F
  <2>4. /\ IsMatch(n) /\ n.origin = m.origin /\ n.flags = F /\ n.final = x
        /\ n.start = m.start /\ n.end = m.end /\ n.dist = m.dist /\ n.crf = m.crf
        BY <1>8 DEF n
  <2>5. QED
        BY <1>4, <1>10, <2>1, <2>2, <2>3, <2>4
<1>12. QED
       BY <1>7, <1>9, <1>11 DEF a

-----------------------------------------------------------------------------
(***************************************************************************)
(* The final score of a country, and how far bonuses reach.                *)
(***************************************************************************)
LEMMA SumIs ==
  ASSUME NEW weight, NEW F
  PROVE  Sum(weight, F) = SumOn(weight, F \cap DOMAIN weight)
  BY DEF Sum, SumOn, MapThenSumSet, FoldFunctionOnSet, MapThenFoldSet

(* What one flag adds, and the sum of the bonuses written out.             *)
LEMMA WithoutIt ==
  ASSUME NEW T, NEW f, NEW n \in Int
  PROVE  /\ f \in T => When(f \in T, n) = n + When(f \in T \ {f}, n)
         /\ \A x : x # f => When(f \in T, n) = When(f \in T \ {x}, n)
         /\ When(f \in T, n) \in Int
  BY DEF When

Bonuses(F) ==
  When("IS_IN_LAST_THIRD" \in F, 1) + When("COULD_BE_REASONABLE_MISTAKE" \in F, 10)
  + When("TOWN_IS_PRESENT" \in F, 20) + When("IS_VERY_CLOSE_TO_TOWN" \in F, 20)
  + When("IS_ON_SAME_LINE_AS_TOWN" \in F, 10) + When("POSTAL_CODE_IS_PRESENT" \in F, 10)
  + When("IBAN_IS_PRESENT" \in F, 10) + When("PHONE_PREFIX_IS_PRESENT" \in F, 10)
  + When("DOMAIN_IS_PRESENT" \in F, 10) + When("MLP_STRONGLY_AGREES" \in F, 20)
  + When("MLP_AGREES" \in F, 15) + When("MLP_DOESNT_DISAGREE" \in F, 5)

BonusFlags ==
  {"IS_IN_LAST_THIRD", "COULD_BE_REASONABLE_MISTAKE", "TOWN_IS_PRESENT", "IS_VERY_CLOSE_TO_TOWN",
   "IS_ON_SAME_LINE_AS_TOWN", "POSTAL_CODE_IS_PRESENT", "IBAN_IS_PRESENT", "PHONE_PREFIX_IS_PRESENT",
   "DOMAIN_IS_PRESENT", "MLP_STRONGLY_AGREES", "MLP_AGREES", "MLP_DOESNT_DISAGREE"}

LEMMA SumOfBonuses ==
  ASSUME NEW F
  PROVE  Sum(CountryBonus, F) = Bonuses(F) /\ Bonuses(F) \in Nat
<1> DEFINE w == CountryBonus
           Wrong == {T \in SUBSET BonusFlags : SumOn(w, T) # Bonuses(T)}
<1>1. DOMAIN w = BonusFlags
      BY DEF CountryBonus, BonusFlags
<1>2. \A x \in BonusFlags : w[x] \in Nat
      BY DEF CountryBonus, BonusFlags, ThirdBonus
<1>3. IsFiniteSet(BonusFlags)
  <2> DEFINE a == {} \cup {"IS_IN_LAST_THIRD"} \cup {"COULD_BE_REASONABLE_MISTAKE"}
                    \cup {"TOWN_IS_PRESENT"} \cup {"IS_VERY_CLOSE_TO_TOWN"}
                    \cup {"IS_ON_SAME_LINE_AS_TOWN"} \cup {"POSTAL_CODE_IS_PRESENT"}
             b == {} \cup {"IBAN_IS_PRESENT"} \cup {"PHONE_PREFIX_IS_PRESENT"}
                    \cup {"DOMAIN_IS_PRESENT"} \cup {"MLP_STRONGLY_AGREES"} \cup {"MLP_AGREES"}
                    \cup {"MLP_DOESNT_DISAGREE"}
  <2>1. IsFiniteSet({})
        BY FS_EmptySet
  <2>2. IsFiniteSet(a) /\ IsFiniteSet(b)
        BY <2>1, FS_AddElement
  <2>3. BonusFlags = a \cup b
        BY DEF BonusFlags
  <2> HIDE DEF a, b
  <2>4. QED
        BY <2>2, <2>3, FS_Union
<1>4. ASSUME NEW T \in SUBSET BonusFlags, NEW x \in T
      PROVE  Bonuses(T) = w[x] + Bonuses(T \ {x})
  <2> DEFINE a(f, n) == When(f \in T, n)
             b(f, n) == When(f \in T \ {x}, n)
             d(f, n) == IF f = x THEN n ELSE 0
  <2>1. \A f : \A n \in Int : a(f, n) = d(f, n) + b(f, n) /\ b(f, n) \in Int /\ d(f, n) \in Int
        BY DEF When
  <2>2. Bonuses(T) = a("IS_IN_LAST_THIRD", 1) + a("COULD_BE_REASONABLE_MISTAKE", 10)
                     + a("TOWN_IS_PRESENT", 20) + a("IS_VERY_CLOSE_TO_TOWN", 20)
                     + a("IS_ON_SAME_LINE_AS_TOWN", 10) + a("POSTAL_CODE_IS_PRESENT", 10)
                     + a("IBAN_IS_PRESENT", 10) + a("PHONE_PREFIX_IS_PRESENT", 10)
                     + a("DOMAIN_IS_PRESENT", 10) + a("MLP_STRONGLY_AGREES", 20)
                     + a("MLP_AGREES", 15) + a("MLP_DOESNT_DISAGREE", 5)
        BY DEF Bonuses
  <2>3. Bonuses(T \ {x}) = b("IS_IN_LAST_THIRD", 1) + b("COULD_BE_REASONABLE_MISTAKE", 10)
                           + b("TOWN_IS_PRESENT", 20) + b("IS_VERY_CLOSE_TO_TOWN", 20)
                           + b("IS_ON_SAME_LINE_AS_TOWN", 10) + b("POSTAL_CODE_IS_PRESENT", 10)
                           + b("IBAN_IS_PRESENT", 10) + b("PHONE_PREFIX_IS_PRESENT", 10)
                           + b("DOMAIN_IS_PRESENT", 10) + b("MLP_STRONGLY_AGREES", 20)
                           + b("MLP_AGREES", 15) + b("MLP_DOESNT_DISAGREE", 5)
        BY DEF Bonuses
  <2>4. w[x] = d("IS_IN_LAST_THIRD", 1) + d("COULD_BE_REASONABLE_MISTAKE", 10)
               + d("TOWN_IS_PRESENT", 20) + d("IS_VERY_CLOSE_TO_TOWN", 20)
               + d("IS_ON_SAME_LINE_AS_TOWN", 10) + d("POSTAL_CODE_IS_PRESENT", 10)
               + d("IBAN_IS_PRESENT", 10) + d("PHONE_PREFIX_IS_PRESENT", 10)
               + d("DOMAIN_IS_PRESENT", 10) + d("MLP_STRONGLY_AGREES", 20)
               + d("MLP_AGREES", 15) + d("MLP_DOESNT_DISAGREE", 5)
    <3>1. x \in BonusFlags
          OBVIOUS
    <3>2. QED
          BY <3>1 DEF BonusFlags, CountryBonus, ThirdBonus
  <2> HIDE DEF a, b, d, w
  <2>5. QED
        BY <2>1, <2>2, <2>3, <2>4
<1>5. Bonuses({}) = 0
      BY DEF Bonuses, When
<1> HIDE DEF w
<1>6. ASSUME NEW T \in Wrong, \A x \in T : T \ {x} \notin Wrong PROVE FALSE
  <2>1. T \in SUBSET BonusFlags /\ SumOn(w, T) # Bonuses(T) /\ IsFiniteSet(T) /\ \A x \in T : w[x] \in Int
        BY <1>2, <1>3, FS_Subset
  <2>2. T # {}
        BY <1>5, <2>1, NoSum
  <2>3. PICK x \in T : TRUE
        BY <2>2
  <2>4. SumOn(w, T) = w[x] + SumOn(w, T \ {x})
        BY <2>1, SumTakesOut
  <2>5. SumOn(w, T \ {x}) = Bonuses(T \ {x})
        BY <1>6, <2>1
  <2>6. QED
        BY <1>4, <2>1, <2>4, <2>5
<1>7. Wrong = {}
  <2>1. Wrong \subseteq SUBSET BonusFlags
        OBVIOUS
  <2> HIDE DEF Wrong
  <2>2. QED
        BY <1>3, <1>6, <2>1, SmallestSubset
<1>8. SumOn(w, F \cap BonusFlags) = Bonuses(F \cap BonusFlags)
      BY <1>7
<1>9. Bonuses(F \cap BonusFlags) = Bonuses(F)
      BY DEF Bonuses, BonusFlags
<1>10. Bonuses(F) \in Nat
       BY DEF Bonuses, When
<1>11. Sum(CountryBonus, F) = SumOn(w, F \cap BonusFlags)
       BY <1>1, SumIs DEF w
<1>12. QED
       BY <1>8, <1>9, <1>10, <1>11

LEMMA BonusLimit ==
  ASSUME NEW F, OneOfHead(F)
  PROVE  Bonuses(F) <= 121
<1> DEFINE h == When("MLP_STRONGLY_AGREES" \in F, 20) + When("MLP_AGREES" \in F, 15)
                + When("MLP_DOESNT_DISAGREE" \in F, 5)
           r == When("IS_IN_LAST_THIRD" \in F, 1) + When("COULD_BE_REASONABLE_MISTAKE" \in F, 10)
                + When("TOWN_IS_PRESENT" \in F, 20) + When("IS_VERY_CLOSE_TO_TOWN" \in F, 20)
                + When("IS_ON_SAME_LINE_AS_TOWN" \in F, 10) + When("POSTAL_CODE_IS_PRESENT" \in F, 10)
                + When("IBAN_IS_PRESENT" \in F, 10) + When("PHONE_PREFIX_IS_PRESENT" \in F, 10)
                + When("DOMAIN_IS_PRESENT" \in F, 10)
<1>1. h \in Nat /\ h <= 20
      BY DEF OneOfHead, HeadRanks, When
<1>2. r \in Nat /\ r <= 101
      BY DEF When
<1>3. Bonuses(F) = r + h
      BY DEF Bonuses, When
<1> HIDE DEF h, r
<1>4. QED
      BY <1>1, <1>2, <1>3

LEMMA MalusOfOutranked ==
  ASSUME NEW F, Outranked \in F
  PROVE  Sum(CountryMalus, F) \in Int /\ Sum(CountryMalus, F) <= -200
<1> DEFINE w == CountryMalus
           D == {"IS_INSIDE_ANOTHER_WORD", "IS_IN_FIRST_THIRD", "IS_SHORT",
                 "IS_INSIDE_ANOTHER_LOWER_RANKED_MATCH", "IS_INSIDE_STREET",
                 "IS_COMMON_STATE_PROVINCE_ALIAS", "IS_UNCOMMON_STATE_PROVINCE_ALIAS",
                 "IS_INSIDE_ANOTHER_HIGHER_RANKED_MATCH"}
           Most(T) == IF Outranked \in T THEN -200 ELSE 0
           Wrong == {T \in SUBSET D : ~(SumOn(w, T) <= Most(T))}
<1>1. DOMAIN w = D /\ Outranked \in D
      BY DEF CountryMalus, Outranked
<1>2. \A x \in D : w[x] \in Int /\ w[x] <= 0 /\ (x = Outranked => w[x] = -200)
      BY DEF CountryMalus, Outranked
<1>3. IsFiniteSet(D)
  <2>1. IsFiniteSet({})
        BY FS_EmptySet
  <2>2. D = {} \cup {"IS_INSIDE_ANOTHER_WORD"} \cup {"IS_IN_FIRST_THIRD"} \cup {"IS_SHORT"}
          \cup {"IS_INSIDE_ANOTHER_LOWER_RANKED_MATCH"} \cup {"IS_INSIDE_STREET"}
          \cup {"IS_COMMON_STATE_PROVINCE_ALIAS"} \cup {"IS_UNCOMMON_STATE_PROVINCE_ALIAS"}
          \cup {"IS_INSIDE_ANOTHER_HIGHER_RANKED_MATCH"}
        OBVIOUS
  <2> HIDE DEF D
  <2>3. QED
        BY <2>1, <2>2, FS_AddElement
<1> HIDE DEF w, D
<1>4. ASSUME NEW T \in Wrong, \A x \in T : T \ {x} \notin Wrong PROVE FALSE
  <2>1. T \in SUBSET D /\ ~(SumOn(w, T) <= Most(T)) /\ IsFiniteSet(T) /\ \A x \in T : w[x] \in Int
        BY <1>2, <1>3, FS_Subset
  <2>2. T # {}
        BY <2>1, NoSum
  <2>3. PICK x \in T : TRUE
        BY <2>2
  <2>4. SumOn(w, T) = w[x] + SumOn(w, T \ {x}) /\ SumOn(w, T \ {x}) \in Int
        BY <2>1, SumTakesOut
  <2>5. SumOn(w, T \ {x}) <= Most(T \ {x})
        BY <1>4, <2>1
  <2>6. w[x] \in Int /\ w[x] <= 0 /\ (x = Outranked => w[x] = -200)
        BY <1>2, <2>1
  <2>7. CASE x = Outranked
    <3>1. Most(T \ {x}) = 0 /\ Most(T) = -200
          BY <2>7
    <3> HIDE DEF Most
    <3>2. QED
          BY <2>1, <2>4, <2>5, <2>6, <2>7, <3>1
  <2>8. CASE x # Outranked
    <3>1. Most(T \ {x}) = Most(T) /\ Most(T) \in Int
          BY <2>8
    <3> HIDE DEF Most
    <3>2. QED
          BY <2>1, <2>4, <2>5, <2>6, <3>1
  <2>9. QED
        BY <2>7, <2>8
<1>5. Wrong = {}
  <2>1. Wrong \subseteq SUBSET D
        OBVIOUS
  <2> HIDE DEF Wrong
  <2>2. QED
        BY <1>3, <1>4, <2>1, SmallestSubset
<1> DEFINE T == F \cap D
<1>6. SumOn(w, T) <= -200
      BY <1>1, <1>5
<1>7. IsFiniteSet(T) /\ \A x \in T : w[x] \in Int
      BY <1>2, <1>3, FS_Subset
<1> HIDE DEF T
<1>8. SumOn(w, T) \in Int
      BY <1>7, SumTakesOut
<1>9. Sum(CountryMalus, F) = SumOn(w, T)
      BY <1>1, SumIs DEF w, T
<1>10. QED
       BY <1>6, <1>8, <1>9

(* The table of log-odds, entry by entry, grows.                           *)
LEMMA LogitTable ==
  /\ DOMAIN Logit = {10, 15, 20, 25, 33, 40, 50, 60, 66, 75, 80, 85, 90, 95, 99}
  /\ Logit[10] = -2197225 /\ Logit[15] = -1734601 /\ Logit[20] = -1386294 /\ Logit[25] = -1098612
  /\ Logit[33] = -708185 /\ Logit[40] = -405465 /\ Logit[50] = 0 /\ Logit[60] = 405465
  /\ Logit[66] = 663294 /\ Logit[75] = 1098612 /\ Logit[80] = 1386294 /\ Logit[85] = 1734601
  /\ Logit[90] = 2197225 /\ Logit[95] = 2944439 /\ Logit[99] = 4595120
<1> DEFINE odds == <<10, 15, 20, 25, 33, 40, 50, 60, 66, 75, 80, 85, 90, 95, 99>>
           log == <<-2197225, -1734601, -1386294, -1098612, -708185, -405465, 0, 405465,
                    663294, 1098612, 1386294, 1734601, 2197225, 2944439, 4595120>>
<1>1. \A i, j \in 1..15 : odds[i] = odds[j] => i = j
      OBVIOUS
<1>2. Logit = [p \in {odds[i] : i \in 1..15} |-> log[CHOOSE i \in 1..15 : odds[i] = p]]
      BY DEF Logit
<1>3. /\ odds[1] = 10 /\ odds[2] = 15 /\ odds[3] = 20 /\ odds[4] = 25 /\ odds[5] = 33 /\ odds[6] = 40
      /\ odds[7] = 50 /\ odds[8] = 60 /\ odds[9] = 66 /\ odds[10] = 75 /\ odds[11] = 80
      /\ odds[12] = 85 /\ odds[13] = 90 /\ odds[14] = 95 /\ odds[15] = 99
      OBVIOUS
<1>4. /\ log[1] = -2197225 /\ log[2] = -1734601 /\ log[3] = -1386294 /\ log[4] = -1098612
      /\ log[5] = -708185 /\ log[6] = -405465 /\ log[7] = 0 /\ log[8] = 405465
      /\ log[9] = 663294 /\ log[10] = 1098612 /\ log[11] = 1386294 /\ log[12] = 1734601
      /\ log[13] = 2197225 /\ log[14] = 2944439 /\ log[15] = 4595120
      OBVIOUS
<1> HIDE DEF odds, log
<1>5. ASSUME NEW i \in 1..15 PROVE odds[i] \in DOMAIN Logit /\ Logit[odds[i]] = log[i]
  <2>1. odds[i] \in {odds[j] : j \in 1..15}
        OBVIOUS
  <2>2. (CHOOSE j \in 1..15 : odds[j] = odds[i]) = i
        BY <1>1
  <2>3. QED
        BY <1>2, <2>1, <2>2
<1>6. /\ 1 \in 1..15 /\ 2 \in 1..15 /\ 3 \in 1..15 /\ 4 \in 1..15 /\ 5 \in 1..15 /\ 6 \in 1..15
      /\ 7 \in 1..15 /\ 8 \in 1..15 /\ 9 \in 1..15 /\ 10 \in 1..15 /\ 11 \in 1..15 /\ 12 \in 1..15
      /\ 13 \in 1..15 /\ 14 \in 1..15 /\ 15 \in 1..15
      OBVIOUS
<1>7. DOMAIN Logit = {10, 15, 20, 25, 33, 40, 50, 60, 66, 75, 80, 85, 90, 95, 99}
  <2>1. DOMAIN Logit = {odds[i] : i \in 1..15}
        BY <1>2
  <2>2. \A i \in 1..15 : \/ i = 1 \/ i = 2 \/ i = 3 \/ i = 4 \/ i = 5 \/ i = 6 \/ i = 7 \/ i = 8
                         \/ i = 9 \/ i = 10 \/ i = 11 \/ i = 12 \/ i = 13 \/ i = 14 \/ i = 15
        OBVIOUS
  <2>3. DOMAIN Logit \subseteq {10, 15, 20, 25, 33, 40, 50, 60, 66, 75, 80, 85, 90, 95, 99}
        BY <1>3, <2>1, <2>2
  <2>4. \A i \in 1..15 : odds[i] \in DOMAIN Logit
        BY <1>5
  <2>5. {10, 15, 20, 25, 33, 40, 50, 60, 66, 75, 80, 85, 90, 95, 99} \subseteq DOMAIN Logit
        BY <1>3, <1>6, <2>4
  <2>6. QED
        BY <2>3, <2>5
<1>8. QED
      BY <1>3, <1>4, <1>5, <1>6, <1>7

(* What the CRF contributes, as far as it goes.                            *)
LEMMA AmortizedBound ==
  ASSUME NEW crf \in 0..100
  PROVE  /\ Amortized(crf) \in Int
         /\ Amortized(crf) < 48150 * crf - 1574601
<1> DEFINE clipped == IF crf < 10 THEN 10 ELSE IF crf > 90 THEN 90 ELSE crf
           S == {p \in DOMAIN Logit : p <= clipped}
           q == Max(S)
<1>1. clipped \in 10..90 /\ (clipped <= crf \/ clipped = 10)
      OBVIOUS
<1>2. Amortized(crf) = Logit[q]
      BY DEF Amortized
<1>3. 10 \in S /\ S \subseteq 0..99
      /\ \A p \in S : p \in DOMAIN Logit /\ p <= 90 /\ (p <= crf \/ p = 10)
  <2> HIDE DEF clipped
  <2>1. DOMAIN Logit \subseteq 1..99 /\ 10 \in DOMAIN Logit
        BY GridOfScores, LogitTable
  <2>2. ASSUME NEW p \in DOMAIN Logit, p <= clipped
        PROVE  p \in 0..99 /\ p <= 90 /\ (p <= crf \/ p = 10)
    <3>1. p \in 1..99 /\ (p < 10 \/ p = 10 \/ p > 10)
          BY <2>1
    <3>2. ~(p < 10)
          BY LogitTable
    <3>3. QED
          BY <1>1, <2>2, <3>1, <3>2
  <2>3. 10 \in S
        BY <1>1, <2>1
  <2>4. QED
        BY <2>2, <2>3
<1> HIDE DEF S
<1>4. q \in S
  <2>1. S \subseteq 0..99 /\ S # {} /\ 99 \in Nat
        BY <1>3
  <2>2. QED
        BY <2>1, MaxOfSome
<1> HIDE DEF q
<1>5. q \in DOMAIN Logit /\ q <= 90 /\ (q <= crf \/ q = 10)
      BY <1>3, <1>4
<1>6. Logit[q] \in Int /\ Logit[q] < 48150 * q - 1574601 /\ (q = 10 => Logit[q] = -2197225)
      BY <1>5, LogitTable
<1>7. q \in 1..99
      BY <1>5, GridOfScores
<1>8. QED
      BY <1>2, <1>5, <1>6, <1>7

LEMMA LargerProduct ==
  ASSUME NEW k \in Nat, NEW a \in Int, NEW b \in Int, a <= b
  PROVE  k * a \in Int /\ k * a <= k * b
<1>1. b - a \in Nat /\ k * (b - a) = k * b - k * a /\ k * a \in Int /\ k * b \in Int
      BY SMT
<1> DEFINE d == b - a
<1>2. k * d \in Nat
  <2>1. d \in Nat
        BY <1>1
  <2> HIDE DEF d
  <2>2. QED
        BY <2>1, SMT
<1>3. QED
      BY <1>1, <1>2

(* No bonuses outweigh a malus of 200: at best, the bonuses count 40000 *  *)
(* 121 and the maluses 25000 * 200, and each percent of the CRF score     *)
(* moves this further down than it moves the log-odds up.                 *)
LEMMA CombinedIsLow ==
  ASSUME NEW crf \in 0..100, NEW B \in Nat, B <= 121, NEW M \in Int, M <= -200
  PROVE  Combined(crf, B, M) < MinimalScore
<1> DEFINE b == 40000 - 150 * crf  m == 25000 + 150 * crf
           x == Amortized(crf) + b * B + m * M
<1>1. b \in Nat /\ m \in Nat
      OBVIOUS
<1>2. b * B \in Int /\ b * B <= b * 121 /\ m * M \in Int /\ m * M <= m * (-200)
  <2> HIDE DEF b, m
  <2>1. QED
        BY <1>1, LargerProduct
<1>3. b * 121 + m * (-200) = -160000 - 48150 * crf
      OBVIOUS
<1>4. Amortized(crf) \in Int /\ Amortized(crf) < 48150 * crf - 1574601
      BY AmortizedBound
<1>5. x \in Int /\ x < -1734601
  <2> DEFINE p == b * B  q == m * M  r == b * 121  s == m * (-200)
  <2>1. r \in Int /\ s \in Int /\ r + s = -160000 - 48150 * crf
        BY <1>3
  <2>2. p \in Int /\ q \in Int /\ p <= r /\ q <= s
        BY <1>2
  <2>3. x = Amortized(crf) + p + q
        OBVIOUS
  <2> HIDE DEF p, q, r, s, x
  <2>4. QED
        BY <1>4, <2>1, <2>2, <2>3
<1>6. Combined(crf, B, M) = Logistic(x)
      BY DEF Combined
<1> HIDE DEF x
<1> DEFINE S == {0} \cup {p \in DOMAIN Logit : Logit[p] <= x}
<1>7. Logistic(x) = Max(S)
      BY DEF Logistic
<1>8. \A p \in S : p \in 0..14
      BY <1>5, LogitTable
<1>9. S \subseteq 0..14 /\ S # {}
      BY <1>8
<1> HIDE DEF S
<1>10. Max(S) \in 0..14
  <2>1. Max(S) \in S
        BY <1>9, MaxOfSome
  <2>2. QED
        BY <1>8, <2>1
<1>11. QED
       BY <1>6, <1>7, <1>10 DEF MinimalScore

LEMMA TypoMalusIsNone ==
  ASSUME NEW dist \in Nat, NEW F
  PROVE  TypoMalus(-50, dist, F) \in Int /\ TypoMalus(-50, dist, F) <= 0
  BY DEF TypoMalus, When

(* With the flag a country that was not generated is below the threshold.  *)
LEMMA OutrankedIsLow ==
  ASSUME NEW crf \in 0..100, NEW dist \in Nat, NEW F, Outranked \in F, OneOfHead(F),
         "GENERATED_BY_SUGGESTED_COUNTRY" \notin F
  PROVE  CountryScore(crf, dist, F) < MinimalScore
<1> DEFINE B == Sum(CountryBonus, F)  m == Sum(CountryMalus, F)  y == TypoMalus(-50, dist, F)
<1>1. B \in Nat /\ B <= 121
      BY SumOfBonuses, BonusLimit
<1>2. m \in Int /\ m <= -200
      BY MalusOfOutranked
<1>3. y \in Int /\ y <= 0
      BY TypoMalusIsNone
<1>4. CountryScore(crf, dist, F) = Combined(crf, B, m + y)
      BY DEF CountryScore
<1> HIDE DEF B, m, y
<1>5. m + y \in Int /\ m + y <= -200
      BY <1>2, <1>3
<1>6. QED
      BY <1>1, <1>4, <1>5, CombinedIsLow

-----------------------------------------------------------------------------
(***************************************************************************)
(* Countries inside other ones, from one list to the next.                 *)
(***************************************************************************)
(* x is y with more flags, none of the country head's.                     *)
Risen(x, y) ==
  /\ x.start = y.start /\ x.end = y.end /\ x.dist = y.dist /\ x.crf = y.crf
  /\ y.flags \subseteq x.flags /\ x.flags \cap HeadRanks \subseteq y.flags

Rises(s, r) == \A x \in Entries(s) : \E y \in Entries(r) : Risen(x, y)

LEMMA RisenStays ==
  ASSUME NEW s, NEW r, Rises(s, r)
  PROVE  /\ Sunk(r) => Sunk(s)
         /\ OneHead(r) => OneHead(s)
<1>1. ASSUME Sunk(r), NEW x \in Entries(s), NEW y \in Entries(s), Larger(y, x), Higher(y, x)
      PROVE  Outranked \in x.flags
  <2>1. PICK a \in Entries(r) : Risen(x, a)
        BY DEF Rises
  <2>2. PICK b \in Entries(r) : Risen(y, b)
        BY DEF Rises
  <2>3. Larger(b, a) /\ Higher(b, a)
        BY <1>1, <2>1, <2>2 DEF Risen, Larger, Higher
  <2>4. QED
        BY <1>1, <2>1, <2>3 DEF Sunk, Risen
<1>2. ASSUME OneHead(r), NEW x \in Entries(s) PROVE OneOfHead(x.flags)
  <2>1. PICK a \in Entries(r) : Risen(x, a)
        BY DEF Rises
  <2>2. QED
        BY <1>2, <2>1 DEF OneHead, OneOfHead, Risen
<1>3. QED
      BY <1>1, <1>2 DEF Sunk, OneHead

LEMMA FlaggedRises ==
  ASSUME NEW s, IsList(s), NEW t, Flagged(t, s, HeadRanks)
  PROVE  IsList(t) /\ Rises(t, s)
<1>1. /\ IsList(t) /\ Len(t) = Len(s)
      /\ \A k \in 1..Len(s) : Grown(t[k], s[k], HeadRanks) /\ s[k].flags \subseteq t[k].flags
      BY FlaggedList
<1>2. \A k \in 1..Len(s) : Risen(t[k], s[k])
      BY <1>1 DEF Grown, Risen
<1>3. QED
      BY <1>1, <1>2 DEF Rises, Entries

(* filter_fuzzy_results flags each match inside another of higher rank.    *)
LEMMA FilterSinks ==
  ASSUME NEW s, IsList(s), NEW smp, NEW r, r = FilterFuzzyResults(s, smp)
  PROVE  IsList(r) /\ Sunk(r) /\ (OneHead(s) => OneHead(r))
<1> DEFINE ranked == Ranked(s)  inside == WithInclusion(ranked, ranked)
<1>1. /\ IsList(ranked) /\ Entries(ranked) = Entries(s)
      /\ \A k, l \in 1..Len(ranked) : Higher(ranked[k], ranked[l]) => k < l
      BY RankedIsASort
<1>2. Flagged(inside, ranked, HeadRanks)
      BY InclusionIsAdded
<1>3. ASSUME NEW i \in 1..Len(ranked), NEW j \in 1..Len(ranked), j < i, Larger(ranked[j], ranked[i])
      PROVE  Outranked \in inside[i].flags
  <2> DEFINE Around == {k \in DOMAIN ranked : Larger(ranked[k], ranked[i])}
             A == FlagIf(\E k \in Around : i <= k /\ ranked[k].dist < 1,
                         "IS_INSIDE_ANOTHER_LOWER_RANKED_MATCH")
             B == FlagIf(\E k \in Around : i > k, "IS_INSIDE_ANOTHER_HIGHER_RANKED_MATCH")
  <2>1. DOMAIN ranked = 1..Len(ranked) /\ IsMatch(ranked[i])
    <3> HIDE DEF ranked
    <3>1. QED
          BY <1>1, AnySeq DEF IsList
  <2>2. inside[i] = AddFlags(ranked[i], A \cup B)
        BY <2>1 DEF WithInclusion
  <2>3. Outranked \in B
    <3> HIDE DEF ranked
    <3>1. j \in Around /\ i > j
          BY <1>3, <2>1
    <3> HIDE DEF Around
    <3>2. QED
          BY <3>1 DEF FlagIf, Outranked
  <2> HIDE DEF A, B, ranked, inside
  <2>4. inside[i].flags = ranked[i].flags \cup (A \cup B)
        BY <2>1, <2>2 DEF IsMatch, AddFlags
  <2>5. QED
        BY <2>3, <2>4
<1>4. r = [k \in DOMAIN inside |-> AddFlags(inside[k], PositionFlags(inside[k], smp))]
      BY ListItself DEF FilterFuzzyResults, FlagEach
<1> HIDE DEF ranked, inside
<1>5. /\ IsList(inside) /\ Len(inside) = Len(ranked) /\ Rises(inside, ranked)
      /\ \A k \in 1..Len(ranked) : Grown(inside[k], ranked[k], HeadRanks)
      BY <1>1, <1>2, FlaggedList, FlaggedRises
<1>6. Sunk(inside)
  <2>1. ASSUME NEW i \in 1..Len(ranked), NEW j \in 1..Len(ranked),
               Larger(inside[j], inside[i]), Higher(inside[j], inside[i])
        PROVE  Outranked \in inside[i].flags
    <3>1. Grown(inside[i], ranked[i], HeadRanks) /\ Grown(inside[j], ranked[j], HeadRanks)
          BY <1>5
    <3>2. Larger(ranked[j], ranked[i]) /\ Higher(ranked[j], ranked[i])
          BY <2>1, <3>1 DEF Grown, Larger, Higher
    <3>3. j < i
          BY <1>1, <3>2
    <3>4. QED
          BY <1>3, <3>2, <3>3
  <2>2. QED
        BY <1>5, <2>1 DEF Sunk, Entries
<1>7. OneHead(s) => OneHead(inside)
  <2>1. OneHead(s) => OneHead(ranked)
        BY <1>1 DEF OneHead
  <2>2. QED
        BY <1>5, <2>1, RisenStays
<1>8. Flagged(r, inside, HeadRanks)
      BY <1>4, PositionsAreAdded
<1>9. IsList(r) /\ Rises(r, inside)
      BY <1>5, <1>8, FlaggedRises
<1>10. QED
       BY <1>6, <1>7, <1>9, RisenStays

LEMMA CodesRise ==
  ASSUME NEW s, IsList(s)
  PROVE  IsList(FlagCodes(s)) /\ Rises(FlagCodes(s), s)
<1> DEFINE ofCodes == {i \in DOMAIN s : s[i].code}
           a == Kept(s, ofCodes)  b == Kept(s, DOMAIN s \ ofCodes)  f == WithInclusion(a, s)
<1>1. /\ IsList(a) /\ Entries(a) = {s[i] : i \in ofCodes}
      /\ IsList(b) /\ Entries(b) = {s[i] : i \in DOMAIN s \ ofCodes}
      BY SomeAreKept
<1>2. DOMAIN s = 1..Len(s)
      BY AnySeq DEF IsList
<1>3. Entries(a) \subseteq Entries(s) /\ Entries(b) \subseteq Entries(s)
      BY <1>1, <1>2 DEF Entries
<1>4. FlagCodes(s) = f \o b
      BY DEF FlagCodes
<1>5. Flagged(f, a, HeadRanks)
      BY InclusionIsAdded
<1> HIDE DEF a, b, f
<1>6. IsList(f) /\ Rises(f, a)
      BY <1>1, <1>5, FlaggedRises
<1>7. IsList(f \o b) /\ Entries(f \o b) = Entries(f) \cup Entries(b)
      BY <1>1, <1>6, OneAfterTheOther
<1>8. \A x : Risen(x, x)
      BY DEF Risen
<1>9. Rises(f \o b, s)
      BY <1>3, <1>6, <1>7, <1>8 DEF Rises
<1>10. QED
       BY <1>4, <1>7, <1>9

(* The country head gives one flag to a match that has none of it.         *)
LEMMA OneFlagOfTheHead ==
  ASSUME NEW s, IsList(s), \A m \in Entries(s) : m.flags \subseteq SuggestionFlags, NEW smp \in Samples,
         NEW r, r = CountryFlags(s, smp)
  PROVE  IsList(r) /\ OneHead(r)
<1> DEFINE A(m) == SeparatorTypo(m) \cup InsideStreet(m, smp)
           F(m) == SeparatorTypo(m) \cup InsideStreet(m, smp) \cup ProvinceFlags(m)
                     \cup HeadFlags(m, smp) \cup Evidence(m, smp)
<1>1. r = [k \in DOMAIN s |-> AddFlags(s[k], F(s[k]))]
      BY DEF CountryFlags, FlagEach
<1>2. \A m : A(m) \subseteq {"IS_SEPARATOR_TYPO", "IS_INSIDE_STREET"}
      BY DEF SeparatorTypo, InsideStreet, FlagIf
<1>3. \A m : ProvinceFlags(m) \subseteq {"IS_COMMON_STATE_PROVINCE_ALIAS", "IS_UNCOMMON_STATE_PROVINCE_ALIAS"}
      BY DEF ProvinceFlags, FlagIf
<1>4. \A m : \A g, h \in HeadFlags(m, smp) : g = h
      BY DEF HeadFlags, FlagIf
<1>5. \A m : Evidence(m, smp) \subseteq {"IBAN_IS_PRESENT", "PHONE_PREFIX_IS_PRESENT",
                                         "DOMAIN_IS_PRESENT", "POSTAL_CODE_IS_PRESENT"}
      BY SamplesAssumption DEF Evidence
<1>6. \A m : F(m) = A(m) \cup ProvinceFlags(m) \cup HeadFlags(m, smp) \cup Evidence(m, smp)
      OBVIOUS
<1> HIDE DEF A, F
<1>7. ASSUME NEW m PROVE F(m) \cap HeadRanks \subseteq HeadFlags(m, smp)
  <2>1. ASSUME NEW g \in HeadRanks PROVE g \notin A(m) /\ g \notin ProvinceFlags(m) /\ g \notin Evidence(m, smp)
    <3>1. /\ g \notin {"IS_SEPARATOR_TYPO", "IS_INSIDE_STREET"}
          /\ g \notin {"IS_COMMON_STATE_PROVINCE_ALIAS", "IS_UNCOMMON_STATE_PROVINCE_ALIAS"}
          /\ g \notin {"IBAN_IS_PRESENT", "PHONE_PREFIX_IS_PRESENT",
                       "DOMAIN_IS_PRESENT", "POSTAL_CODE_IS_PRESENT"}
          BY DEF HeadRanks
    <3>2. QED
          BY <1>2, <1>3, <1>5, <3>1
  <2>2. QED
        BY <1>6, <2>1
<1>8. Flagged(r, s, Watched)
      BY CountryFlagsAreAdded
<1>9. IsList(r) /\ Len(r) = Len(s)
      BY <1>8, FlaggedList
<1>10. Len(s) \in Nat /\ DOMAIN s = 1..Len(s)
       BY AnySeq DEF IsList
<1>11. ASSUME NEW k \in 1..Len(s) PROVE OneOfHead(r[k].flags)
  <2>1. IsMatch(s[k]) /\ s[k] \in Entries(s)
        BY DEF IsList, Entries
  <2>2. r[k] = AddFlags(s[k], F(s[k]))
        BY <1>1, <1>10
  <2>3. r[k].flags = s[k].flags \cup F(s[k])
        BY <2>1, <2>2 DEF AddFlags, IsMatch
  <2>4. \A g \in HeadRanks : g \notin s[k].flags
        BY <2>1 DEF HeadRanks, SuggestionFlags
  <2>5. \A g \in HeadRanks : g \in r[k].flags => g \in HeadFlags(s[k], smp)
        BY <1>7, <2>3, <2>4
  <2>6. QED
        BY <1>4, <2>5 DEF OneOfHead
<1>12. QED
       BY <1>9, <1>11 DEF OneHead, Entries

(* What post-processing flags of the countries.                            *)
LEMMA CountriesSink ==
  ASSUME NEW smp \in Samples, NEW c, IsList(c), NEW t1, IsSeq(t1),
         \A m \in Entries(c) : m.flags \subseteq SuggestionFlags,
         NEW c1, c1 = FlagCodes(FilterFuzzyResults(CountryFlags(c, smp), smp)),
         NEW c3, c3 = ReasonableMistakes(CountryRelations(c1, t1, smp), smp.townPredictions)
  PROVE  Sunk(c3) /\ OneHead(c3)
<1> DEFINE a == CountryFlags(c, smp)  b == FilterFuzzyResults(a, smp)  c2 == CountryRelations(c1, t1, smp)
<1>1. IsList(a) /\ OneHead(a)
      BY OneFlagOfTheHead
<1>2. c1 = FlagCodes(b) /\ c3 = ReasonableMistakes(c2, smp.townPredictions)
      OBVIOUS
<1>3. Flagged(c2, c1, HeadRanks)
      BY CountryRelationsAreAdded
<1> HIDE DEF a, c2
<1>4. IsList(b) /\ Sunk(b) /\ OneHead(b)
      BY <1>1, FilterSinks
<1> HIDE DEF b
<1>5. IsList(c1) /\ Sunk(c1) /\ OneHead(c1)
      BY <1>2, <1>4, CodesRise, RisenStays
<1>6. IsList(c2) /\ Sunk(c2) /\ OneHead(c2)
      BY <1>3, <1>5, FlaggedRises, RisenStays
<1>7. Flagged(c3, c2, HeadRanks)
      BY <1>2, MistakesAreAdded
<1>8. QED
      BY <1>6, <1>7, FlaggedRises, RisenStays

(* What the final scores make of them.                                     *)
LEMMA FinalsDrown ==
  ASSUME NEW s, IsList(s), Sunk(s), OneHead(s),
         NEW t, IsSeq(t), Len(t) = Len(s), \A k \in 1..Len(s) : t[k] = FinalCountry(s[k])
  PROVE  Drowned(t)
<1>1. ASSUME NEW k \in 1..Len(s)
      PROVE  LET m == s[k]  n == t[k] IN
             /\ n.start = m.start /\ n.end = m.end /\ n.dist = m.dist /\ n.crf = m.crf
             /\ ~Generated(n) => ~Generated(m) /\ n.flags = m.flags
                                 /\ n.final = CountryScore(m.crf, m.dist, m.flags)
  <2> DEFINE m == s[k]  n == t[k]
  <2>1. IsMatch(m) /\ n = FinalCountry(m)
        BY DEF IsList
  <2> HIDE DEF m, n
  <2>2. /\ n.start = m.start /\ n.end = m.end /\ n.dist = m.dist /\ n.crf = m.crf
        /\ Generated(m) => n.flags = {"GENERATED_BY_SUGGESTED_COUNTRY"}
        /\ ~Generated(m) => n.flags = m.flags /\ n.final = CountryScore(m.crf, m.dist, m.flags)
        BY <2>1, FinalScores
  <2>3. QED
        BY <2>2 DEF Generated, m, n
<1>2. ASSUME NEW i \in 1..Len(s), NEW j \in 1..Len(s),
             ~Generated(t[i]), Larger(t[j], t[i]), Higher(t[j], t[i])
      PROVE  t[i].final < MinimalScore
  <2> DEFINE x == s[i]  y == s[j]
  <2>1. Larger(y, x) /\ Higher(y, x)
        BY <1>1, <1>2 DEF Larger, Higher
  <2>2. x \in Entries(s) /\ y \in Entries(s) /\ IsMatch(x)
        BY DEF IsList, Entries
  <2>3. ~Generated(x) /\ t[i].final = CountryScore(x.crf, x.dist, x.flags)
        BY <1>1, <1>2
  <2> HIDE DEF x, y
  <2>4. Outranked \in x.flags /\ OneOfHead(x.flags)
        BY <2>1, <2>2 DEF Sunk, OneHead
  <2>5. x.crf \in 0..100 /\ x.dist \in Nat /\ "GENERATED_BY_SUGGESTED_COUNTRY" \notin x.flags
        BY <2>2, <2>3 DEF IsMatch, Generated
  <2>6. QED
        BY <2>3, <2>4, <2>5, OutrankedIsLow, ZenonT(60)
<1>3. QED
      BY <1>2 DEF Drowned, Entries

-----------------------------------------------------------------------------
(***************************************************************************)
(* Each step keeps the invariant.                                          *)
(***************************************************************************)
LEMMA Starts == Init => PostInv
<1>1. IsList(<<>>)
      BY AnyEmpty DEF IsList
<1>2. QED
      BY <1>1 DEF Init, PostInv, TypeInv, GeneratorInv, MatchedInv, SuggestInv, TownsInv,
                  RelationInv, NestedInv, AnswersInv, ReplyInv

LEMMA FetchKeeps == ASSUME PostInv, Fetch PROVE PostInv'
<1>1. /\ pc' = "fetched" /\ sample' \in Samples /\ fuzzy' \in FuzzyMatches(sample')
      /\ UNCHANGED <<countries, codes, towns, force>>
      BY DEF Fetch
<1>2. TypeInv'
      BY <1>1 DEF PostInv, TypeInv
<1>3. QED
      BY <1>1, <1>2 DEF PostInv, GeneratorInv, MatchedInv, SuggestInv, TownsInv,
                        RelationInv, NestedInv, AnswersInv, ReplyInv

LEMMA ScoreKeeps == ASSUME PostInv, ScoreCountries PROVE PostInv'
<1>1. /\ pc = "fetched" /\ pc' = "scored" /\ UNCHANGED <<sample, fuzzy, towns>>
      /\ suggested' = sample.suggested /\ force' = sample.force
      /\ countries' = Scored(fuzzy.names, sample.country)
      /\ codes' = WithSuggestion(SuggestionFlagged(Scored(fuzzy.codes, sample.country)))
      BY DEF ScoreCountries, SetSuggestion
<1>2. sample \in Samples /\ fuzzy \in FuzzyMatches(sample) /\ IsList(towns)
      BY <1>1 DEF PostInv, TypeInv, MatchedInv
<1>3. FreshList(fuzzy.names) /\ FreshList(fuzzy.codes)
      BY <1>2, WhatIsMatched
<1> DEFINE s == Scored(fuzzy.codes, sample.country)
<1>4. /\ Standing(countries') /\ \A m \in Entries(countries') : m.flags \subseteq {"IS_INSIDE_ANOTHER_WORD"}
      /\ Standing(s) /\ \A m \in Entries(s) : m.flags \subseteq {"IS_INSIDE_ANOTHER_WORD"}
      BY <1>1, <1>3, FreshScored
<1>5. codes' = WithSuggestion(SuggestionFlagged(s))
      BY <1>1
<1> HIDE DEF s
<1>6. /\ IsList(codes') /\ \A m \in Entries(codes') : m.flags \subseteq SuggestionFlags
      /\ IsSuggested(sample) => Suggests(codes', sample)
      BY <1>2, <1>4, <1>5, SuggestionIsAppended DEF IsSuggested
<1>7. TypeInv'
  <2>1. force' \in BOOLEAN
        BY <1>1, <1>2, SamplesAssumption
  <2>2. QED
        BY <1>1, <1>2, <1>4, <1>6, <2>1 DEF TypeInv, Standing
<1>8. MatchedInv'
      BY <1>1, <1>2, <1>4, <1>6 DEF MatchedInv, SuggestionFlags
<1>9. SuggestInv' /\ GeneratorInv'
      BY <1>1, <1>6 DEF SuggestInv, GeneratorInv, IsSuggested
<1>10. QED
       BY <1>1, <1>7, <1>8, <1>9 DEF PostInv, TownsInv, RelationInv, NestedInv, AnswersInv, ReplyInv

LEMMA MergeKeeps == ASSUME PostInv, MergeMatches PROVE PostInv'
<1> DEFINE I == {i \in DOMAIN codes : codes[i].crf > 0 \/ codes[i].origin = sample.head}
           kept == Kept(codes, I)
           ext == [k \in DOMAIN fuzzy.extended |-> AddFlags(fuzzy.extended[k], {"IS_FROM_EXTENDED_DATA"})]
<1>1. /\ pc = "scored" /\ pc' = "merged" /\ UNCHANGED <<sample, suggested, force>>
      /\ codes' = kept /\ countries' = countries \o kept
      /\ towns' = Scored(fuzzy.towns \o ext, sample.town)
      BY DEF MergeMatches, FlagEach
<1>2. /\ sample \in Samples /\ fuzzy \in FuzzyMatches(sample) /\ IsList(countries) /\ IsList(codes)
      /\ suggested = sample.suggested /\ force = sample.force /\ force \in BOOLEAN
      /\ \A m \in Entries(countries) : m.flags \subseteq SuggestionFlags
      /\ \A m \in Entries(codes) : m.flags \subseteq SuggestionFlags
      /\ IsSuggested(sample) => Suggests(codes, sample)
      BY <1>1 DEF PostInv, TypeInv, MatchedInv, GeneratorInv, SuggestInv
<1>3. IsList(kept) /\ Entries(kept) = {codes[i] : i \in I}
      BY <1>2, SomeAreKept
<1>4. DOMAIN codes = 1..Len(codes)
      BY <1>2, AnySeq DEF IsList
<1>5. Entries(kept) \subseteq Entries(codes)
      BY <1>3, <1>4 DEF Entries
<1>6. IsSuggested(sample) => Suggests(kept, sample)
  <2>1. ASSUME IsSuggested(sample) PROVE Suggests(kept, sample)
    <3>1. PICK m \in Entries(codes) : Generated(m) /\ m.origin = sample.suggested /\ m.crf = SuggestionScore
          BY <1>2, <2>1 DEF Suggests
    <3>2. PICK i \in DOMAIN codes : m = codes[i]
          BY <1>4 DEF Entries
    <3>3. i \in I
          BY <3>1, <3>2 DEF SuggestionScore
    <3>4. m \in Entries(kept)
          BY <1>3, <3>2, <3>3
    <3>5. QED
          BY <3>1, <3>4 DEF Suggests
  <2>2. QED
        BY <2>1
<1> HIDE DEF I, kept
<1>7. IsList(countries') /\ Entries(countries') = Entries(countries) \cup Entries(kept)
      BY <1>1, <1>2, <1>3, OneAfterTheOther
<1>8. Unrelated(countries')
      BY <1>2, <1>5, <1>7 DEF Unrelated, Related, SuggestionFlags
<1>9. IsSuggested(sample) => Suggests(countries', sample)
      BY <1>6, <1>7 DEF Suggests
<1>10. ext = [k \in DOMAIN fuzzy.extended |-> AddFlags(fuzzy.extended[k], {"IS_FROM_EXTENDED_DATA"})]
       OBVIOUS
<1> HIDE DEF ext
<1>11. IsList(towns') /\ Unrelated(towns') /\ OpensTowns(towns', sample) /\ Named(towns')
       BY <1>1, <1>2, <1>10, TownsMerged
<1>12. TypeInv'
       BY <1>1, <1>2, <1>3, <1>7, <1>11 DEF TypeInv
<1>13. SuggestInv' /\ TownsInv' /\ RelationInv'
       BY <1>1, <1>8, <1>9, <1>11 DEF SuggestInv, TownsInv, RelationInv
<1>14. GeneratorInv'
       BY <1>1, <1>2 DEF GeneratorInv
<1>15. NestedInv'
       BY <1>1, <1>2, <1>5, <1>7 DEF NestedInv
<1>16. QED
       BY <1>1, <1>12, <1>13, <1>14, <1>15 DEF PostInv, MatchedInv, AnswersInv, ReplyInv

LEMMA FlagKeeps == ASSUME PostInv, FlagMatches PROVE PostInv'
<1> DEFINE c1 == FlagCodes(FilterFuzzyResults(CountryFlags(countries, sample), sample))
           t1 == FilterFuzzyResults(TownFlags(towns, sample), sample)
           c3 == ReasonableMistakes(CountryRelations(c1, t1, sample), sample.townPredictions)
           t3 == PostcodeFlags(AloneOnLine(ReasonableMistakes(TownRelations(t1, c1, sample), sample.countryPredictions),
                                           sample), sample)
<1>1. /\ pc = "merged" /\ pc' = "flagged" /\ UNCHANGED <<sample, codes, suggested, force>>
      /\ countries' = c3 /\ towns' = t3
      BY DEF FlagMatches
<1>2. /\ sample \in Samples /\ IsList(countries) /\ IsList(codes) /\ IsList(towns) /\ force \in BOOLEAN
      /\ suggested = sample.suggested /\ force = sample.force
      /\ Unrelated(countries) /\ Unrelated(towns) /\ OpensTowns(towns, sample) /\ Named(towns)
      /\ IsSuggested(sample) => Suggests(countries, sample)
      /\ \A m \in Entries(countries) : m.flags \subseteq SuggestionFlags
      BY <1>1 DEF PostInv, TypeInv, GeneratorInv, RelationInv, TownsInv, SuggestInv, NestedInv
<1>3. /\ IsList(c3) /\ IsList(t3) /\ Mutual(c3, t3)
      /\ Regrown(c3, countries, Watched \ Related) /\ Regrown(t3, towns, Watched \ Related)
      BY <1>2, ListsFlagged
<1>4. Sunk(c3) /\ OneHead(c3)
  <2>1. IsList(TownFlags(towns, sample))
        BY <1>2, TownFlagsAreAdded, FlaggedList
  <2>2. IsSeq(t1)
        BY <2>1, FilterKeepsAll DEF IsList
  <2> HIDE DEF t1
  <2>3. QED
        BY <1>2, <2>2, CountriesSink
<1> HIDE DEF c3, t3
<1>5. /\ IsSuggested(sample) => Suggests(c3, sample)
      /\ OpensTowns(t3, sample) /\ Named(t3)
      BY <1>2, <1>3, RegrownKeeps
<1>6. TypeInv'
      BY <1>1, <1>2, <1>3 DEF TypeInv
<1>7. SuggestInv' /\ TownsInv' /\ RelationInv' /\ NestedInv'
      BY <1>1, <1>3, <1>4, <1>5 DEF SuggestInv, TownsInv, RelationInv, NestedInv
<1>8. GeneratorInv'
      BY <1>1, <1>2 DEF GeneratorInv
<1>9. QED
      BY <1>1, <1>6, <1>7, <1>8 DEF PostInv, MatchedInv, AnswersInv, ReplyInv

(* A list whose entries are replaced one by one.                           *)
LEMMA Replaced ==
  ASSUME NEW s, IsSeq(s), NEW t, t = [k \in DOMAIN s |-> t[k]]
  PROVE  IsSeq(t) /\ Len(t) = Len(s) /\ DOMAIN s = 1..Len(s) /\ Len(s) \in Nat
<1>1. Len(s) \in Nat /\ DOMAIN s = 1..Len(s)
      BY AnySeq
<1>2. DOMAIN t = 1..Len(s)
      BY <1>1
<1>3. QED
      BY <1>1, <1>2, GivenByEntries

LEMMA CombineKeeps == ASSUME PostInv, CombineMatches PROVE PostInv'
<1> DEFINE c == [i \in DOMAIN countries |-> FinalCountry(countries[i])]
           t == [i \in DOMAIN towns |-> FinalTown(towns[i])]
<1>1. /\ pc = "flagged" /\ pc' = "yielded" /\ UNCHANGED <<sample, codes, suggested, force>>
      /\ countries' = c /\ towns' = t
      /\ answers' = GenerateCombinations(AboveThreshold(c), AboveThreshold(t), NoCountry, NoTown,
                                         suggested, force)
      BY DEF CombineMatches
<1>2. /\ sample \in Samples /\ IsList(countries) /\ IsList(codes) /\ IsList(towns) /\ force \in BOOLEAN
      /\ suggested = sample.suggested /\ force = sample.force
      /\ Mutual(countries, towns) /\ OpensTowns(towns, sample) /\ Named(towns)
      /\ IsSuggested(sample) => Suggests(countries, sample)
      /\ Sunk(countries) /\ OneHead(countries)
      BY <1>1 DEF PostInv, TypeInv, GeneratorInv, RelationInv, TownsInv, SuggestInv, NestedInv
<1>3. /\ IsSeq(c) /\ Len(c) = Len(countries)
      /\ \A k \in 1..Len(countries) : c[k] = FinalCountry(countries[k])
  <2>1. c = [k \in DOMAIN countries |-> c[k]] /\ \A k \in DOMAIN countries : c[k] = FinalCountry(countries[k])
        OBVIOUS
  <2> HIDE DEF c
  <2>2. QED
        BY <1>2, <2>1, Replaced DEF IsList
<1>4. /\ IsSeq(t) /\ Len(t) = Len(towns)
      /\ \A k \in 1..Len(towns) : t[k] = FinalTown(towns[k])
  <2>1. t = [k \in DOMAIN towns |-> t[k]] /\ \A k \in DOMAIN towns : t[k] = FinalTown(towns[k])
        OBVIOUS
  <2> HIDE DEF t
  <2>2. QED
        BY <1>2, <2>1, Replaced DEF IsList
<1> HIDE DEF c, t
<1>5. ASSUME NEW k \in 1..Len(countries)
      PROVE  LET m == countries[k]  n == c[k] IN
             /\ IsMatch(n) /\ n.origin = m.origin
             /\ Generated(m) => n.flags = {"GENERATED_BY_SUGGESTED_COUNTRY"} /\ n.final = SuggestionScore
             /\ ~Generated(m) => n.flags = m.flags
  <2>1. IsMatch(countries[k])
        BY <1>2 DEF IsList
  <2>2. QED
        BY <1>3, <2>1, FinalScores
<1>6. ASSUME NEW k \in 1..Len(towns)
      PROVE  LET m == towns[k]  n == t[k] IN
             IsMatch(n) /\ n.origin = m.origin /\ n.key = m.key /\ n.flags = m.flags
  <2>1. IsMatch(towns[k])
        BY <1>2 DEF IsList
  <2>2. QED
        BY <1>4, <2>1, FinalScores
<1>7. IsList(c) /\ IsList(t)
      BY <1>3, <1>4, <1>5, <1>6 DEF IsList
<1>8. IsSuggested(sample) => Offers(c, sample)
  <2>1. ASSUME IsSuggested(sample) PROVE Offers(c, sample)
    <3>1. PICK k \in 1..Len(countries) : Generated(countries[k]) /\ countries[k].origin = sample.suggested
          BY <1>2, <2>1 DEF Suggests, Entries
    <3>2. /\ c[k].origin = sample.suggested /\ c[k].final = SuggestionScore
          /\ c[k].flags = {"GENERATED_BY_SUGGESTED_COUNTRY"}
          BY <1>5, <3>1
    <3>3. c[k] \in Entries(c)
          BY <1>3 DEF Entries
    <3>4. QED
          BY <3>2, <3>3 DEF Offers
  <2>2. QED
        BY <2>1
<1>9. /\ \A y \in Entries(towns) : \E x \in Entries(t) :
           x.origin = y.origin /\ x.key = y.key /\ x.flags = y.flags
      /\ \A x \in Entries(t) : \E y \in Entries(towns) :
           x.origin = y.origin /\ x.key = y.key /\ x.flags = y.flags
      BY <1>4, <1>6 DEF Entries
<1>10. OpensTowns(t, sample)
  <2>1. ASSUME sample.suggested \in DOMAIN ExtendedAllPossibilitiesTown,
               NEW e \in Range(ExtendedAllPossibilitiesTown[sample.suggested]),
               NearMatches(e.key, sample, Tolerance) # <<>>
        PROVE  \E x \in Entries(t) : x.key = e.key /\ "IS_FROM_EXTENDED_DATA" \in x.flags
    <3>1. PICK y \in Entries(towns) : y.key = e.key /\ "IS_FROM_EXTENDED_DATA" \in y.flags
          BY <1>2, <2>1 DEF OpensTowns
    <3>2. PICK x \in Entries(t) : x.key = y.key /\ x.flags = y.flags
          BY <1>9
    <3>3. QED
          BY <3>1, <3>2
  <2>2. QED
        BY <2>1 DEF OpensTowns
<1>11. Named(t)
  <2>1. ASSUME NEW x \in Entries(t) PROVE Plain[x.key] # Plain["NO TOWN"]
    <3>1. PICK y \in Entries(towns) : x.key = y.key
          BY <1>9
    <3>2. Plain[y.key] # Plain["NO TOWN"]
          BY <1>2 DEF Named
    <3>3. QED
          BY <3>1, <3>2
  <2>2. QED
        BY <2>1 DEF Named
<1>12. Mutual(c, t)
  <2>1. ASSUME NEW x \in Entries(t),
               "COUNTRY_IS_PRESENT" \in x.flags, "IS_FROM_EXTENDED_DATA" \notin x.flags
        PROVE  \E y \in Entries(c) : y.origin = x.origin /\ ("TOWN_IS_PRESENT" \in y.flags \/ Generated(y))
    <3>1. PICK y \in Entries(towns) : x.origin = y.origin /\ x.flags = y.flags
          BY <1>9
    <3>2. PICK m \in Entries(countries) : m.origin = y.origin /\ ("TOWN_IS_PRESENT" \in m.flags \/ Generated(m))
          BY <1>2, <2>1, <3>1 DEF Mutual
    <3>3. PICK k \in 1..Len(countries) : m = countries[k]
          BY DEF Entries
    <3>4. c[k].origin = x.origin /\ ("TOWN_IS_PRESENT" \in c[k].flags \/ Generated(c[k]))
      <4>1. CASE Generated(m)
            BY <1>5, <3>1, <3>2, <3>3, <4>1 DEF Generated
      <4>2. CASE ~Generated(m)
            BY <1>5, <3>1, <3>2, <3>3, <4>2
      <4>3. QED
            BY <4>1, <4>2
    <3>5. c[k] \in Entries(c)
          BY <1>3 DEF Entries
    <3>6. QED
          BY <3>4, <3>5
  <2>2. ASSUME NEW y \in Entries(c), "TOWN_IS_PRESENT" \in y.flags
        PROVE  \E x \in Entries(t) : /\ x.origin = y.origin /\ "COUNTRY_IS_PRESENT" \in x.flags
                                     /\ "IS_FROM_EXTENDED_DATA" \notin x.flags
    <3>1. PICK k \in 1..Len(countries) : y = c[k]
          BY <1>3 DEF Entries
    <3>2. ~Generated(countries[k])
          BY <1>5, <2>2, <3>1
    <3>3. countries[k] \in Entries(countries) /\ "TOWN_IS_PRESENT" \in countries[k].flags
          /\ countries[k].origin = y.origin
          BY <1>5, <2>2, <3>1, <3>2 DEF Entries
    <3>4. PICK m \in Entries(towns) : /\ m.origin = y.origin /\ "COUNTRY_IS_PRESENT" \in m.flags
                                      /\ "IS_FROM_EXTENDED_DATA" \notin m.flags
          BY <1>2, <3>3 DEF Mutual
    <3>5. PICK x \in Entries(t) : x.origin = m.origin /\ x.flags = m.flags
          BY <1>9
    <3>6. QED
          BY <3>4, <3>5
  <2>3. QED
        BY <2>1, <2>2 DEF Mutual
<1>13. TypeInv'
       BY <1>1, <1>2, <1>7 DEF TypeInv
<1>14. SuggestInv' /\ TownsInv' /\ RelationInv'
       BY <1>1, <1>8, <1>10, <1>11, <1>12 DEF SuggestInv, TownsInv, RelationInv
<1>15. AnswersInv'
  <2>1. NoCountry' = NoCountry /\ NoTown' = NoTown
        BY <1>1 DEF NoCountry, NoTown
  <2>2. answers' = Combinations0'
        BY <1>1, <1>2, <2>1 DEF Combinations0
  <2>3. QED
        BY <2>2 DEF AnswersInv
<1>16. GeneratorInv'
       BY <1>1, <1>2 DEF GeneratorInv
<1>17. NestedInv'
  <2>1. Drowned(c)
        BY <1>2, <1>3, FinalsDrown
  <2>2. QED
        BY <1>1, <2>1 DEF NestedInv
<1>18. QED
       BY <1>1, <1>13, <1>14, <1>15, <1>16, <1>17 DEF PostInv, MatchedInv, ReplyInv

LEMMA UnchangedKeeps ==
  ASSUME PostInv, UNCHANGED <<sample, countries, codes, towns, suggested, force, answers>>,
         pc \in {"yielded", "replied"}, pc' = "replied",
         reply' = PairMatches(IF Len(answers) < NumResults THEN Len(answers) ELSE NumResults)
  PROVE  PostInv'
<1>1. NoCountry' = NoCountry /\ NoTown' = NoTown
      BY DEF NoCountry, NoTown
<1>2. AnswersInv'
  <2>1. Combinations0' = Combinations0
        BY <1>1 DEF Combinations0
  <2>2. answers = Combinations0
        BY DEF PostInv, AnswersInv
  <2>3. QED
        BY <2>1, <2>2 DEF AnswersInv
<1>3. ReplyInv'
  <2>1. \A n : PairMatches(n)' = PairMatches(n)
        BY DEF PairMatches
  <2>2. QED
        BY <2>1 DEF ReplyInv
<1>4. TypeInv' /\ GeneratorInv' /\ MatchedInv' /\ SuggestInv'
      BY DEF PostInv, TypeInv, GeneratorInv, MatchedInv, SuggestInv
<1>5. QED
      BY <1>2, <1>3, <1>4 DEF PostInv, TownsInv, RelationInv, NestedInv

LEMMA ResumeKeeps == ASSUME PostInv, Resume PROVE PostInv'
<1>1. IsList(<<>>)
      BY AnyEmpty DEF IsList
<1>2. /\ pc' = "waiting" /\ sample' = NoSample /\ force' = force
      /\ countries' = <<>> /\ codes' = <<>> /\ towns' = <<>>
      BY DEF Resume
<1>3. TypeInv'
      BY <1>1, <1>2 DEF PostInv, TypeInv
<1>4. QED
      BY <1>2, <1>3 DEF PostInv, GeneratorInv, MatchedInv, SuggestInv, TownsInv, RelationInv,
                        NestedInv, AnswersInv, ReplyInv

LEMMA StutterKeeps == ASSUME PostInv, UNCHANGED vars PROVE PostInv'
<1>1. NoCountry' = NoCountry /\ NoTown' = NoTown
      BY DEF NoCountry, NoTown, vars
<1>2. AnswersInv'
  <2>1. Combinations0' = Combinations0
        BY <1>1 DEF Combinations0, vars
  <2>2. pc \in {"yielded", "replied"} => answers = Combinations0
        BY DEF PostInv, AnswersInv
  <2>3. QED
        BY <2>1, <2>2 DEF AnswersInv, vars
<1>3. ReplyInv'
  <2>1. \A n : PairMatches(n)' = PairMatches(n)
        BY DEF PairMatches, vars
  <2>2. QED
        BY <2>1 DEF PostInv, ReplyInv, vars
<1>4. /\ TypeInv' /\ GeneratorInv' /\ MatchedInv' /\ SuggestInv' /\ TownsInv' /\ RelationInv'
      /\ NestedInv'
      BY DEF PostInv, TypeInv, GeneratorInv, MatchedInv, SuggestInv, TownsInv, RelationInv,
             NestedInv, vars
<1>5. QED
      BY <1>2, <1>3, <1>4 DEF PostInv

(* The invariant holds throughout.                                         *)
LEMMA PostInvariant == Spec => []PostInv
<1>1. Init => PostInv
      BY Starts
<1>2. PostInv /\ [Next]_vars => PostInv'
  <2> SUFFICES ASSUME PostInv, [Next]_vars PROVE PostInv'
      OBVIOUS
  <2>1. CASE Fetch
        BY <2>1, FetchKeeps
  <2>2. CASE ScoreCountries
        BY <2>2, ScoreKeeps
  <2>3. CASE MergeMatches
        BY <2>3, MergeKeeps
  <2>4. CASE FlagMatches
        BY <2>4, FlagKeeps
  <2>5. CASE CombineMatches
        BY <2>5, CombineKeeps
  <2>6. CASE Reply
        BY <2>6, UnchangedKeeps DEF Reply
  <2>7. CASE Resume
        BY <2>7, ResumeKeeps
  <2>8. CASE UNCHANGED vars
        BY <2>8, StutterKeeps
  <2>9. QED
        BY <2>1, <2>2, <2>3, <2>4, <2>5, <2>6, <2>7, <2>8 DEF Next
<1>3. QED
      BY <1>1, <1>2, PTL DEF Spec

-----------------------------------------------------------------------------
(***************************************************************************)
(* What the answers are, for the theorems.                                 *)
(***************************************************************************)
LEMMA ElementsAreEntries == ASSUME NEW s, IsSeq(s) PROVE Elements(s) = Entries(s)
  BY AnySeq DEF Elements, Entries

LEMMA ThresholdKept ==
  ASSUME NEW s, IsList(s)
  PROVE  /\ IsList(AboveThreshold(s)) /\ FinalsOf(AboveThreshold(s))
         /\ \A m : m \in Entries(AboveThreshold(s)) <=> m \in Entries(s) /\ m.final >= MinimalScore
<1> DEFINE I == {i \in DOMAIN s : s[i].final >= MinimalScore}  t == AboveThreshold(s)
<1>1. IsList(t) /\ Entries(t) = {s[i] : i \in I}
      BY SomeAreKept DEF AboveThreshold
<1>2. DOMAIN s = 1..Len(s)
      BY AnySeq DEF IsList
<1>3. \A m : m \in Entries(t) <=> m \in Entries(s) /\ m.final >= MinimalScore
      BY <1>1, <1>2 DEF Entries
<1> HIDE DEF t
<1>4. FinalsOf(t)
  <2>1. \A k \in 1..Len(t) : t[k].final \in Int
        BY <1>1, MatchNumbers DEF IsList
  <2>2. QED
        BY <1>1, <2>1 DEF FinalsOf, IsList
<1>5. QED
      BY <1>1, <1>3, <1>4 DEF t

Offer(x) ==
  Found(x, AboveThreshold(countries), AboveThreshold(towns), NoCountry, NoTown,
        sample.suggested, sample.force)

Default == Combination(NoCountry, NoTown, 20 * MinimalScore)

LEMMA AnswersAreOffers ==
  ASSUME PostInv, pc \in {"yielded", "replied"}
  PROVE  /\ IsSeq(answers) /\ answers # <<>> /\ Answers = Entries(answers)
         /\ \A x \in Entries(answers) : Offer(x) \/ (x = Default /\ ~\E y : Offer(y))
         /\ \A x : Offer(x) => \E y \in Entries(answers) : Same(x, y) /\ y.score >= x.score
         /\ \A k, l \in 1..Len(answers) : k < l =>
              answers[k].score >= answers[l].score /\ ~Same(answers[k], answers[l])
<1> DEFINE C == AboveThreshold(countries)  T == AboveThreshold(towns)
<1>1. FinalsOf(C) /\ FinalsOf(T)
      BY ThresholdKept DEF PostInv, TypeInv
<1>2. answers = GenerateCombinations(C, T, NoCountry, NoTown, sample.suggested, sample.force)
      BY DEF PostInv, AnswersInv, Combinations0
<1>3. \A x : Offer(x) <=> Found(x, C, T, NoCountry, NoTown, sample.suggested, sample.force)
      BY DEF Offer
<1> HIDE DEF C, T
<1>4. /\ IsSeq(answers) /\ answers # <<>>
      /\ \A x \in Entries(answers) : Offer(x) \/ (x = Default /\ ~\E y : Offer(y))
      /\ \A x : Offer(x) => \E y \in Entries(answers) : Same(x, y) /\ y.score >= x.score
      /\ \A k, l \in 1..Len(answers) : k < l =>
           answers[k].score >= answers[l].score /\ ~Same(answers[k], answers[l])
      BY <1>1, <1>2, <1>3, WhatIsGenerated DEF Default
<1>5. Answers = Entries(answers)
      BY <1>4, ElementsAreEntries DEF Answers
<1>6. QED
      BY <1>4, <1>5

LEMMA ListsOfMatches ==
  ASSUME PostInv
  PROVE  /\ Elements(countries) = Entries(countries) /\ Elements(towns) = Entries(towns)
         /\ Elements(codes) = Entries(codes)
         /\ Elements(AboveThreshold(countries)) = Entries(AboveThreshold(countries))
         /\ Elements(AboveThreshold(towns)) = Entries(AboveThreshold(towns))
<1>1. IsList(countries) /\ IsList(towns) /\ IsList(codes)
      BY DEF PostInv, TypeInv
<1>2. IsList(AboveThreshold(countries)) /\ IsList(AboveThreshold(towns))
      BY <1>1, ThresholdKept
<1>3. QED
      BY <1>1, <1>2, ElementsAreEntries DEF IsList

(* Where Offer comes from.                                                 *)
LEMMA OfferIs ==
  ASSUME PostInv, NEW x
  PROVE  Offer(x) <=>
           \/ \E c \in Entries(AboveThreshold(countries)), t \in Entries(AboveThreshold(towns)) :
                Fitting(c, t, sample.suggested, sample.force) /\ x = Pair(c, t)
           \/ \E c \in Entries(AboveThreshold(countries)) :
                ~Skipped(c, sample.suggested, sample.force) /\ x = SoloCountry(c, NoTown)
           \/ /\ ~(Forced(sample.suggested, sample.force) /\ sample.suggested # "NO COUNTRY")
              /\ \E t \in Entries(AboveThreshold(towns)) : x = SoloTown(t, NoCountry)
  BY DEF Offer, Found

LEMMA PairParts ==
  ASSUME NEW c, NEW t
  PROVE  Pair(c, t).country = c /\ Pair(c, t).town = t
  BY DEF Pair, Combination

LEMMA PairScore ==
  ASSUME NEW c, NEW t
  PROVE  Pair(c, t).score = 10 * (c.final + t.final)
  BY DEF Pair, Combination

LEMMA CountryParts ==
  ASSUME NEW c
  PROVE  SoloCountry(c, NoTown).country = c /\ SoloCountry(c, NoTown).town = NoTown
  BY DEF SoloCountry, Combination

LEMMA TownParts ==
  ASSUME NEW t
  PROVE  SoloTown(t, NoCountry).country = NoCountry /\ SoloTown(t, NoCountry).town = t
  BY DEF SoloTown, Combination

LEMMA PlaceholderParts ==
  /\ Default.country = NoCountry /\ Default.town = NoTown
  /\ NoCountry.origin = "NO COUNTRY" /\ NoCountry.start = 0 /\ NoCountry.end = 0
  /\ NoTown.key = "NO TOWN" /\ NoTown.start = 0 /\ NoTown.end = 0
  BY DEF Default, Combination, NoCountry, NoTown, Match

LEMMA NothingAt == Span(NoCountry) = {} /\ Span(NoTown) = {}
  BY DEF Span, NoCountry, NoTown, Match

(* The score of a country alone, without what a town would give.           *)
LEMMA SoloScoreBound ==
  ASSUME NEW c, c.final \in Int
  PROVE  /\ SoloCountry(c, NoTown).score <= 10 * (c.final + MinimalScore)
         /\ c.flags = {"GENERATED_BY_SUGGESTED_COUNTRY"} =>
              SoloCountry(c, NoTown).score = 10 * (c.final + MinimalScore)
<1> DEFINE a == Worth(c.flags, "TOWN_IS_PRESENT", 20)
           b == Worth(c.flags, "IS_VERY_CLOSE_TO_TOWN", 20)
           d == Worth(c.flags, "IS_ON_SAME_LINE_AS_TOWN", 10)
<1>1. /\ a \in Nat /\ b \in Nat /\ d \in Nat
      /\ c.flags = {"GENERATED_BY_SUGGESTED_COUNTRY"} => a = 0 /\ b = 0 /\ d = 0
      BY DEF Worth
<1>2. SoloCountry(c, NoTown).score = 10 * (c.final + MinimalScore) - 7 * (a + b + d)
      BY DEF SoloCountry, Combination
<1> HIDE DEF a, b, d
<1>3. QED
      BY <1>1, <1>2 DEF MinimalScore

(* An answer that names the suggested country alone, for the suggestion.   *)
LEMMA SuggestionAlone ==
  ASSUME PostInv, pc = "yielded", IsSuggested(sample)
  PROVE  \E m \in Entries(AboveThreshold(countries)) :
           /\ m.origin = sample.suggested /\ Offer(SoloCountry(m, NoTown))
           /\ SoloCountry(m, NoTown).score = 10 * (SuggestionScore + MinimalScore)
<1>1. PICK m \in Entries(countries) : /\ m.origin = sample.suggested /\ m.final = SuggestionScore
                                      /\ m.flags = {"GENERATED_BY_SUGGESTED_COUNTRY"}
      BY DEF PostInv, SuggestInv, Offers
<1>2. m \in Entries(AboveThreshold(countries))
      BY <1>1, ThresholdKept DEF PostInv, TypeInv, SuggestionScore, MinimalScore
<1>3. ~Skipped(m, sample.suggested, sample.force)
      BY <1>1 DEF Skipped
<1>4. Offer(SoloCountry(m, NoTown))
      BY <1>2, <1>3, OfferIs
<1>5. SoloCountry(m, NoTown).score = 10 * (SuggestionScore + MinimalScore)
  <2>1. m.final \in Int
        BY <1>1 DEF SuggestionScore
  <2>2. QED
        BY <1>1, <2>1, SoloScoreBound
<1>6. QED
      BY <1>1, <1>2, <1>4, <1>5

LEMMA NestedSpans ==
  ASSUME NEW a, NEW b, a.start \in Int, a.end \in Int, b.start \in Int, b.end \in Int,
         Span(a) # {}, Span(a) \subseteq Span(b), ~Inside(a, b)
  PROVE  a.start = b.start /\ a.end = b.end /\ Span(a) = Span(b)
<1>1. a.start <= a.end - 1
      BY DEF Span
<1>2. a.start \in Span(a) /\ a.end - 1 \in Span(a)
      BY <1>1 DEF Span
<1>3. a.start \in Span(b) /\ a.end - 1 \in Span(b)
      BY <1>2
<1>4. b.start <= a.start /\ a.end <= b.end
      BY <1>3 DEF Span
<1>5. a.start = b.start /\ a.end = b.end
      BY <1>4 DEF Inside
<1>6. QED
      BY <1>5 DEF Span

-----------------------------------------------------------------------------
(* Scores stay percentages on the grid through every stage of the runner,  *)
(* and a sample always has an answer (score_match, generate_combinations). *)
THEOREM MatchesAreScored == Spec => []TypeOK
<1>1. PostInv => TypeOK
  <2> SUFFICES ASSUME PostInv PROVE TypeOK
      OBVIOUS
  <2>1. IsList(countries) /\ IsList(towns) /\ IsList(codes)
        BY DEF PostInv, TypeInv
  <2>2. \A m \in Elements(countries) \cup Elements(towns) \cup Elements(codes) : IsMatch(m)
        BY <2>1, ListsOfMatches, EntriesMatch
  <2>3. \A m \in Elements(countries) \cup Elements(towns) \cup Elements(codes) :
          m.crf \in 0..100 /\ m.final \in {0} \cup DOMAIN Logit
        BY <2>2 DEF IsMatch
  <2>4. pc = "yielded" => answers # <<>>
        BY AnswersAreOffers
  <2>5. QED
        BY <2>3, <2>4 DEF TypeOK, PostInv, TypeInv
<1>2. QED
      BY <1>1, PostInvariant, PTL

(* A forced suggestion is the country of every answer, whatever matches    *)
(* the address has (the two filters of the suggestion).                    *)
THEOREM NoOtherCountryIsAnswered == Spec => []ForcedSuggestionIsTheOnlyCountry
<1>1. PostInv => ForcedSuggestionIsTheOnlyCountry
  <2> SUFFICES ASSUME PostInv, pc = "yielded", Forced(sample.suggested, sample.force),
                      NEW a \in Answers
               PROVE  a.country.origin = sample.suggested
      BY DEF ForcedSuggestionIsTheOnlyCountry
  <2>1. a \in Entries(answers) /\ (Offer(a) \/ (a = Default /\ ~\E y : Offer(y)))
        BY AnswersAreOffers
  <2>2. CASE Offer(a)
    <3>1. CASE \E c \in Entries(AboveThreshold(countries)), t \in Entries(AboveThreshold(towns)) :
                 Fitting(c, t, sample.suggested, sample.force) /\ a = Pair(c, t)
      <4>1. PICK c \in Entries(AboveThreshold(countries)), t \in Entries(AboveThreshold(towns)) :
              Fitting(c, t, sample.suggested, sample.force) /\ a = Pair(c, t)
            BY <3>1
      <4>2. a.country = c
            BY <4>1, PairParts
      <4>3. QED
            BY <4>1, <4>2 DEF Fitting, ShouldSkip
    <3>2. CASE \E c \in Entries(AboveThreshold(countries)) :
                 ~Skipped(c, sample.suggested, sample.force) /\ a = SoloCountry(c, NoTown)
      <4>1. PICK c \in Entries(AboveThreshold(countries)) :
              ~Skipped(c, sample.suggested, sample.force) /\ a = SoloCountry(c, NoTown)
            BY <3>2
      <4>2. a.country = c
            BY <4>1, CountryParts
      <4>3. QED
            BY <4>1, <4>2 DEF Skipped
    <3>3. CASE /\ ~(Forced(sample.suggested, sample.force) /\ sample.suggested # "NO COUNTRY")
               /\ \E t \in Entries(AboveThreshold(towns)) : a = SoloTown(t, NoCountry)
      <4>1. PICK t \in Entries(AboveThreshold(towns)) : a = SoloTown(t, NoCountry)
            BY <3>3
      <4>2. a.country = NoCountry
            BY <4>1, TownParts
      <4>3. sample.suggested = "NO COUNTRY"
            BY <3>3
      <4>4. QED
            BY <4>2, <4>3, PlaceholderParts
    <3>4. QED
          BY <2>2, <3>1, <3>2, <3>3, OfferIs
  <2>3. CASE a = Default /\ ~\E y : Offer(y)
    <3>1. ~IsSuggested(sample)
          BY <2>3, SuggestionAlone
    <3>2. sample.suggested = "NO COUNTRY"
          BY <3>1 DEF IsSuggested, Forced
    <3>3. QED
          BY <2>3, <3>2, PlaceholderParts
  <2>4. QED
        BY <2>1, <2>2, <2>3
<1>2. QED
      BY <1>1, PostInvariant, PTL

(* A suggested country is among the answers, with the suggestion's score   *)
(* at least: the match generated for it survives every filter, and only a  *)
(* better answer of the same country replaces it (append_suggestions).     *)
THEOREM TheSuggestionIsOffered == Spec => []SuggestedCountryIsOffered
<1>1. PostInv => SuggestedCountryIsOffered
  <2> SUFFICES ASSUME PostInv, pc = "yielded", IsSuggested(sample)
               PROVE  \E a \in Answers : /\ a.country.origin = sample.suggested
                                         /\ a.country.final >= SuggestionScore
      BY DEF SuggestedCountryIsOffered, IsSuggested
  <2>1. PICK m \in Entries(AboveThreshold(countries)) :
          /\ m.origin = sample.suggested /\ Offer(SoloCountry(m, NoTown))
          /\ SoloCountry(m, NoTown).score = 10 * (SuggestionScore + MinimalScore)
        BY SuggestionAlone
  <2> DEFINE x == SoloCountry(m, NoTown)
  <2>2. x.country.origin = sample.suggested /\ x.town.key = "NO TOWN" /\ x.score = 10 * (SuggestionScore + MinimalScore)
        BY <2>1, CountryParts, PlaceholderParts
  <2>3. Offer(x)
        BY <2>1
  <2> HIDE DEF x
  <2>4. PICK y \in Entries(answers) : Same(x, y) /\ y.score >= x.score
        BY <2>3, AnswersAreOffers
  <2>5. Offer(y)
        BY <2>3, AnswersAreOffers
  <2>6. y.country.origin = sample.suggested /\ Plain[y.town.key] = Plain["NO TOWN"]
        BY <2>2, <2>4 DEF Same
  <2>7. ~\E c \in Entries(AboveThreshold(countries)), t \in Entries(AboveThreshold(towns)) :
          Fitting(c, t, sample.suggested, sample.force) /\ y = Pair(c, t)
    <3>1. ASSUME NEW c, NEW t \in Entries(AboveThreshold(towns)), y = Pair(c, t) PROVE FALSE
      <4>1. t \in Entries(towns)
            BY ThresholdKept DEF PostInv, TypeInv
      <4>2. Plain[t.key] # Plain["NO TOWN"]
            BY <4>1 DEF PostInv, TownsInv, Named
      <4>3. y.town = t
            BY <3>1, PairParts
      <4>4. QED
            BY <2>6, <4>2, <4>3
    <3>2. QED
          BY <3>1
  <2>8. ~\E t \in Entries(AboveThreshold(towns)) : y = SoloTown(t, NoCountry)
    <3>1. ASSUME NEW t, y = SoloTown(t, NoCountry) PROVE FALSE
      <4>1. y.country = NoCountry
            BY <3>1, TownParts
      <4>2. sample.suggested = "NO COUNTRY"
            BY <2>6, <4>1, PlaceholderParts
      <4>3. QED
            BY <4>2 DEF IsSuggested
    <3>2. QED
          BY <3>1
  <2>9. PICK c \in Entries(AboveThreshold(countries)) : y = SoloCountry(c, NoTown)
        BY <2>5, <2>7, <2>8, OfferIs
  <2>10. c.final \in Int
    <3>1. c \in Entries(countries) /\ IsList(countries)
          BY ThresholdKept DEF PostInv, TypeInv
    <3>2. IsMatch(c)
          BY <3>1, EntriesMatch
    <3>3. QED
          BY <3>2, MatchNumbers
  <2>11. y.score <= 10 * (c.final + MinimalScore) /\ y.score >= 10 * (SuggestionScore + MinimalScore)
         BY <2>2, <2>4, <2>9, <2>10, SoloScoreBound
  <2>12. y.score \in Int
         BY <2>9, <2>10, SoloScores
  <2>13. c.final >= SuggestionScore
         BY <2>10, <2>11, <2>12 DEF SuggestionScore, MinimalScore
  <2>14. y \in Answers /\ y.country = c
         BY <2>9, AnswersAreOffers, CountryParts
  <2>15. QED
         BY <2>6, <2>13, <2>14
<1>2. QED
      BY <1>1, PostInvariant, PTL

(* The towns that a suggestion opens stay towns of the address (the        *)
(* extended data of RunnerFuzzyMatch.match, all filters and flags).        *)
THEOREM TheSuggestionOpensItsTowns == Spec => []SuggestionOpensItsTowns
<1>1. PostInv => SuggestionOpensItsTowns
  <2> SUFFICES ASSUME PostInv, pc = "yielded",
                      sample.suggested \in DOMAIN ExtendedAllPossibilitiesTown,
                      NEW e \in Elements(ExtendedAllPossibilitiesTown[sample.suggested]),
                      NearMatches(e.key, sample, Tolerance) # <<>>
               PROVE  \E t \in Elements(towns) : t.key = e.key /\ "IS_FROM_EXTENDED_DATA" \in t.flags
      BY DEF SuggestionOpensItsTowns
  <2>1. e \in Range(ExtendedAllPossibilitiesTown[sample.suggested])
        BY DEF Elements, Range
  <2>2. OpensTowns(towns, sample)
        BY DEF PostInv, TownsInv
  <2>3. QED
        BY <2>1, <2>2, ListsOfMatches DEF OpensTowns
<1>2. QED
      BY <1>1, PostInvariant, PTL

(* Every match above its threshold is part of an answer, unless a forced   *)
(* suggestion hides it (CombinationGenerator, filter and deduplication).   *)
THEOREM EveryMatchIsAnswered == Spec => []NoMatchIsLost
<1>1. PostInv => NoMatchIsLost
  <2> SUFFICES ASSUME PostInv, pc = "yielded", ~Forced(sample.suggested, sample.force)
               PROVE  /\ \A c \in Elements(countries) : c.final >= MinimalScore =>
                           \E a \in Answers : a.country.origin = c.origin
                      /\ \A t \in Elements(towns) : t.final >= MinimalScore =>
                           \E a \in Answers : Plain[a.town.key] = Plain[t.key]
      BY DEF NoMatchIsLost
  <2>1. IsList(countries) /\ IsList(towns)
        BY DEF PostInv, TypeInv
  <2>2. ASSUME NEW c \in Elements(countries), c.final >= MinimalScore
        PROVE  \E a \in Answers : a.country.origin = c.origin
    <3>1. c \in Entries(AboveThreshold(countries))
          BY <2>1, <2>2, ListsOfMatches, ThresholdKept
    <3>2. Offer(SoloCountry(c, NoTown))
          BY <3>1, OfferIs DEF Skipped
    <3>3. PICK y \in Answers : Same(SoloCountry(c, NoTown), y)
          BY <3>2, AnswersAreOffers
    <3>4. QED
          BY <3>3, CountryParts DEF Same
  <2>3. ASSUME NEW t \in Elements(towns), t.final >= MinimalScore
        PROVE  \E a \in Answers : Plain[a.town.key] = Plain[t.key]
    <3>1. t \in Entries(AboveThreshold(towns))
          BY <2>1, <2>3, ListsOfMatches, ThresholdKept
    <3>2. Offer(SoloTown(t, NoCountry))
          BY <3>1, OfferIs
    <3>3. PICK y \in Answers : Same(SoloTown(t, NoCountry), y)
          BY <3>2, AnswersAreOffers
    <3>4. SoloTown(t, NoCountry).town = t
          BY TownParts
    <3>5. QED
          BY <3>3, <3>4 DEF Same
  <2>4. QED
        BY <2>2, <2>3
<1>2. QED
      BY <1>1, PostInvariant, PTL

(* Of the combinations that read the same the best is presented, and the   *)
(* answers are sorted (sort and deduplicate of generate_combinations).     *)
THEOREM TheBestPairIsKept == Spec => []BestPairIsKept
<1>1. PostInv => BestPairIsKept
  <2> SUFFICES ASSUME PostInv, pc = "yielded" PROVE BestPairIsKept
      BY DEF BestPairIsKept
  <2>1. ASSUME NEW c \in Elements(AboveThreshold(countries)), NEW t \in Elements(AboveThreshold(towns)),
               c.origin = t.origin, ~ShouldSkip(t, c, sample.suggested, sample.force)
        PROVE  \E a \in Answers : /\ a.country.origin = c.origin /\ Plain[a.town.key] = Plain[t.key]
                                  /\ a.score >= 10 * (c.final + t.final)
    <3>1. c \in Entries(AboveThreshold(countries)) /\ t \in Entries(AboveThreshold(towns))
          BY ListsOfMatches
    <3>2. Offer(Pair(c, t))
          BY <2>1, <3>1, OfferIs DEF Fitting
    <3>3. PICK y \in Answers : Same(Pair(c, t), y) /\ y.score >= Pair(c, t).score
          BY <3>2, AnswersAreOffers
    <3>4. Pair(c, t).country = c /\ Pair(c, t).town = t /\ Pair(c, t).score = 10 * (c.final + t.final)
          BY PairParts, PairScore
    <3>5. y.country.origin = c.origin /\ Plain[y.town.key] = Plain[t.key]
          BY <3>3, <3>4 DEF Same
    <3>6. QED
          BY <3>3, <3>4, <3>5
  <2>2. ASSUME NEW i \in DOMAIN answers, NEW j \in DOMAIN answers, i < j
        PROVE  /\ answers[i].score >= answers[j].score
               /\ answers[i].country.origin = answers[j].country.origin =>
                    Plain[answers[i].town.key] # Plain[answers[j].town.key]
    <3>1. i \in 1..Len(answers) /\ j \in 1..Len(answers)
          BY AnswersAreOffers, AnySeq
    <3>2. answers[i].score >= answers[j].score /\ ~Same(answers[i], answers[j])
          BY <2>2, <3>1, AnswersAreOffers
    <3>3. QED
          BY <3>2 DEF Same
  <2>3. QED
        BY <2>1, <2>2 DEF BestPairIsKept
<1>2. QED
      BY <1>1, PostInvariant, PTL

(* The country and the town that the servicer pairs by their position are  *)
(* of one combination, and nothing better is left out of the reply.        *)
THEOREM ThePairsOfTheReplyFit == Spec => []RepliedPairsFit
<1>1. PostInv => RepliedPairsFit
  <2> SUFFICES ASSUME PostInv, pc = "replied" PROVE RepliedPairsFit
      BY DEF RepliedPairsFit
  <2> DEFINE n == IF Len(answers) < NumResults THEN Len(answers) ELSE NumResults
  <2>1. IsSeq(answers) /\ Len(answers) \in Nat
        BY AnswersAreOffers, AnySeq
  <2>2. n \in Nat /\ n <= Len(answers) /\ (n < Len(answers) => n = NumResults)
        BY <2>1, NumResultsAssumption
  <2>3. reply = [i \in 1..n |-> PairedMatch(answers[i].country, answers[i].town)]
        BY DEF PostInv, ReplyInv, PairMatches
  <2> HIDE DEF n
  <2>4. IsSeq(reply) /\ Len(reply) = n /\ DOMAIN reply = 1..n
        BY <2>2, <2>3, GivenByEntries
  <2>5. \A i \in 1..n : reply[i] = PairedMatch(answers[i].country, answers[i].town)
        BY <2>3
  <2>6. \A i \in 1..n : i \in 1..Len(answers)
        BY <2>1, <2>2
  <2>7. Elements(reply) = {reply[i] : i \in 1..n}
        BY <2>4 DEF Elements
  <2>8. ASSUME NEW p \in Elements(reply)
        PROVE  /\ p.country # "NO COUNTRY" /\ p.town # "NO TOWN" => p.inferred = p.country
               /\ p.places[1] # {} /\ p.places[2] # {}
                    /\ (p.places[1] \subseteq p.places[2] \/ p.places[2] \subseteq p.places[1]) =>
                    /\ p.places[1] = p.places[2]
                    /\ p.town \in DOMAIN SameName /\ SameName[p.town] = p.country
    <3>1. PICK i \in 1..n : p = PairedMatch(answers[i].country, answers[i].town)
          BY <2>5, <2>7
    <3> DEFINE x == answers[i]  c == x.country  t == x.town
    <3>2. /\ p.country = c.origin /\ p.town = t.key /\ p.inferred = t.origin
          /\ p.places[1] = Span(c) /\ p.places[2] = Span(t)
          BY <3>1 DEF PairedMatch
    <3>3. Offer(x) \/ x = Default
      <4>1. x \in Entries(answers)
            BY <2>6 DEF Entries
      <4>2. QED
            BY <4>1, AnswersAreOffers
    <3> HIDE DEF x
    <3>4. CASE \E d \in Entries(AboveThreshold(countries)), u \in Entries(AboveThreshold(towns)) :
                 Fitting(d, u, sample.suggested, sample.force) /\ x = Pair(d, u)
      <4>1. PICK d \in Entries(AboveThreshold(countries)), u \in Entries(AboveThreshold(towns)) :
              Fitting(d, u, sample.suggested, sample.force) /\ x = Pair(d, u)
            BY <3>4
      <4>2. c = d /\ t = u
            BY <4>1, PairParts
      <4>3. c \in Entries(AboveThreshold(countries)) /\ t \in Entries(AboveThreshold(towns))
            BY <4>1, <4>2
      <4>4. c.origin = t.origin /\ ~SamePlace(t, c) /\ ~Inside(t, c) /\ ~Inside(c, t)
            BY <4>1, <4>2 DEF Fitting, ShouldSkip
      <4>5. IsMatch(c) /\ IsMatch(t)
        <5>1. IsList(countries) /\ IsList(towns)
              BY DEF PostInv, TypeInv
        <5>2. c \in Entries(countries) /\ t \in Entries(towns)
              BY <4>3, <5>1, ThresholdKept
        <5>3. QED
              BY <5>1, <5>2, EntriesMatch
      <4>6. c.start \in Int /\ c.end \in Int /\ t.start \in Int /\ t.end \in Int
            BY <4>5, MatchNumbers
      <4> HIDE DEF c, t
      <4>7. ASSUME Span(c) # {}, Span(t) # {}, Span(c) \subseteq Span(t) \/ Span(t) \subseteq Span(c)
            PROVE  c.start = t.start /\ c.end = t.end /\ Span(c) = Span(t)
        <5>1. CASE Span(c) \subseteq Span(t)
              BY <4>4, <4>6, <4>7, <5>1, NestedSpans
        <5>2. CASE Span(t) \subseteq Span(c)
              BY <4>4, <4>6, <4>7, <5>2, NestedSpans
        <5>3. QED
              BY <4>7, <5>1, <5>2
      <4>8. t.start = c.start /\ t.end = c.end => t.key \in DOMAIN SameName /\ SameName[t.key] = c.origin
            BY <4>4 DEF SamePlace
      <4>9. QED
            BY <3>2, <4>4, <4>7, <4>8
    <3>5. CASE c = NoCountry \/ t = NoTown
      <4>1. CASE c = NoCountry
        <5>1. c.origin = "NO COUNTRY" /\ Span(c) = {}
              BY <4>1, PlaceholderParts, NothingAt
        <5>2. QED
              BY <3>2, <5>1
      <4>2. CASE t = NoTown
        <5>1. t.key = "NO TOWN" /\ Span(t) = {}
              BY <4>2, PlaceholderParts, NothingAt
        <5>2. QED
              BY <3>2, <5>1
      <4>3. QED
            BY <3>5, <4>1, <4>2
    <3>6. \/ \E d \in Entries(AboveThreshold(countries)), u \in Entries(AboveThreshold(towns)) :
               Fitting(d, u, sample.suggested, sample.force) /\ x = Pair(d, u)
          \/ c = NoCountry \/ t = NoTown
      <4>1. CASE x = Default
            BY <4>1, PlaceholderParts
      <4>2. CASE \E d \in Entries(AboveThreshold(countries)) : x = SoloCountry(d, NoTown)
            BY <4>2, CountryParts
      <4>3. CASE \E u \in Entries(AboveThreshold(towns)) : x = SoloTown(u, NoCountry)
            BY <4>3, TownParts
      <4>4. CASE \E d \in Entries(AboveThreshold(countries)), u \in Entries(AboveThreshold(towns)) :
                   Fitting(d, u, sample.suggested, sample.force) /\ x = Pair(d, u)
            BY <4>4
      <4>5. QED
            BY <3>3, <4>1, <4>2, <4>3, <4>4, OfferIs
    <3>7. QED
          BY <3>4, <3>5, <3>6
  <2>9. ASSUME NEW a \in Answers
        PROVE  \/ PairedMatch(a.country, a.town) \in Elements(reply)
               \/ /\ Len(reply) = NumResults
                  /\ \A p \in Elements(reply) : \E b \in Answers :
                       PairedMatch(b.country, b.town) = p /\ a.score <= b.score
    <3>1. Answers = Entries(answers)
          BY AnswersAreOffers
    <3>2. PICK k \in 1..Len(answers) : a = answers[k]
          BY <3>1 DEF Entries
    <3>3. CASE k <= n
      <4>1. k \in 1..n
            BY <2>1, <2>2, <3>3
      <4>2. QED
            BY <2>5, <2>7, <3>2, <4>1
    <3>4. CASE k > n
      <4>1. n = NumResults
            BY <2>1, <2>2, <3>4
      <4>2. ASSUME NEW i \in 1..n
            PROVE  /\ reply[i] = PairedMatch(answers[i].country, answers[i].town)
                   /\ answers[i] \in Answers /\ a.score <= answers[i].score
        <5>1. i \in 1..Len(answers) /\ i < k
              BY <2>1, <2>2, <2>6, <3>4
        <5>2. answers[i].score >= answers[k].score
              BY <5>1, AnswersAreOffers
        <5>3. answers[i] \in Answers
              BY <3>1, <5>1 DEF Entries
        <5>4. QED
              BY <2>5, <3>2, <5>2, <5>3
      <4>3. QED
            BY <2>4, <2>7, <4>1, <4>2
    <3>5. QED
          BY <2>1, <2>2, <3>3, <3>4
  <2>10. QED
         BY <2>8, <2>9 DEF RepliedPairsFit
<1>2. QED
      BY <1>1, PostInvariant, PTL

(* A town lifted by its country lifts it in turn, and the other way round  *)
(* (add_relationship_flags of the two flag managers).                      *)
THEOREM SupportGoesBothWays == Spec => []SupportIsMutual
<1>1. PostInv => SupportIsMutual
      BY ListsOfMatches DEF PostInv, RelationInv, Mutual, SupportIsMutual
<1>2. QED
      BY <1>1, PostInvariant, PTL

(* A country inside another one of higher rank is in no answer: it is      *)
(* flagged when the matches are sorted, and no bonuses outweigh the malus  *)
(* (filter_fuzzy_results, flag_matches_included_in_another and the match   *)
(* scorer).                                                                *)
THEOREM ANestedCountryIsNoAnswer == Spec => []NestedCountryIsNoAnswer
<1>1. ASSUME PostInv, pc = "yielded", NEW a \in Answers, NEW d \in Elements(countries),
             ~Generated(a.country), Larger(d, a.country), a.country.key # "NO COUNTRY",
             Higher(d, a.country)
      PROVE  FALSE
  <2>1. a \in Entries(answers) /\ (Offer(a) \/ a = Default)
        BY <1>1, AnswersAreOffers
  <2>2. NoCountry.key = "NO COUNTRY"
        BY DEF NoCountry, Match
  <2>3. a.country \in Entries(AboveThreshold(countries))
    <3>1. a # Default
          BY <1>1, <2>2, PlaceholderParts
    <3>2. \/ \E c \in Entries(AboveThreshold(countries)), t \in Entries(AboveThreshold(towns)) : a = Pair(c, t)
          \/ \E c \in Entries(AboveThreshold(countries)) : a = SoloCountry(c, NoTown)
          \/ \E t \in Entries(AboveThreshold(towns)) : a = SoloTown(t, NoCountry)
          BY <1>1, <2>1, <3>1, OfferIs
    <3>3. \A t : a # SoloTown(t, NoCountry)
          BY <1>1, <2>2, TownParts
    <3>4. QED
          BY <3>2, <3>3, PairParts, CountryParts
  <2>4. a.country \in Entries(countries) /\ a.country.final >= MinimalScore /\ a.country.final \in Int
    <3>1. IsList(countries)
          BY <1>1 DEF PostInv, TypeInv
    <3>2. a.country \in Entries(countries) /\ a.country.final >= MinimalScore
          BY <2>3, <3>1, ThresholdKept
    <3>3. IsMatch(a.country)
          BY <3>1, <3>2, EntriesMatch
    <3>4. QED
          BY <3>2, <3>3, MatchNumbers
  <2>5. d \in Entries(countries)
        BY <1>1, ListsOfMatches
  <2>6. a.country.final < MinimalScore
        BY <1>1, <2>4, <2>5 DEF PostInv, NestedInv, Drowned
  <2>7. QED
        BY <2>4, <2>6 DEF MinimalScore
<1>2. PostInv => NestedCountryIsNoAnswer
      BY <1>1 DEF NestedCountryIsNoAnswer, Higher
<1>3. QED
      BY <1>2, PostInvariant, PTL
=============================================================================
