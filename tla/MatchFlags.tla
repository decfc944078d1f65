------------------------------ MODULE MatchFlags ------------------------------
(***************************************************************************)
(* The flags that post-processing gives to the matches of one address.     *)
(*                                                                         *)
(* A match is a record with the fields of FuzzyMatch; "key" stands for its *)
(* possibility, "code" says that it has at most two characters, "sep" that *)
(* it differs from the matched text in separators only.  What is read off  *)
(* the characters of the address is data of the sample: the positions the  *)
(* CRF tags as country, town and street, its predictions, line breaks and  *)
(* blanks, and which patterns (IBAN, phone prefix, ...) of a country       *)
(* occur.  A prediction is the set of the places whose text occurs in it.  *)
(***************************************************************************)
EXTENDS Integers, Sequences, FiniteSets, SequencesExt, Lists

CONSTANTS
  Population,       (* towns_and_populations, for the towns it knows.       *)
  LargestCountry,   (* largest_country_code_for_town.                       *)
  Provinces,        (* Country codes by the country whose provinces use     *)
                    (* them as abbreviations.                               *)
  CommonProvinces,  (* countries_with_common_provinces.                     *)
  PostcodeAliases   (* generate_duplicate_aliases of a town.                *)

Span(m) == m.start..m.end - 1
AddFlags(m, flags) == [m EXCEPT !.flags = @ \cup flags]
FlagEach(matches, flags(_)) == [i \in DOMAIN matches |-> AddFlags(matches[i], flags(matches[i]))]
FlagIf(condition, flag) == IF condition THEN {flag} ELSE {}

\* Mutant: the sum over the characters instead of the mean.
ScoredBySum(matches, tagged) ==
  [i \in DOMAIN matches |->
     [matches[i] EXCEPT !.crf = 100 * Cardinality(Span(matches[i]) \cap tagged)]]

(* score_matches_with_emissions: the mean over the characters of a match.  *)
Scored(matches, tagged) ==
  [i \in DOMAIN matches |->
     [matches[i] EXCEPT !.crf = (100 * Cardinality(Span(matches[i]) \cap tagged))
                                  \div Cardinality(Span(matches[i]))]]

-----------------------------------------------------------------------------
SeparatorTypo(m) == FlagIf(m.dist > 0 /\ m.sep, "IS_SEPARATOR_TYPO")

InsideStreet(m, sample) ==
  FlagIf(2 * Cardinality(Span(m) \cap sample.street) >= Cardinality(Span(m))
           /\ Span(m) \cap sample.street # {}, "IS_INSIDE_STREET")

PopulationFlags(m) ==
  IF m.key \notin DOMAIN Population THEN {}
  ELSE FlagIf(Population[m.key] >= 1000000, "IS_METROPOLIS")
       \cup FlagIf(Population[m.key] <= 12000, "IS_SMALL_TOWN")
       \cup FlagIf(m.origin # LargestCountry[m.key], "IS_NOT_LARGEST_TOWN_WITH_NAME")

TownFlags(towns, sample) ==
  FlagEach(towns, LAMBDA m : SeparatorTypo(m) \cup PopulationFlags(m) \cup InsideStreet(m, sample))

ProvinceFlags(m) ==
  IF ~(m.code /\ m.origin \in DOMAIN Provinces) THEN {}
  ELSE FlagIf(m.key \in Provinces[m.origin],
              IF m.origin \in CommonProvinces THEN "IS_COMMON_STATE_PROVINCE_ALIAS"
              ELSE "IS_UNCOMMON_STATE_PROVINCE_ALIAS")

(* The country head's prediction and its confidence in percent.            *)
HeadFlags(m, sample) ==
  IF m.origin # sample.head THEN {}
  ELSE IF sample.confidence >= 99 THEN {"MLP_STRONGLY_AGREES"}
  ELSE IF sample.confidence >= 90 THEN {"MLP_AGREES"}
  ELSE FlagIf(sample.confidence >= 50, "MLP_DOESNT_DISAGREE")

(* IBANs, phone prefixes, domains and postal codes of the match's country. *)
Evidence(m, sample) == {e[2] : e \in {p \in sample.evidence : p[1] = m.origin}}

CountryFlags(countries, sample) ==
  FlagEach(countries, LAMBDA m : SeparatorTypo(m) \cup InsideStreet(m, sample) \cup ProvinceFlags(m)
                                   \cup HeadFlags(m, sample) \cup Evidence(m, sample))

-----------------------------------------------------------------------------
Larger(other, m) == \/ other.start < m.start /\ other.end >= m.end
                    \/ other.end > m.end /\ other.start <= m.start

(* flag_matches_included_in_another compares places in its two arguments.  *)
WithInclusion(queries, larger) ==
  LET Around(i) == {j \in DOMAIN larger : Larger(larger[j], queries[i])} IN
  [i \in DOMAIN queries |-> AddFlags(queries[i],
     FlagIf(\E j \in Around(i) : i <= j /\ larger[j].dist < 1,
            "IS_INSIDE_ANOTHER_LOWER_RANKED_MATCH")
     \cup FlagIf(\E j \in Around(i) : i > j, "IS_INSIDE_ANOTHER_HIGHER_RANKED_MATCH"))]

(* Closest first, then by CRF score; the sort is stable.                   *)
Ranked(matches) ==
  LET Before(i) == LET b == matches[i] IN {j \in DOMAIN matches : LET a == matches[j] IN
                     \/ a.dist < b.dist
                     \/ a.dist = b.dist /\ (a.crf > b.crf \/ (a.crf = b.crf /\ j < i))}
      order == Arranged([i \in DOMAIN matches |-> Before(i)])
  IN [k \in DOMAIN order |-> matches[order[k]]]

PositionFlags(m, sample) ==
  FlagIf(m.end - m.start <= 2, "IS_SHORT")
  \cup FlagIf(3 * m.start <= sample.length, "IS_IN_FIRST_THIRD")
  \cup FlagIf(3 * m.start >= 2 * sample.length, "IS_IN_LAST_THIRD")

\* Mutant: the inclusions are flagged before the sort.
FilterBeforeSort(matches, sample) ==
  FlagEach(Ranked(WithInclusion(matches, matches)), LAMBDA m : PositionFlags(m, sample))

(* filter_fuzzy_results.  The list is written as a concatenation for TLC,  *)
(* which else flags a match anew whenever the sort looks at it.            *)
FilterFuzzyResults(matches, sample) ==
  LET ranked == Ranked(matches \o <<>>) IN
  FlagEach(WithInclusion(ranked, ranked), LAMBDA m : PositionFlags(m, sample))

(* Codes first, flagged against the whole list.                            *)
FlagCodes(countries) ==
  LET codes == {i \in DOMAIN countries : countries[i].code}
  IN WithInclusion(Kept(countries, codes), countries) \o Kept(countries, DOMAIN countries \ codes)

-----------------------------------------------------------------------------
(* _check_pair_validity: the returns before anything is flagged.           *)
PairIsValid(t, c) ==
  /\ c.dist = 0 /\ t.dist = 0 /\ "IS_INSIDE_ANOTHER_WORD" \notin t.flags
  /\ ~({"IS_SHORT", "IS_INSIDE_ANOTHER_WORD"} \subseteq c.flags)
  /\ c.origin = t.origin

Generated(c) == "GENERATED_BY_SUGGESTED_COUNTRY" \in c.flags
IsSuggestion(c) == Generated(c) \/ "IS_SUGGESTED_COUNTRY" \in c.flags
IsProvince(c) == c.flags \cap {"IS_COMMON_STATE_PROVINCE_ALIAS",
                               "IS_UNCOMMON_STATE_PROVINCE_ALIAS"} # {}

Between(t, c) == IF t.start <= c.start THEN t.end..c.start - 1 ELSE c.end..t.start - 1
IsClose(t, c) == ~IsProvince(c) /\ ~Generated(c) /\ Cardinality(Between(t, c)) <= 15
OnSameLine(t, c, sample) == /\ ~IsProvince(c) /\ ~Generated(c)
                            /\ Between(t, c) \cap sample.newlines = {}

(* The head counts once its confidence, in percent, reaches 0.99.          *)
CountryHead(sample) == IF sample.confidence >= 1 THEN sample.head ELSE "NONE"

TownRelations(towns, countries, sample) ==
  LET Partners(t) == {c \in {countries[i] : i \in DOMAIN countries} : PairIsValid(t, c)} IN
  FlagEach(towns, LAMBDA t :
    FlagIf(Partners(t) # {}, "COUNTRY_IS_PRESENT")
    \cup FlagIf(\E c \in Partners(t) : IsSuggestion(c), "SUGGESTED_COUNTRY_IS_PRESENT")
    \cup FlagIf(\E c \in Partners(t) : IsClose(t, c), "IS_VERY_CLOSE_TO_COUNTRY")
    \cup FlagIf(\E c \in Partners(t) : OnSameLine(t, c, sample), "IS_ON_SAME_LINE_AS_COUNTRY")
    \cup FlagIf(CountryHead(sample) = t.origin, "MLP_COUNTRY_IS_PRESENT"))

\* Mutant: towns of the extended data speak for their country.
RelationsOfAnyTown(countries, towns, sample) ==
  LET Partners(c) == {t \in {towns[i] : i \in DOMAIN towns} : PairIsValid(t, c)} IN
  FlagEach(countries, LAMBDA c : FlagIf(Partners(c) # {}, "TOWN_IS_PRESENT"))

(* Towns of the extended data do not speak for their country.              *)
CountryRelations(countries, towns, sample) ==
  LET Partners(c) == {t \in {towns[i] : i \in DOMAIN towns} :
                        PairIsValid(t, c) /\ "IS_FROM_EXTENDED_DATA" \notin t.flags} IN
  FlagEach(countries, LAMBDA c :
    FlagIf(Partners(c) # {}, "TOWN_IS_PRESENT")
    \cup FlagIf(\E t \in Partners(c) : IsClose(t, c), "IS_VERY_CLOSE_TO_TOWN")
    \cup FlagIf(\E t \in Partners(c) : OnSameLine(t, c, sample), "IS_ON_SAME_LINE_AS_TOWN"))

(* check_reasonable_mistakes: the matched text occurs in one prediction of *)
(* the other tag; that of a generated match is empty and occurs in any.    *)
ReasonableMistakes(matches, predictions) ==
  FlagEach(matches, LAMBDA m :
    FlagIf(\E p \in predictions : m.start = m.end \/ <<m.start, m.end>> \in p,
           "COULD_BE_REASONABLE_MISTAKE"))

AloneOnLine(towns, sample) ==
  LET Line(m) == {p \in 0..sample.length - 1 \ Span(m) :
                    \A q \in sample.newlines : (q < m.start => p > q) /\ (q >= m.end => p < q)}
  IN FlagEach(towns, LAMBDA m : FlagIf(Line(m) \subseteq sample.blanks, "IS_ALONE_ON_LINE"))

(* The towns found by postcode, with the aliases of their names.           *)
PostcodeFlags(towns, sample) ==
  FlagEach(towns, LAMBDA m :
    FlagIf(\E p \in sample.postcodes : p.origin = m.origin /\ m.key \in PostcodeAliases[p.key],
           "POSTCODE_FOR_TOWN_FOUND"))
=============================================================================
