---------------------------- MODULE Combinations ----------------------------
(***************************************************************************)
(* CombinationGenerator: pairs of a country and a town match, best first.  *)
(* Final scores are percentages; a combination's score is twice its mean   *)
(* score in tenths of a percent, so that every quotient is a whole number. *)
(***************************************************************************)
EXTENDS Integers, Sequences, FiniteSets, SequencesExt, Lists, Scores

CONSTANTS
  SameName,   (* country_town_same_name: the country a town's name is of.   *)
  Plain       (* A town's name with hyphens replaced by blanks.             *)

MinimalScore == 15
SuggestionScore == 95

Forced(suggested, force) == force /\ suggested # "NONE"

Combination(c, t, score) == [country |-> c, town |-> t, score |-> score]

(* The indices of two lists in the order of two nested loops.              *)
Nested(outer, inner) ==
  FlattenSeq([o \in DOMAIN outer |-> [i \in DOMAIN inner |-> <<o, i>>]])

Inside(a, b) == \/ a.start > b.start /\ a.end <= b.end
                \/ a.start >= b.start /\ a.end < b.end

(* The same characters, and not a name that town and country share.        *)
SamePlace(t, c) == /\ t.start = c.start /\ t.end = c.end
                   /\ ~(t.key \in DOMAIN SameName /\ SameName[t.key] = c.origin)

\* Mutant: a pair of which one is part of the other is kept.
SkipSamePlaceOnly(t, c, suggested, force) ==
  (Forced(suggested, force) /\ c.origin # suggested) \/ SamePlace(t, c)

ShouldSkip(t, c, suggested, force) ==
  \/ Forced(suggested, force) /\ c.origin # suggested
  \/ SamePlace(t, c) \/ Inside(t, c) \/ Inside(c, t)

MatchedPairs(countries, towns, suggested, force) ==
  LET Fits(p) == /\ countries[p[2]].origin = towns[p[1]].origin
                 /\ ~ShouldSkip(towns[p[1]], countries[p[2]], suggested, force)
      nested == Nested(towns, countries)
      pairs == Kept(nested, {n \in DOMAIN nested : Fits(nested[n])})
  IN [k \in DOMAIN pairs |-> LET t == towns[pairs[k][1]]  c == countries[pairs[k][2]] IN
        Combination(c, t, 10 * (c.final + t.final))]

\* Mutant: a forced suggestion restricts the pairs only.
SoloOfAnyCountry(countries, noTown, suggested, force) ==
  [k \in DOMAIN countries |->
     Combination(countries[k], noTown, 10 * (countries[k].final + MinimalScore))]

Worth(flags, flag, points) == IF flag \in flags THEN points ELSE 0

(* no_town_found_mul takes 70 % of what the flags about a town have given. *)
SoloCountry(c, noTown) ==
  Combination(c, noTown, 10 * (c.final + MinimalScore)
                           - 7 * (Worth(c.flags, "TOWN_IS_PRESENT", 20)
                                  + Worth(c.flags, "IS_VERY_CLOSE_TO_TOWN", 20)
                                  + Worth(c.flags, "IS_ON_SAME_LINE_AS_TOWN", 10)))

SoloCountries(countries, noTown, suggested, force) ==
  LET skipped == {k \in DOMAIN countries : Forced(suggested, force) /\ countries[k].origin # suggested}
      solo == Kept(countries, DOMAIN countries \ skipped)
  IN [k \in DOMAIN solo |-> SoloCountry(solo[k], noTown)]

(* no_country_found_mul takes 10 %.                                        *)
SoloTown(t, noCountry) ==
  Combination(noCountry, t, 10 * (MinimalScore + t.final)
                              - (Worth(t.flags, "COUNTRY_IS_PRESENT", 15)
                                 + Worth(t.flags, "SUGGESTED_COUNTRY_IS_PRESENT", 65)
                                 + Worth(t.flags, "IS_VERY_CLOSE_TO_COUNTRY", 30)
                                 + Worth(t.flags, "IS_ON_SAME_LINE_AS_COUNTRY", 15)))

SoloTowns(towns, noCountry, suggested, force) ==
  IF Forced(suggested, force) /\ suggested # "NO COUNTRY" THEN <<>>
  ELSE [k \in DOMAIN towns |-> SoloTown(towns[k], noCountry)]

(* Combinations that the caller cannot tell apart.                         *)
Same(a, b) == a.country.origin = b.country.origin /\ Plain[a.town.key] = Plain[b.town.key]

(* The first combination of a country and a town name stays.               *)
Deduplicate(combinations) ==
  Kept(combinations, {i \in DOMAIN combinations :
                        \A j \in 1..i - 1 : ~Same(combinations[i], combinations[j])})

(* Best first; the sort is stable.                                         *)
ByScore(combinations) ==
  LET Before(i) == {j \in DOMAIN combinations :
                      \/ combinations[j].score > combinations[i].score
                      \/ combinations[j].score = combinations[i].score /\ j < i}
      order == Arranged([i \in DOMAIN combinations |-> Before(i)])
  IN [k \in DOMAIN order |-> combinations[order[k]]]

\* Mutant: duplicates are removed before the sort.
DeduplicateFirst(combinations) == Deduplicate(ByScore(Deduplicate(combinations)))

Presented(combinations) == Deduplicate(ByScore(combinations))

GenerateCombinations(countries, towns, noCountry, noTown, suggested, force) ==
  LET found == MatchedPairs(countries, towns, suggested, force)
                 \o SoloCountries(countries, noTown, suggested, force)
                 \o SoloTowns(towns, noCountry, suggested, force)
  IN Presented(IF found # <<>> THEN found
               ELSE <<Combination(noCountry, noTown, 20 * MinimalScore)>>)
=============================================================================
