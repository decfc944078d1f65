-------------------------------- MODULE Scores --------------------------------
(***************************************************************************)
(* The final score of a country or town match: its CRF score, moved in     *)
(* log-odds by the weights of its flags.                                   *)
(*                                                                         *)
(* Scores are percentages, weights hundredths, log-odds millionths.  The   *)
(* logistic function and its inverse are read off a table; both round down *)
(* to the grid of the table, which holds the thresholds of the             *)
(* configuration.  So the CRF score is rounded before it is weighted.      *)
(***************************************************************************)
EXTENDS Integers, FiniteSets, FiniteSetsExt

Logit == LET odds == <<10, 15, 20, 25, 33, 40, 50, 60, 66, 75, 80, 85, 90, 95, 99>>
             log == <<-2197225, -1734601, -1386294, -1098612, -708185, -405465, 0, 405465,
                      663294, 1098612, 1386294, 1734601, 2197225, 2944439, 4595120>>
         IN [p \in {odds[i] : i \in 1..15} |-> log[CHOOSE i \in 1..15 : odds[i] = p]]

(* crf_score is clipped to what the CRF may contribute.                    *)
Amortized(crf) ==
  LET clipped == IF crf < 10 THEN 10 ELSE IF crf > 90 THEN 90 ELSE crf
  IN Logit[Max({p \in DOMAIN Logit : p <= clipped})]

Logistic(x) == Max({0} \cup {p \in DOMAIN Logit : Logit[p] <= x})

(* A high CRF score weakens bonuses and strengthens maluses.               *)
Combined(crf, bonus, malus) ==
  Logistic(Amortized(crf) + (40000 - 150 * crf) * bonus + (25000 + 150 * crf) * malus)

Sum(weight, flags) == MapThenSumSet(LAMBDA f : weight[f], flags \cap DOMAIN weight)

When(condition, weight) == IF condition THEN weight ELSE 0

ThirdBonus == 1

TownBonus == [
  IS_IN_LAST_THIRD |-> ThirdBonus, COULD_BE_REASONABLE_MISTAKE |-> 25,
  COUNTRY_IS_PRESENT |-> 15, SUGGESTED_COUNTRY_IS_PRESENT |-> 65,
  MLP_COUNTRY_IS_PRESENT |-> 5, IS_VERY_CLOSE_TO_COUNTRY |-> 30,
  IS_ON_SAME_LINE_AS_COUNTRY |-> 15, POSTCODE_FOR_TOWN_FOUND |-> 40,
  IS_METROPOLIS |-> 10, IS_ALONE_ON_LINE |-> 20]

TownMalus == [
  IS_INSIDE_ANOTHER_WORD |-> -65, IS_IN_FIRST_THIRD |-> -1, IS_SHORT |-> -25,
  IS_INSIDE_ANOTHER_LOWER_RANKED_MATCH |-> -30, IS_SMALL_TOWN |-> -20,
  IS_FROM_EXTENDED_DATA |-> -15, IS_NOT_LARGEST_TOWN_WITH_NAME |-> -10,
  IS_INSIDE_STREET |-> -20, IS_INSIDE_ANOTHER_HIGHER_RANKED_MATCH |-> -200]

CountryBonus == [
  IS_IN_LAST_THIRD |-> ThirdBonus, COULD_BE_REASONABLE_MISTAKE |-> 10, TOWN_IS_PRESENT |-> 20,
  IS_VERY_CLOSE_TO_TOWN |-> 20, IS_ON_SAME_LINE_AS_TOWN |-> 10,
  POSTAL_CODE_IS_PRESENT |-> 10, IBAN_IS_PRESENT |-> 10, PHONE_PREFIX_IS_PRESENT |-> 10,
  DOMAIN_IS_PRESENT |-> 10, MLP_STRONGLY_AGREES |-> 20, MLP_AGREES |-> 15,
  MLP_DOESNT_DISAGREE |-> 5]

CountryMalus == [
  IS_INSIDE_ANOTHER_WORD |-> -60, IS_IN_FIRST_THIRD |-> -1, IS_SHORT |-> -5,
  IS_INSIDE_ANOTHER_LOWER_RANKED_MATCH |-> -30, IS_INSIDE_STREET |-> -20,
  IS_COMMON_STATE_PROVINCE_ALIAS |-> -10, IS_UNCOMMON_STATE_PROVINCE_ALIAS |-> -15,
  IS_INSIDE_ANOTHER_HIGHER_RANKED_MATCH |-> -200]

(* The maluses that towns and countries have for the same circumstances.   *)
TypoMalus(typo, dist, flags) ==
  When("IS_SEPARATOR_TYPO" \notin flags, typo * dist)
  + When("IS_SHORT" \in flags /\ dist > 0, -200)
  + When({"IS_SHORT", "IS_INSIDE_ANOTHER_WORD"} \subseteq flags, -200)

(* country_is_present_malus is positive in the configuration.              *)
TownScore(crf, dist, flags) ==
  Combined(crf, Sum(TownBonus, flags),
    Sum(TownMalus, flags) + TypoMalus(-85, dist, flags)
    + When("COUNTRY_IS_PRESENT" \notin flags, 10)
    + When("IS_SMALL_TOWN" \in flags /\ "COUNTRY_IS_PRESENT" \notin flags, -30))

(* A generated suggestion keeps its base score.                            *)
CountryScore(crf, dist, flags) ==
  IF "GENERATED_BY_SUGGESTED_COUNTRY" \in flags THEN crf
  ELSE Combined(crf, Sum(CountryBonus, flags),
         Sum(CountryMalus, flags) + TypoMalus(-50, dist, flags))
=============================================================================
