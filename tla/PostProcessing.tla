---------------------------- MODULE PostProcessing ----------------------------
(***************************************************************************)
(* RunnerPostProcessing.run: a generator that takes the CRF result, the    *)
(* fuzzy matches and the postcode matches of one address after the other,  *)
(* and yields the combinations of a country and a town, best first.  Its   *)
(* CombinationGenerator lives as long as the runner and is told the        *)
(* suggestion of each sample.  In the end the servicer makes the reply to  *)
(* the caller of the best answers.                                         *)
(***************************************************************************)
EXTENDS FuzzyScan, MatchFlags, Combinations

CONSTANTS
  Samples,     (* What the earlier stages may hand over for an address.     *)
  NumResults   (* num_results: how many pairs a reply has at most.          *)

ASSUME NumResultsAssumption == NumResults \in Nat

(* A place in the text has characters.  The keys are single lines, so that *)
(* each line break inside of a match is one of the errors find_near_       *)
(* matches counts.  CountryFlagManager knows four kinds of evidence.       *)
ASSUME SamplesAssumption ==
  \A s \in Samples :
    /\ s.force \in BOOLEAN /\ s.length \in Nat /\ IsFiniteSet(s.newlines)
    /\ \A places \in Range(s.found) :
         /\ places \in Seq(Range(places))
         /\ \A p \in Range(places) :
              /\ p.start \in Nat /\ p.end \in Nat /\ p.start < p.end
              /\ p.dist \in Nat /\ Distance(p, s) >= 0
    /\ \A e \in s.evidence : e[2] \in {"IBAN_IS_PRESENT", "PHONE_PREFIX_IS_PRESENT",
                                       "DOMAIN_IS_PRESENT", "POSTAL_CODE_IS_PRESENT"}

(* What stands for no town is no town's name: it is in capitals, and the   *)
(* keys of the gazetteers are casefolded ("no town" among them).           *)
ASSUME PlaceholderAssumption ==
  \A g \in {AllPossibilitiesTown} \cup Range(ExtendedAllPossibilitiesTown) :
    \A entry \in Range(g) : Plain[entry.key] # Plain["NO TOWN"]

VARIABLES
  pc, sample,
  fuzzy,                     (* What the fuzzy runner found in the sample.  *)
  countries, codes, towns,   (* The lists of matches of the current sample. *)
  suggested, force,          (* The fields of the CombinationGenerator.     *)
  answers,                   (* The combinations of the current sample.     *)
  reply                      (* The matches of its ProcessAddressResult.    *)

vars == <<pc, sample, fuzzy, countries, codes, towns, suggested, force, answers, reply>>

Match(key, origin, final) ==
  [start |-> 0, end |-> 0, key |-> key, origin |-> origin, dist |-> 0, crf |-> 0,
   flags |-> {}, final |-> final, code |-> FALSE, sep |-> FALSE]

NoTown == Match("NO TOWN", "", MinimalScore)
NoCountry ==
  Match("NO COUNTRY", "NO COUNTRY",
        IF sample.suggested = "NO COUNTRY" THEN SuggestionScore ELSE MinimalScore)

(* A country code of two characters behind the end of the address.         *)
SuggestedMatch ==
  [Match(sample.suggested, sample.suggested, 0)
     EXCEPT !.start = sample.length + 2, !.end = sample.length + 2, !.crf = SuggestionScore,
            !.flags = {"GENERATED_BY_SUGGESTED_COUNTRY"}, !.code = TRUE]

NoSample == [suggested |-> "NONE"]
NoMatches == [names |-> <<>>, codes |-> <<>>, towns |-> <<>>, extended |-> <<>>]

Init == /\ pc = "waiting" /\ sample = NoSample /\ fuzzy = NoMatches
        /\ countries = <<>> /\ codes = <<>> /\ towns = <<>> /\ answers = <<>> /\ reply = <<>>
        /\ suggested = "NONE" /\ force = FALSE

\* Mutant: only a sample with a suggestion overwrites the generator's fields.
SetSuggestionIfAny ==
  IF sample.suggested = "NONE" THEN UNCHANGED <<suggested, force>>
  ELSE suggested' = sample.suggested /\ force' = sample.force

SetSuggestion == suggested' = sample.suggested /\ force' = sample.force

SuggestionFlagged(matches) ==
  [i \in DOMAIN matches |->
     IF matches[i].key = sample.suggested /\ matches[i].origin = sample.suggested
     THEN [AddFlags(matches[i], {"IS_SUGGESTED_COUNTRY"})
             EXCEPT !.crf = IF @ > SuggestionScore THEN @ ELSE SuggestionScore]
     ELSE matches[i]]

\* Mutant: no match is generated for a suggestion that stands in the address.
AppendMissingSuggestion(matches) ==
  IF sample.suggested \in {"NONE", "NO COUNTRY"} \cup {matches[i].key : i \in DOMAIN matches}
  THEN matches ELSE Append(matches, SuggestedMatch)

WithSuggestion(matches) ==
  IF sample.suggested \in {"NONE", "NO COUNTRY"} THEN matches ELSE Append(matches, SuggestedMatch)

ScoreCountries ==
  /\ pc = "fetched"
  /\ SetSuggestion
  /\ countries' = Scored(fuzzy.names, sample.country)
  /\ codes' = WithSuggestion(SuggestionFlagged(Scored(fuzzy.codes, sample.country)))
  /\ pc' = "scored" /\ UNCHANGED <<sample, fuzzy, towns, answers, reply>>

MergeMatches ==
  /\ pc = "scored"
  /\ LET kept == Kept(codes, {i \in DOMAIN codes : codes[i].crf > 0 \/ codes[i].origin = sample.head})
     IN codes' = kept /\ countries' = countries \o kept
  /\ towns' = Scored(fuzzy.towns \o FlagEach(fuzzy.extended, LAMBDA m : {"IS_FROM_EXTENDED_DATA"}),
                     sample.town)
  /\ pc' = "merged" /\ UNCHANGED <<sample, fuzzy, suggested, force, answers, reply>>

FlagMatches ==
  /\ pc = "merged"
  /\ LET c == FlagCodes(FilterFuzzyResults(CountryFlags(countries, sample), sample))
         t == FilterFuzzyResults(TownFlags(towns, sample), sample)
     IN /\ countries' = ReasonableMistakes(CountryRelations(c, t, sample), sample.townPredictions)
        /\ towns' = PostcodeFlags(AloneOnLine(
                      ReasonableMistakes(TownRelations(t, c, sample), sample.countryPredictions),
                      sample), sample)
  /\ pc' = "flagged" /\ UNCHANGED <<sample, fuzzy, codes, suggested, force, answers, reply>>

(* Of a generated match's flags only the one that says so stays.           *)
FinalCountry(m) ==
  LET flags == IF Generated(m) THEN {"GENERATED_BY_SUGGESTED_COUNTRY"} ELSE m.flags
  IN [m EXCEPT !.flags = flags, !.final = CountryScore(m.crf, m.dist, flags)]

FinalTown(m) == [m EXCEPT !.final = TownScore(m.crf, m.dist, m.flags)]

AboveThreshold(matches) == Kept(matches, {i \in DOMAIN matches : matches[i].final >= MinimalScore})

CombineMatches ==
  /\ pc = "flagged"
  /\ LET c == [i \in DOMAIN countries |-> FinalCountry(countries[i])]
         t == [i \in DOMAIN towns |-> FinalTown(towns[i])]
     IN /\ countries' = c /\ towns' = t
        /\ answers' = GenerateCombinations(AboveThreshold(c), AboveThreshold(t),
                                           NoCountry, NoTown, suggested, force)
  /\ pc' = "yielded" /\ UNCHANGED <<sample, fuzzy, codes, suggested, force, reply>>

(* The next sample; the generator's fields stay as they are.               *)
Fetch == /\ pc = "waiting" /\ sample' \in Samples /\ fuzzy' \in FuzzyMatches(sample')
         /\ pc' = "fetched" /\ UNCHANGED <<countries, codes, towns, suggested, force, answers, reply>>

-----------------------------------------------------------------------------
(* _i_th_best_match for both tags: a country stands for its origin, a town *)
(* for its possibility.                                                    *)
PairedMatch(country, town) ==
  [country |-> country.origin, town |-> town.key, inferred |-> town.origin,
   confidences |-> <<country.final, town.final>>,
   places |-> <<Span(country), Span(town)>>]

\* Mutant: a list's placeholders do not count as its matches.
PairFoundMatches(best) ==
  LET found == SelectSeq([i \in DOMAIN answers |-> answers[i].town],
                         LAMBDA t : t.key # "NO TOWN")
  IN [i \in 1..(IF Len(found) < best THEN Len(found) ELSE best) |->
        PairedMatch(answers[i].country, found[i])]

(* The i-th best country and the i-th best town are one pair.              *)
PairMatches(best) ==
  [i \in 1..best |-> PairedMatch(answers[i].country, answers[i].town)]

(* The result goes to the server when the whole request is done; nothing   *)
(* of it changes till then.                                                *)
Reply ==
  /\ pc = "yielded"
  /\ reply' = PairMatches(IF Len(answers) < NumResults THEN Len(answers) ELSE NumResults)
  /\ pc' = "replied"
  /\ UNCHANGED <<sample, fuzzy, countries, codes, towns, suggested, force, answers>>

(* The generator is asked for more.                                        *)
Resume == /\ pc = "replied" /\ sample' = NoSample /\ fuzzy' = NoMatches
          /\ countries' = <<>> /\ codes' = <<>> /\ towns' = <<>> /\ answers' = <<>> /\ reply' = <<>>
          /\ pc' = "waiting" /\ UNCHANGED <<suggested, force>>

Next == Fetch \/ ScoreCountries \/ MergeMatches \/ FlagMatches \/ CombineMatches \/ Reply \/ Resume
Spec == Init /\ [][Next]_vars

-----------------------------------------------------------------------------
Elements(list) == {list[i] : i \in DOMAIN list}
Answers == Elements(answers)

(* Types; a match that has been scored has a percentage on the grid. (The  *)
(* sample is left as it was fetched: TypeInv of PostProcessingProofs.)     *)
TypeOK ==
  /\ pc \in {"waiting", "fetched", "scored", "merged", "flagged", "yielded", "replied"}
  /\ force \in BOOLEAN
  /\ \A m \in Elements(countries) \cup Elements(towns) \cup Elements(codes) :
       m.crf \in 0..100 /\ m.final \in {0} \cup DOMAIN Logit
  /\ pc = "yielded" => answers # <<>>

(* With a forced suggestion every answer names the suggested country, also *)
(* when no match of the address does (the filters of runner_post_          *)
(* processing.py and CombinationGenerator).                                *)
ForcedSuggestionIsTheOnlyCountry ==
  pc = "yielded" /\ Forced(sample.suggested, sample.force) =>
    \A a \in Answers : a.country.origin = sample.suggested

(* A suggested country is offered, whatever the CRF and the filters make   *)
(* of the address and wherever its code stands.                            *)
SuggestedCountryIsOffered ==
  pc = "yielded" /\ sample.suggested \notin {"NONE", "NO COUNTRY"} =>
    \E a \in Answers : a.country.origin = sample.suggested /\ a.country.final >= SuggestionScore

(* A suggestion opens the towns of its country that only the extended data *)
(* know, though nothing in the address names the country: whatever is near *)
(* enough stays a town of the address.  A town of the same name in another *)
(* country may take the place of its own.                                  *)
SuggestionOpensItsTowns ==
  pc = "yielded" /\ sample.suggested \in DOMAIN ExtendedAllPossibilitiesTown =>
    \A e \in Elements(ExtendedAllPossibilitiesTown[sample.suggested]) :
      NearMatches(e.key, sample, Tolerance) # <<>> =>
        \E t \in Elements(towns) : t.key = e.key /\ "IS_FROM_EXTENDED_DATA" \in t.flags

(* Without a forced suggestion every match above its threshold is part of  *)
(* an answer, whatever the sample before was forced to.                    *)
NoMatchIsLost ==
  pc = "yielded" /\ ~Forced(sample.suggested, sample.force) =>
    /\ \A c \in Elements(countries) : c.final >= MinimalScore =>
         \E a \in Answers : a.country.origin = c.origin
    /\ \A t \in Elements(towns) : t.final >= MinimalScore =>
         \E a \in Answers : Plain[a.town.key] = Plain[t.key]

(* Of the combinations that read the same, the best one is presented, and  *)
(* better combinations come before worse ones.                             *)
BestPairIsKept ==
  pc = "yielded" =>
    /\ \A c \in Elements(AboveThreshold(countries)), t \in Elements(AboveThreshold(towns)) :
         c.origin = t.origin /\ ~ShouldSkip(t, c, sample.suggested, sample.force) =>
           \E a \in Answers : /\ a.country.origin = c.origin /\ Plain[a.town.key] = Plain[t.key]
                              /\ a.score >= 10 * (c.final + t.final)
    /\ \A i, j \in DOMAIN answers : i < j =>
         /\ answers[i].score >= answers[j].score
         /\ answers[i].country.origin = answers[j].country.origin =>
              Plain[answers[i].town.key] # Plain[answers[j].town.key]

(* The two halves of a replied pair, read off two lists by position, fit:  *)
(* the country inferred from the town is the country, if both were found,  *)
(* and they are not the same piece of the address, unless the town is      *)
(* known to share its country's name.  And what the reply leaves out is    *)
(* not better than what it has.                                            *)
RepliedPairsFit ==
  pc = "replied" =>
    /\ \A p \in Elements(reply) :
         LET c == p.places[1]  t == p.places[2] IN
         /\ p.country # "NO COUNTRY" /\ p.town # "NO TOWN" => p.inferred = p.country
         /\ c # {} /\ t # {} /\ (c \subseteq t \/ t \subseteq c) =>
              c = t /\ p.town \in DOMAIN SameName /\ SameName[p.town] = p.country
    /\ \A a \in Answers : \/ PairedMatch(a.country, a.town) \in Elements(reply)
                          \/ /\ Len(reply) = NumResults
                             /\ \A p \in Elements(reply) : \E b \in Answers :
                                  PairedMatch(b.country, b.town) = p /\ a.score <= b.score

(* A town and a country support each other or neither does: a town that is *)
(* lifted by its country lifts it in turn, unless the town is of the       *)
(* extended data or the country match was generated.                       *)
SupportIsMutual ==
  pc = "yielded" =>
    /\ \A t \in Elements(towns) :
         "COUNTRY_IS_PRESENT" \in t.flags /\ "IS_FROM_EXTENDED_DATA" \notin t.flags =>
           \E c \in Elements(countries) : c.origin = t.origin
             /\ ("TOWN_IS_PRESENT" \in c.flags \/ Generated(c))
    /\ \A c \in Elements(countries) : "TOWN_IS_PRESENT" \in c.flags =>
         \E t \in Elements(towns) : /\ t.origin = c.origin /\ "COUNTRY_IS_PRESENT" \in t.flags
                                    /\ "IS_FROM_EXTENDED_DATA" \notin t.flags

(* A country match inside a larger one that is closer, or as close and     *)
(* likelier by the CRF, is in no answer: no sum of bonuses outweighs the   *)
(* malus of is_inside_another_higher_ranked_match.                         *)
NestedCountryIsNoAnswer ==
  pc = "yielded" => \A a \in Answers : \A d \in Elements(countries) :
    ~ /\ ~Generated(a.country) /\ Larger(d, a.country)
      /\ a.country.key # "NO COUNTRY"
      /\ d.dist < a.country.dist \/ (d.dist = a.country.dist /\ d.crf > a.country.crf)
=============================================================================
