------------------------------ MODULE FuzzyScan ------------------------------
(***************************************************************************)
(* fuzzyscan_all_batched, and RunnerFuzzyMatch.match, which scans an       *)
(* address for countries, country codes, towns, and then for the towns of  *)
(* the extended data of the countries found.                               *)
(*                                                                         *)
(* A gazetteer is a dictionary in its order: a sequence of records with a  *)
(* key (what is looked for) and the origins it stands for.  What cdist and *)
(* find_near_matches find is data of the sample: found[key] lists the      *)
(* places of a key whose partial ratio reaches the cutoff, with the text   *)
(* that stands there, its distance from the key, whether only separators   *)
(* differ (sep) and whether no letter touches it (bounded).                *)
(***************************************************************************)
EXTENDS Integers, Sequences, FiniteSets, SequencesExt, Lists

CONSTANTS
  AllPossibilitiesCountry, Alpha2ToAlpha2, AllPossibilitiesTown,  (* Gazetteers. *)
  ExtendedAllPossibilitiesTown,   (* A gazetteer for some countries.        *)
  CountriesOverrides,             (* countries_overrides, as a set.         *)
  Short,                          (* The keys of at most two characters.    *)
  Tolerance                       (* The distance allowed for longer keys.  *)

(* A gazetteer is finite, and so are the origins of its entries; a name is *)
(* listed with the first of them.                                          *)
IsGazetteer(g) ==
  /\ g \in Seq(Range(g))
  /\ \A entry \in Range(g) : entry.origins \in Seq(Range(entry.origins)) \ {<<>>}

ASSUME GazetteersAssumption ==
  /\ IsFiniteSet(DOMAIN ExtendedAllPossibilitiesTown) /\ "NONE" \notin DOMAIN ExtendedAllPossibilitiesTown
  /\ \A g \in {AllPossibilitiesCountry, Alpha2ToAlpha2, AllPossibilitiesTown} : IsGazetteer(g)
  /\ \A g \in Range(ExtendedAllPossibilitiesTown) : IsGazetteer(g)

(* \b is searched for in all of the text, not at the place of the match.   *)
Standalone(place, sample) ==
  \E key \in DOMAIN sample.found : \E i \in DOMAIN sample.found[key] :
    sample.found[key][i].text = place.text /\ sample.found[key][i].bounded

(* A line break inside of a match is no error.                             *)
Distance(place, sample) ==
  place.dist - Cardinality({q \in sample.newlines : place.start < q /\ q < place.end - 1})

FuzzyMatch(place, key, origin, sample) ==
  [start |-> place.start, end |-> place.end, key |-> key, origin |-> origin,
   dist |-> Distance(place, sample), crf |-> 0, final |-> 0, code |-> key \in Short,
   sep |-> place.sep,
   flags |-> IF Standalone(place, sample) THEN {} ELSE {"IS_INSIDE_ANOTHER_WORD"}]

(* Short keys have to match exactly.                                       *)
NearMatches(key, sample, maxDist) ==
  LET places == sample.found[key]
      dist == IF key \in Short THEN 0 ELSE maxDist
  IN IF key \notin DOMAIN sample.found THEN <<>>
     ELSE Kept(places, {i \in DOMAIN places : places[i].dist <= dist})

(* One match for each key, place and origin, in this order.                *)
Scan(gazetteer, sample, maxDist) ==
  FlattenSeq([k \in DOMAIN gazetteer |->
    LET entry == gazetteer[k]  near == NearMatches(entry.key, sample, maxDist) IN
    FlattenSeq([n \in DOMAIN near |->
      [o \in DOMAIN entry.origins |-> FuzzyMatch(near[n], entry.key, entry.origins[o], sample)]])])

(* The union of dictionaries: a key stays where it came first and has the  *)
(* value that came last.                                                   *)
United(order) ==
  LET entries == FlattenSeq([k \in DOMAIN order |-> ExtendedAllPossibilitiesTown[order[k]]])
      With(key) == {i \in DOMAIN entries : entries[i].key = key}
      first == Kept(entries, {i \in DOMAIN entries : \A j \in With(entries[i].key) : i <= j})
  IN [k \in DOMAIN first |-> entries[Max(With(first[k].key))]]

Origins(matches) == {matches[i].origin : i \in DOMAIN matches}

\* Mutant: only countries found in the text open their towns.
OpenedIfFound(names, codes, sample) ==
  Origins(names) \cup Origins(codes) \cup CountriesOverrides

(* The countries whose extended towns are looked for.                      *)
Opened(names, codes, sample) ==
  Origins(names) \cup Origins(codes) \cup CountriesOverrides
    \cup (IF sample.suggested = "NONE" THEN {} ELSE {sample.suggested})

(* The results for a sample.  The opened countries are a set of strings,   *)
(* which Python iterates in an order of its own in every process.          *)
FuzzyMatches(sample) ==
  LET names == Scan(AllPossibilitiesCountry, sample, Tolerance)
      codes == Scan(Alpha2ToAlpha2, sample, 0)
      opened == Opened(names, codes, sample) \cap DOMAIN ExtendedAllPossibilitiesTown
  IN {[names |-> names, codes |-> codes, towns |-> Scan(AllPossibilitiesTown, sample, Tolerance),
       extended |-> Scan(United(order), sample, Tolerance)] : order \in SetToSeqs(opened)}
=============================================================================
