----------------------------- MODULE MCGazetteer -----------------------------
(***************************************************************************)
(* A small gazetteer and the addresses over it: names and codes of the     *)
(* countries A and B, of which the code A and an alias of A stand inside   *)
(* the name of B; a province of A whose short name reads like a code; a    *)
(* town that shares its name and place with country A; a town of B in two  *)
(* spellings, one of them of the extended data and there in A as well; and *)
(* a country C whose extended towns are always looked for.                 *)
(***************************************************************************)
EXTENDS Integers, Sequences, TLC, Functions

Entry(key, origins) == [key |-> key, origins |-> origins]

MCCountries == <<Entry("ALPHA", <<"A">>), Entry("BET", <<"A">>), Entry("BETA", <<"B">>),
                 Entry("AB", <<"A">>)>>
MCCodes == <<Entry("A", <<"A">>)>>
MCTowns == <<Entry("ALPHA", <<"A", "B">>), Entry("ETA", <<"B">>), Entry("SAINT-X", <<"B">>)>>
MCExtendedTowns == [A |-> <<Entry("SAINT X", <<"A">>), Entry("UP", <<"A">>)>>,
                    B |-> <<Entry("SAINT X", <<"B">>)>>,
                    C |-> <<Entry("UPPER", <<"C">>)>>]

Place(start, end, text, dist, bounded) ==
  [start |-> start, end |-> end, text |-> text, dist |-> dist, sep |-> dist > 0, bounded |-> bounded]

(* The towns stand in every address.                                       *)
TownPlaces == ("SAINT-X" :> <<Place(16, 22, "SAINT-X", 0, TRUE)>>)
  @@ ("SAINT X" :> <<Place(16, 22, "SAINT-X", 1, TRUE)>>)
  @@ ("UP" :> <<Place(27, 29, "UP", 0, TRUE)>>)
  @@ ("UPPER" :> <<Place(26, 29, "UPER", 1, TRUE)>>)
AlphaPlaces == ("ALPHA" :> <<Place(0, 6, "ALPHA", 0, TRUE)>>)
BetaPlaces(dist) ==
  ("BETA" :> <<Place(8, 13, IF dist = 0 THEN "BETA" ELSE "BEYTA", dist, TRUE)>>)
  @@ ("ETA" :> <<Place(10, 13, "ETA", 0, FALSE)>>)
NestedPlaces == ("BET" :> <<Place(8, 11, "BET", 0, FALSE)>>)
CodePlaces(alone) ==
  ("A" :> (<<Place(8, 10, "A", 0, FALSE)>>
             \o (IF alone THEN <<Place(24, 26, "A", 0, TRUE)>> ELSE <<>>)))
  @@ ("AB" :> <<Place(24, 26, "AB", 0, TRUE)>>)

MCPopulation == [ALPHA |-> 2000000, ETA |-> 5000]
MCLargestCountry == [ALPHA |-> "A", ETA |-> "B"]
MCProvinces == [A |-> {"AB"}]
MCSameName == [ALPHA |-> "A"]
MCPlain == [k \in {"ALPHA", "ETA", "SAINT-X", "SAINT X", "UP", "UPPER", "NO TOWN"} |->
              IF k = "SAINT-X" THEN "SAINT X" ELSE k]
MCPostcodeAliases == [k \in DOMAIN MCPlain |-> {k, MCPlain[k]}]

Texts == <<TownPlaces @@ BetaPlaces(1),
           TownPlaces @@ AlphaPlaces @@ CodePlaces(FALSE),
           TownPlaces @@ AlphaPlaces @@ BetaPlaces(0) @@ CodePlaces(TRUE),
           TownPlaces @@ NestedPlaces @@ BetaPlaces(0) @@ CodePlaces(FALSE)>>
(* Head, confidence and whether a postcode names the town of B.            *)
Heads == {<<"NONE", 0, FALSE>>, <<"NONE", 0, TRUE>>, <<"A", 100, FALSE>>, <<"B", 60, TRUE>>}
CountryTags == {{}, 0..5, 9..12, {8, 9}}
TownTags == {{}, 16..21, 0..12}
Suggestions == {<<"NONE", FALSE>>, <<"NONE", TRUE>>} \cup {"A", "B", "NO COUNTRY"} \X BOOLEAN

(* A text occurs in itself and in some that are longer.                    *)
MCContained == {<<"A", "ALPHA">>, <<"A", "AB">>, <<"A", "BETA">>, <<"A", "ETA">>, <<"A", "SAINT-X">>,
                <<"BET", "BETA">>, <<"ETA", "BETA">>}
Occurs(text, in) == text = in \/ <<text, in>> \in MCContained

(* The predictions of a tag, one for each run of tagged characters.        *)
Predictions(tagged, found) ==
  LET places == UNION {Range(found[key]) : key \in DOMAIN found}
      runs == {r \in {i..j : i, j \in tagged} : /\ r \subseteq tagged /\ r # {}
                                              /\ \A p \in r : {p - 1, p + 1} \cap tagged \subseteq r}
  IN {{<<p.start, p.end>> : p \in {q \in places :
         \E in \in places : Occurs(q.text, in.text) /\ in.start..in.end - 1 \subseteq r}} : r \in runs}

MCPredictions == [n \in DOMAIN Texts |-> [tagged \in CountryTags \cup TownTags |->
                    Predictions(tagged, Texts[n])]]

MCSamples ==
  {[length |-> 30, street |-> IF town = 16..21 THEN 0..5 ELSE {}, newlines |-> {14},
    blanks |-> {6, 7, 13, 15, 22, 23}, head |-> h[1], confidence |-> h[2],
    evidence |-> {<<"B", "IBAN_IS_PRESENT">>},
    postcodes |-> IF h[3] THEN {[key |-> "SAINT-X", origin |-> "B"]} ELSE {},
    country |-> country, town |-> town, countryPredictions |-> MCPredictions[n][country],
    townPredictions |-> MCPredictions[n][town], found |-> Texts[n], suggested |-> s[1], force |-> s[2]] :
     h \in Heads, n \in DOMAIN Texts, country \in CountryTags, town \in TownTags, s \in Suggestions}
=============================================================================
