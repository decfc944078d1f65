------------------------------ MODULE MCPipeline ------------------------------
(***************************************************************************)
(* Requests of up to five samples in batches of two: empty ones, such that *)
(* are empty once they are cleaned, good ones, such that are too long      *)
(* before or after cleaning; at most two samples are not plain.  And       *)
(* requests of one sample, for every text of up to three pieces of         *)
(* postcodes: of the form of several countries, with and without           *)
(* separators, of digits that run into each other.                         *)
(***************************************************************************)
EXTENDS Structuring

CONSTANT MaxSamples

Text(n) == [i \in 1..n |-> "X"]
Plain == [size |-> 1, text |-> Text(1)]
Odd == {[size |-> 0, text |-> <<>>], [size |-> 1, text |-> <<>>],
        [size |-> MaxSequenceLength, text |-> Text(MaxSequenceLength)],
        [size |-> MaxSequenceLength, text |-> Text(MaxSequenceLength + 1)],
        [size |-> MaxSequenceLength + 1, text |-> Text(MaxSequenceLength)]}

Row(country, admin, code, place) ==
  [country |-> country, admin |-> admin, code |-> code, place |-> place]

MCPostcodeRows ==
  {Row("CA", <<>>, <<"K", "1", " ", "0", "B">>, "OTTAWA"),
   Row("UA", <<>>, <<"1", "9", "6">>, "C UBIVKA"), Row("FI", <<>>, <<"1", "9", "6">>, "JANAKKALA"),
   Row("CZ", <<>>, <<"9", "6", "-", "4", "8">>, "PRAHA"), Row("DK", <<>>, <<"6", "4">>, ""),
   Row("AR", <<"S">>, <<"6", "4">>, "SUARDI"), Row("MT", <<>>, <<"M", "R">>, "MARSA"),
   Row("BR", <<>>, <<"4", "8", "1", "9", "6", "0", "0">>, "AGUA FRIA"),
   Row("CL", <<>>, <<"1", "9", "6", "4", "8">>, "PUYEHUE"),
   Row("CN", <<>>, <<"4", "8", "1", "9", "0", "0">>, "MINQING"),
   Row("IE", <<>>, <<"D", "0", "2">>, "DUBLIN 2"), Row("IE", <<>>, <<"K", "1", "9">>, "DUNDALK")}

Pieces == {<<"K", "1">>, <<"0", "B">>, <<"1", "9", "6">>, <<"4", "8">>, <<" ">>, <<"-">>,
           <<"D", "2">>, <<"D", "0", "2">>, <<"K", "1", "9", "6">>, <<"A", "F", "3", "0">>,
           <<"S", "6", "4">>, <<"M", "R">>, <<"0", "1", "9", "6">>}

Town(name, people, iso) == [name |-> name, population |-> people, iso |-> iso]
Osm(name, people, iso, label, place, distance) ==
  [name |-> name, population |-> people, iso |-> iso,
   label |-> label, place |-> place, distance |-> distance]

MCGeonamesRows ==
  {Town(<<"SAINT", "-", "DENIS">>, 2, "FR"), Town(<<"ST", ".", " ", "DENIS">>, 3, "RE"),
   Town(<<"ST", ".", "DENIS">>, 1, "GB"), Town(<<"PARIS">>, 4, "FR"), Town(<<"PARIS">>, 1, "US"),
   Town(<<"LUTECE">>, 1, "CA"), Town(<<"HULL">>, 2, "GB"), Town(<<"HULL">>, 1, "CA"),
   Town(<<"MONACO">>, 0, "FR")}

MCAliases == <<"PARIS">> :> {<<"LUTECE">>, <<"Saint", " ", "Denis">>}

MCLower == "SAINT" :> "saint" @@ "Saint" :> "saint" @@ "ST" :> "st" @@ "DENIS" :> "denis"
             @@ "Denis" :> "denis" @@ "PARIS" :> "paris" @@ "LUTECE" :> "lutece"
             @@ "HULL" :> "hull" @@ "MONACO" :> "monaco"

MCSameNames == <<"monaco">> :> "MC" @@ <<"san", " ", "marino">> :> "SM"

MCOsmRows ==
  {Osm(<<"san", "-", "marino">>, 2, "IT", "name", "town", 0),
   Osm(<<"paris">>, 9, "PA", "name", "city", 0), Osm(<<"ems">>, 3, "DE", "name", "town", 1),
   Osm(<<"ems">>, 2, "CH", "name", "village", 0), Osm(<<"le", " ", "mas">>, 2, "FR", "name", "village", 0),
   Osm(<<"le", "-", "mas">>, 3, "MC", "int_name", "village", 2),
   Osm(<<"le", "-", "mas">>, 3, "AD", "name", "village", 1),
   Osm(<<"le", " ", "mas">>, 2, "MU", "short_name", "town", 0),
   Osm(<<"hof">>, 0, "LI", "name", "village", 0), Osm(<<"hof">>, 1, "DE", "name", "village", 0),
   Osm(<<"ulm">>, 3, "DE", "wikidata", "town", 0), Osm(<<"ulm">>, 3, "DE", "name", "hamlet", 0)}

MCCountryGroupings == "alpine" :> {"LI", "CH"}

Texts == {FlattenSeq(p) : p \in UNION {[1..n -> Pieces] : n \in 1..3}}

MCInputs ==
  {[k \in 1..n |-> [id |-> k, size |-> f[k].size, text |-> f[k].text]] :
     <<n, f>> \in UNION {{n} \X {f \in [1..n -> Odd \cup {Plain}] :
                                    Cardinality({k \in 1..n : f[k] # Plain}) <= 2} :
                           n \in 0..MaxSamples}}
  \cup {<<[id |-> 1, size |-> Len(text), text |-> text]>> : text \in Texts}
=============================================================================
