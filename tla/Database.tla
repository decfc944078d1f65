------------------------------- MODULE Database -------------------------------
(***************************************************************************)
(* Database._load_all_data: the tables of towns, made of three sources one *)
(* after the other: geonames with its aliases, the countries that are      *)
(* towns, and what OpenStreetMap adds.  The rows of a source come in no    *)
(* particular order.                                                       *)
(*                                                                         *)
(* A name is a sequence of tokens: words, and single separators or marks.  *)
(* The rows come transliterated and with their nulls filled in, names in   *)
(* upper case in GeonamesRows, in lower case in OsmRows.                   *)
(***************************************************************************)
EXTENDS Integers, Sequences, SequencesExt

CONSTANTS
  GeonamesRows,     (* Records with name, population and iso.               *)
  Aliases,          (* From names to sets of names.                         *)
  Lower,            (* casefold: from words to words.                       *)
  SameNames,        (* Towns with the name of their country, to its iso.    *)
  OsmRows,          (* name, population, iso, label, place, distance.       *)
  EnableOsm, TownMinimalPopulation,
  ForceCountries, ForceCountryGroupings, CountryGroupings

VARIABLES
  stage,
  todo,                          (* The names of a source yet to be added.  *)
  towns,                         (* all_possibilities_town                  *)
  population, largest,           (* towns_and_populations, largest_country_ *)
                                 (* code_for_town                           *)
  extended,                      (* extended_all_possibilities_town, by     *)
                                 (* pairs of an iso and a town              *)
  extPopulation, extLargest

base == <<towns, population, largest>>
extension == <<extended, extPopulation, extLargest>>
dbVars == <<stage, todo, base, extension>>

-----------------------------------------------------------------------------
(* normalization.py                                                        *)
Separators == {"-", " "}
Marks == Separators \cup {".", "'"}

(* SAINT_VARIATIONS_REGEX: how many tokens it takes at i.                  *)
SaintLength(name, i) ==
  LET markAt(j) == j \in DOMAIN name /\ name[j] \in Marks
  IN IF name[i] = "ST" /\ markAt(i + 1) /\ name[i + 1] = "." /\ markAt(i + 2) THEN 3
     ELSE IF name[i] \in {"SAINT", "ST"} /\ markAt(i + 1) THEN 2 ELSE 0

SaintVariants(name) ==
  LET piece(i, saint) ==
        IF SaintLength(name, i) > 0 THEN saint
        ELSE IF \E j \in 1..i - 1 : i < j + SaintLength(name, j) THEN <<>> ELSE <<name[i]>>
  IN {FlattenSeq([i \in DOMAIN name |-> piece(i, saint)]) :
        saint \in {<<"SAINT", "-">>, <<"ST", ".", " ">>, <<"ST", "-">>}}

WithSeparator(name, separator) ==
  [i \in DOMAIN name |-> IF name[i] \in Separators THEN separator ELSE name[i]]

(* generate_duplicate_aliases                                              *)
Duplicates(name) ==
  {name} \cup {WithSeparator(v, s) : v \in SaintVariants(name), s \in Separators}

Casefolded(name) ==
  [i \in DOMAIN name |-> IF name[i] \in DOMAIN Lower THEN Lower[name[i]] ELSE name[i]]

(* The names under which towns_from_geonames enters the rows of a name.    *)
NamesOf(name) ==
  LET aliases == UNION {Aliases[n] : n \in Duplicates(name) \cap DOMAIN Aliases}
  IN {Casefolded(n) : n \in UNION {Duplicates(m) : m \in {name} \cup aliases}}

-----------------------------------------------------------------------------
Named(rows, name) == {r \in rows : r.name = name}
Isos(rows) == {r.iso : r \in rows}

(* The row that get(0) of the sorted rows of a name may be.                *)
MostPopulous(rows) == {r \in rows : \A q \in rows : q.population <= r.population}

(* A defaultdict or dict.get.                                              *)
Lookup(f, x, default) == IF x \in DOMAIN f THEN f[x] ELSE default

(* f.update(new)                                                           *)
Updated(f, new) == [x \in DOMAIN f \cup DOMAIN new |-> IF x \in DOMAIN new THEN new[x] ELSE f[x]]

(* get_country_overrides                                                   *)
Overrides ==
  ForceCountries
    \cup UNION {CountryGroupings[g] : g \in ForceCountryGroupings \cap DOMAIN CountryGroupings}

ApprovedNameLabels == {"name", "alternative_names", "int_names", "official_name",
                       "int_name", "loc_name", "short_name"}
ApprovedTownLabels == {"city", "town", "village"}

Admitted == {r \in OsmRows : /\ r.label \in ApprovedNameLabels
                             /\ r.place \in ApprovedTownLabels
                             /\ r.population >= TownMinimalPopulation \/ r.iso \in Overrides}

NoTown == <<"no", " ", "town">>

(* Populations are numbers once the nulls are filled in; and no town bears *)
(* the name that stands for no town.                                       *)
ASSUME RowsAssumption ==
  /\ \A r \in GeonamesRows : r.population \in Nat /\ NoTown \notin NamesOf(r.name)
  /\ \A r \in OsmRows : r.population \in Nat

-----------------------------------------------------------------------------
LoadInit == /\ stage = "geonames" /\ todo = {r.name : r \in GeonamesRows}
            /\ towns = <<>> /\ population = <<>> /\ largest = <<>>
            /\ extended = <<>> /\ extPopulation = <<>> /\ extLargest = <<>>

\* Mutant: the row that comes last sets the population and the country.
AnyPopulation(names, row) == names

(* The names for which a row of geonames is the largest town so far.       *)
Outgrown(names, row) == {t \in names : row.population > Lookup(population, t, 0)}

ProcessTown ==
  /\ stage = "geonames"
  /\ \E name \in todo : \E row \in MostPopulous(Named(GeonamesRows, name)) :
       LET names == NamesOf(name)
           isos == Isos(Named(GeonamesRows, name))
           grown == Outgrown(names, row)
       IN /\ todo' = todo \ {name}
          /\ towns' = Updated(towns, [t \in names |-> isos \cup Lookup(towns, t, {})])
          /\ population' = Updated(population, [t \in grown |-> row.population])
          /\ largest' = Updated(largest, [t \in grown |-> row.iso])
  /\ UNCHANGED <<stage, extension>>

AddNoTown == /\ stage = "geonames" /\ todo = {}
             /\ towns' = Updated(towns, [t \in {NoTown} |-> {"NO TOWN"}])
             /\ stage' = "same_names"
             /\ UNCHANGED <<todo, population, largest, extension>>

(* load_countries_towns_with_same_name, then the rows of OpenStreetMap are *)
(* filtered; names that the first two sources have are left out.           *)
AddSameNames ==
  /\ stage = "same_names"
  /\ towns' = Updated(towns, [t \in DOMAIN SameNames |-> Lookup(towns, t, {}) \cup {SameNames[t]}])
  /\ largest' = Updated(SameNames, largest)
  /\ todo' = IF EnableOsm THEN {r.name : r \in Admitted} \ DOMAIN towns' ELSE {}
  /\ stage' = "osm"
  /\ UNCHANGED <<population, extension>>

(* The distance that counts is the one of the most populous row.           *)
ProcessOsmTown ==
  /\ stage = "osm"
  /\ \E name \in todo : \E row \in MostPopulous(Named(Admitted, name)) :
       LET names == IF row.distance = 1 THEN {} ELSE Duplicates(name)
           isos == Isos(Named(Admitted, name))
           before(t) == Lookup(extPopulation, t, 0)
       IN /\ todo' = todo \ {name}
          /\ extLargest' =
               Updated(extLargest, [t \in {t \in names : before(t) <= row.population} |-> row.iso])
          /\ extPopulation' =
               Updated(extPopulation, [t \in names |-> IF before(t) > row.population THEN before(t)
                                                       ELSE row.population])
          /\ extended' =
               Updated(extended, [p \in isos \X names |-> isos \cup Lookup(extended, p, {})])
  /\ UNCHANGED <<stage, base>>

(* extended_....update(...): what the first two sources say wins.          *)
Merge == /\ stage = "osm" /\ todo = {}
         /\ population' = Updated(extPopulation, population)
         /\ largest' = Updated(extLargest, largest)
         /\ stage' = "postcodes"
         /\ UNCHANGED <<todo, towns, extension>>

(* load_postcode_data; what it makes of the files is in Postcodes.         *)
LoadPostcodes == /\ stage = "postcodes" /\ stage' = "ready"
                 /\ UNCHANGED <<todo, base, extension>>

LoadNext == ProcessTown \/ AddNoTown \/ AddSameNames \/ ProcessOsmTown \/ Merge \/ LoadPostcodes

-----------------------------------------------------------------------------
(* The rows that have a say on a name: those of geonames with people; of   *)
(* OpenStreetMap those of names that geonames and the countries do not     *)
(* have and whose most populous row is not at distance 1.  If rows of      *)
(* several distances tie for most populous, any of them may come first.    *)
GeonamesOf(t) == {r \in GeonamesRows : r.population > 0 /\ t \in NamesOf(r.name)}

Distances(name) == {r.distance : r \in MostPopulous(Named(Admitted, name))}

OsmOf(t) == {r \in Admitted : /\ EnableOsm /\ r.name \notin DOMAIN towns
                              /\ t \in Duplicates(r.name) /\ Distances(r.name) # {1}}

Listed(t) == Lookup(towns, t, {}) \cup UNION {extended[p] : p \in {p \in DOMAIN extended : p[2] = t}}

(* However the rows come, the population of a name is the largest that the *)
(* rows of all names that share it have, in geonames if a row there has    *)
(* people, otherwise in OpenStreetMap; the country that stands for the     *)
(* name is that of such a row, or the one that bears the name if geonames  *)
(* has no people there; and it is a country that the tables list for it.   *)
MostPopulousTownWins ==
  stage = "postcodes" =>
    /\ \A t \in DOMAIN towns : GeonamesOf(t) # {} =>
         \E r \in MostPopulous(GeonamesOf(t)) : population[t] = r.population /\ largest[t] = r.iso
    /\ \A t \in DOMAIN extPopulation : GeonamesOf(t) = {} =>
         \E r \in OsmOf(t) :
           /\ population[t] = r.population
           /\ largest[t] = IF t \in DOMAIN SameNames THEN SameNames[t] ELSE r.iso
           /\ \A q \in OsmOf(t) : 1 \notin Distances(q.name) => q.population <= r.population
    /\ \A r \in Admitted : EnableOsm /\ r.name \notin DOMAIN towns /\ 1 \notin Distances(r.name) =>
         Duplicates(r.name) \subseteq DOMAIN extPopulation
    /\ \A t \in DOMAIN largest : largest[t] \in Listed(t)
=============================================================================
