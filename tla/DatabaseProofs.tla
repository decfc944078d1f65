---------------------------- MODULE DatabaseProofs ----------------------------
(***************************************************************************)
(* What the tables of towns hold once the database is loaded, for every    *)
(* content of the sources and every order of their rows.                   *)
(***************************************************************************)
EXTENDS Structuring, TLAPS

-----------------------------------------------------------------------------
(***************************************************************************)
(* What the tables hold while a source is being added.                     *)
(***************************************************************************)
Loading == stage \in {"geonames", "same_names", "osm"}

(* The rows of geonames that have been entered under a name.               *)
GeonamesDone(t) == {r \in GeonamesOf(t) : stage = "geonames" => r.name \notin todo}

LargestOf(r, rows) == \A q \in rows : q.population <= r.population

GeonamesInv ==
  Loading =>
    /\ \A r \in GeonamesRows : (r.population > 0 /\ (stage = "geonames" => r.name \notin todo)) =>
         NamesOf(r.name) \subseteq DOMAIN population
    /\ \A t \in DOMAIN population : \E r \in GeonamesDone(t) :
         population[t] = r.population /\ largest[t] = r.iso /\ LargestOf(r, GeonamesDone(t))
    /\ DOMAIN population \subseteq DOMAIN towns
    /\ DOMAIN largest = DOMAIN population \cup (IF stage = "osm" THEN DOMAIN SameNames ELSE {})
    /\ \A t \in DOMAIN largest : t \in DOMAIN towns /\ largest[t] \in towns[t]
    /\ stage = "osm" => \A t \in DOMAIN SameNames \ DOMAIN population : largest[t] = SameNames[t]

(* The same of OpenStreetMap.                                              *)
OsmDone(t) == {r \in OsmOf(t) : r.name \notin todo}
SureDone(t) == {r \in OsmDone(t) : 1 \notin Distances(r.name)}

OsmInv ==
  /\ stage \in {"geonames", "same_names"} =>
       DOMAIN extPopulation = {} /\ DOMAIN extLargest = {} /\ DOMAIN extended = {}
  /\ stage = "osm" =>
       /\ todo \cap DOMAIN towns = {} /\ (~EnableOsm => todo = {})
       /\ \A r \in Admitted :
            (EnableOsm /\ r.name \notin DOMAIN towns \cup todo /\ 1 \notin Distances(r.name)) =>
              Duplicates(r.name) \subseteq DOMAIN extPopulation
       /\ \A t \in DOMAIN extPopulation : \E r \in OsmDone(t) :
            extPopulation[t] = r.population /\ extLargest[t] = r.iso /\ LargestOf(r, SureDone(t))
       /\ DOMAIN extLargest = DOMAIN extPopulation
       /\ \A t \in DOMAIN extLargest : \E p \in DOMAIN extended :
            p[2] = t /\ extLargest[t] \in extended[p]

DbInv ==
  /\ stage \in {"geonames", "same_names", "osm", "postcodes", "ready"}
  /\ GeonamesInv /\ OsmInv /\ MostPopulousTownWins

LEMMA InitLoading == LoadInit => DbInv
<1> SUFFICES ASSUME LoadInit PROVE DbInv
    OBVIOUS
<1>1. DOMAIN <<>> = {}
      OBVIOUS
<1>2. GeonamesInv
  <2>1. \A r \in GeonamesRows : r.name \in todo
        BY DEF LoadInit
  <2>2. QED
        BY <1>1, <2>1 DEF LoadInit, GeonamesInv
<1>3. QED
      BY <1>1, <1>2 DEF LoadInit, DbInv, OsmInv, MostPopulousTownWins

-----------------------------------------------------------------------------
(***************************************************************************)
(* Every step of the loading keeps them.                                   *)
(***************************************************************************)
LEMMA ProcessTownKeeps == DbInv /\ ProcessTown => DbInv'
<1> SUFFICES ASSUME DbInv, ProcessTown PROVE DbInv'
    OBVIOUS
<1>1. PICK name \in todo : \E row \in MostPopulous(Named(GeonamesRows, name)) :
        LET names == NamesOf(name)
            isos == Isos(Named(GeonamesRows, name))
            grown == Outgrown(names, row)
        IN /\ todo' = todo \ {name}
           /\ towns' = Updated(towns, [t \in names |-> isos \cup Lookup(towns, t, {})])
           /\ population' = Updated(population, [t \in grown |-> row.population])
           /\ largest' = Updated(largest, [t \in grown |-> row.iso])
      BY DEF ProcessTown
<1> DEFINE names == NamesOf(name)
           isos == Isos(Named(GeonamesRows, name))
<1>2. PICK row \in MostPopulous(Named(GeonamesRows, name)) :
        /\ todo' = todo \ {name}
        /\ towns' = Updated(towns, [t \in names |-> isos \cup Lookup(towns, t, {})])
        /\ population' = Updated(population, [t \in Outgrown(names, row) |-> row.population])
        /\ largest' = Updated(largest, [t \in Outgrown(names, row) |-> row.iso])
      BY <1>1
<1> DEFINE grown == Outgrown(names, row)
<1>0. stage = "geonames" /\ UNCHANGED <<stage, extended, extPopulation, extLargest>>
      BY DEF ProcessTown, extension
<1>3. /\ row \in GeonamesRows /\ row.name = name /\ row.population \in Nat
      /\ \A q \in GeonamesRows : q.name = name => q.population <= row.population
      /\ row.iso \in isos
      BY RowsAssumption DEF MostPopulous, Named, Isos
<1>4. /\ todo' = todo \ {name}
      /\ DOMAIN towns' = names \cup DOMAIN towns
      /\ \A t \in names : towns'[t] = isos \cup Lookup(towns, t, {})
      /\ \A t \in DOMAIN towns \ names : towns'[t] = towns[t]
      BY <1>2 DEF Updated
<1>5. /\ DOMAIN population' = grown \cup DOMAIN population
      /\ \A t \in grown : population'[t] = row.population
      /\ \A t \in DOMAIN population \ grown : population'[t] = population[t]
      BY <1>2 DEF Updated
<1>6. /\ DOMAIN largest' = grown \cup DOMAIN largest
      /\ \A t \in grown : largest'[t] = row.iso
      /\ \A t \in DOMAIN largest \ grown : largest'[t] = largest[t]
      BY <1>2 DEF Updated
<1>7. /\ grown \subseteq names
      /\ \A t \in names : t \in grown <=> row.population > Lookup(population, t, 0)
      BY DEF Outgrown
<1> HIDE DEF names, isos, grown
<1>8. /\ \A r \in GeonamesRows : (r.population > 0 /\ r.name \notin todo) =>
           NamesOf(r.name) \subseteq DOMAIN population
      /\ \A t \in DOMAIN population : \E r \in GeonamesDone(t) :
           population[t] = r.population /\ largest[t] = r.iso /\ LargestOf(r, GeonamesDone(t))
      /\ DOMAIN population \subseteq DOMAIN towns /\ DOMAIN largest = DOMAIN population
      /\ \A t \in DOMAIN largest : t \in DOMAIN towns /\ largest[t] \in towns[t]
      BY <1>0 DEF DbInv, GeonamesInv, Loading
<1>9. \A t : GeonamesDone(t) \subseteq GeonamesDone(t)'
      BY <1>0, <1>4 DEF GeonamesDone, GeonamesOf
<1>10. \A t, q : q \in GeonamesDone(t)' /\ q \notin GeonamesDone(t) =>
         q \in GeonamesRows /\ q.name = name /\ t \in names /\ q.population > 0
       BY <1>0, <1>4 DEF GeonamesDone, GeonamesOf, names
<1>11. \A q \in GeonamesRows : q.population \in Nat
       BY RowsAssumption
<1>12. \A t \in DOMAIN population : population[t] \in Nat /\ population[t] > 0
       BY <1>8, <1>11 DEF GeonamesDone, GeonamesOf
<1>13. ASSUME NEW t \in grown
       PROVE  row \in GeonamesDone(t)' /\ LargestOf(row, GeonamesDone(t)')
  <2>1. row.population > 0
    <3>1. CASE t \in DOMAIN population
          BY <1>3, <1>7, <1>12, <1>13, <3>1 DEF Lookup
    <3>2. CASE t \notin DOMAIN population
          BY <1>3, <1>7, <1>13, <3>2 DEF Lookup
    <3>3. QED
          BY <3>1, <3>2
  <2>2. row \in GeonamesDone(t)'
        BY <1>0, <1>3, <1>4, <1>7, <1>13, <2>1 DEF GeonamesDone, GeonamesOf, names
  <2>3. ASSUME NEW q \in GeonamesDone(t) PROVE q.population <= row.population
    <3>1. t \in DOMAIN population /\ q.population \in Nat
          BY <1>0, <1>8, <1>11, <2>3 DEF GeonamesDone, GeonamesOf
    <3>2. q.population <= population[t]
          BY <1>8, <2>3, <3>1 DEF LargestOf
    <3>3. row.population > population[t]
          BY <1>7, <1>13, <3>1 DEF Lookup
    <3>4. QED
          BY <1>3, <1>12, <3>1, <3>2, <3>3
  <2>4. QED
        BY <1>3, <1>10, <2>2, <2>3 DEF LargestOf
<1>14. ASSUME NEW t \in DOMAIN population \ grown
       PROVE  \E r \in GeonamesDone(t)' : population[t] = r.population /\ largest[t] = r.iso
                                          /\ LargestOf(r, GeonamesDone(t)')
  <2>1. PICK r \in GeonamesDone(t) :
          population[t] = r.population /\ largest[t] = r.iso /\ LargestOf(r, GeonamesDone(t))
        BY <1>8
  <2>2. ASSUME NEW q \in GeonamesDone(t)', q \notin GeonamesDone(t)
        PROVE  q.population <= r.population
    <3>1. q.population <= row.population /\ q.population \in Nat /\ t \in names
          BY <1>3, <1>10, <1>11, <2>2
    <3>2. ~(row.population > population[t])
          BY <1>7, <1>14, <3>1 DEF Lookup
    <3>3. QED
          BY <1>3, <1>12, <2>1, <3>1, <3>2
  <2>3. QED
        BY <1>9, <2>1, <2>2 DEF LargestOf
<1>15. ASSUME NEW r \in GeonamesRows, r.population > 0, r.name \notin todo'
       PROVE  NamesOf(r.name) \subseteq DOMAIN population'
  <2>1. CASE r.name = name
    <3>1. \A t \in names : t \in grown \/ t \in DOMAIN population
      <4>1. row.population > 0
            BY <1>3, <1>11, <1>15, <2>1
      <4>2. QED
            BY <1>7, <4>1 DEF Lookup
    <3>2. QED
          BY <1>5, <2>1, <3>1 DEF names
  <2>2. CASE r.name # name
        BY <1>4, <1>5, <1>8, <1>15, <2>2
  <2>3. QED
        BY <2>1, <2>2
<1>16. \A t \in DOMAIN population' : \E r \in GeonamesDone(t)' :
         population'[t] = r.population /\ largest'[t] = r.iso /\ LargestOf(r, GeonamesDone(t)')
       BY <1>3, <1>5, <1>6, <1>8, <1>13, <1>14
<1>17. ASSUME NEW t \in DOMAIN largest' PROVE t \in DOMAIN towns' /\ largest'[t] \in towns'[t]
  <2>1. CASE t \in grown
        BY <1>3, <1>4, <1>6, <1>7, <2>1
  <2>2. CASE t \notin grown
    <3>1. t \in DOMAIN towns /\ largest'[t] = largest[t] /\ largest[t] \in towns[t]
          BY <1>6, <1>8, <1>17, <2>2
    <3>2. towns[t] \subseteq towns'[t]
          BY <1>4, <3>1 DEF Lookup
    <3>3. QED
          BY <1>4, <3>1, <3>2
  <2>3. QED
        BY <2>1, <2>2
<1>18. GeonamesInv'
  <2>1. DOMAIN population' \subseteq DOMAIN towns' /\ DOMAIN largest' = DOMAIN population'
        BY <1>4, <1>5, <1>6, <1>7, <1>8
  <2>2. QED
        BY <1>0, <1>15, <1>16, <1>17, <2>1 DEF GeonamesInv, LargestOf
<1>19. OsmInv' /\ MostPopulousTownWins'
       BY <1>0 DEF DbInv, OsmInv, MostPopulousTownWins
<1>00. QED
       BY <1>0, <1>18, <1>19 DEF DbInv

LEMMA AddNoTownKeeps == DbInv /\ AddNoTown => DbInv'
<1> SUFFICES ASSUME DbInv, AddNoTown PROVE DbInv'
    OBVIOUS
<1>1. /\ stage = "geonames" /\ stage' = "same_names" /\ todo = {}
      /\ UNCHANGED <<todo, population, largest, extended, extPopulation, extLargest>>
      BY DEF AddNoTown, extension
<1>2. /\ DOMAIN towns' = DOMAIN towns \cup {NoTown}
      /\ \A t \in DOMAIN towns : t # NoTown => towns'[t] = towns[t]
      BY DEF AddNoTown, Updated
<1>3. \A t : GeonamesDone(t)' = GeonamesDone(t)
      BY <1>1 DEF GeonamesDone, GeonamesOf
<1>4. NoTown \notin DOMAIN largest
      BY <1>1, RowsAssumption DEF DbInv, GeonamesInv, Loading, GeonamesDone, GeonamesOf
<1>5. GeonamesInv'
      BY <1>1, <1>2, <1>3, <1>4 DEF DbInv, GeonamesInv, Loading, LargestOf
<1>6. OsmInv' /\ MostPopulousTownWins'
      BY <1>1 DEF DbInv, OsmInv, MostPopulousTownWins
<1>7. QED
      BY <1>1, <1>5, <1>6 DEF DbInv

LEMMA AddSameNamesKeeps == DbInv /\ AddSameNames => DbInv'
<1> SUFFICES ASSUME DbInv, AddSameNames PROVE DbInv'
    OBVIOUS
<1>1. /\ stage = "same_names" /\ stage' = "osm"
      /\ todo' = IF EnableOsm THEN {r.name : r \in Admitted} \ DOMAIN towns' ELSE {}
      /\ UNCHANGED <<population, extended, extPopulation, extLargest>>
      BY DEF AddSameNames, extension
<1>2. /\ DOMAIN towns' = DOMAIN towns \cup DOMAIN SameNames
      /\ \A t \in DOMAIN SameNames : towns'[t] = Lookup(towns, t, {}) \cup {SameNames[t]}
      /\ \A t \in DOMAIN towns \ DOMAIN SameNames : towns'[t] = towns[t]
      BY DEF AddSameNames, Updated
<1>3. /\ DOMAIN largest' = DOMAIN SameNames \cup DOMAIN largest
      /\ \A t \in DOMAIN largest : largest'[t] = largest[t]
      /\ \A t \in DOMAIN SameNames \ DOMAIN largest : largest'[t] = SameNames[t]
      BY DEF AddSameNames, Updated
<1>4. \A t : GeonamesDone(t)' = GeonamesDone(t)
      BY <1>1 DEF GeonamesDone, GeonamesOf
<1>5. /\ \A r \in GeonamesRows : r.population > 0 => NamesOf(r.name) \subseteq DOMAIN population
      /\ \A t \in DOMAIN population : \E r \in GeonamesDone(t) :
           population[t] = r.population /\ largest[t] = r.iso /\ LargestOf(r, GeonamesDone(t))
      /\ DOMAIN population \subseteq DOMAIN towns /\ DOMAIN largest = DOMAIN population
      /\ \A t \in DOMAIN largest : t \in DOMAIN towns /\ largest[t] \in towns[t]
      BY <1>1 DEF DbInv, GeonamesInv, Loading
<1>6. \A t \in DOMAIN largest' : t \in DOMAIN towns' /\ largest'[t] \in towns'[t]
      BY <1>2, <1>3, <1>5 DEF Lookup
<1>7. GeonamesInv'
  <2>1. \A t \in DOMAIN population' : \E r \in GeonamesDone(t)' :
          population'[t] = r.population /\ largest'[t] = r.iso /\ LargestOf(r, GeonamesDone(t)')
        BY <1>1, <1>3, <1>4, <1>5
  <2>2. DOMAIN population' \subseteq DOMAIN towns'
        BY <1>1, <1>2, <1>5
  <2>3. DOMAIN largest' = DOMAIN population' \cup DOMAIN SameNames
        BY <1>1, <1>3, <1>5
  <2>4. \A t \in DOMAIN SameNames \ DOMAIN population' : largest'[t] = SameNames[t]
        BY <1>1, <1>3, <1>5
  <2>5. QED
        BY <1>1, <1>5, <1>6, <2>1, <2>2, <2>3, <2>4 DEF GeonamesInv, LargestOf
<1>8. OsmInv'
  <2>1. DOMAIN extPopulation = {} /\ DOMAIN extLargest = {} /\ DOMAIN extended = {}
        BY <1>1 DEF DbInv, OsmInv
  <2>2. ASSUME NEW r \in Admitted, EnableOsm, r.name \notin DOMAIN towns' \cup todo' PROVE FALSE
        BY <1>1, <2>2
  <2>3. QED
        BY <1>1, <2>1, <2>2 DEF OsmInv
<1>9. MostPopulousTownWins'
      BY <1>1 DEF MostPopulousTownWins
<1>10. QED
       BY <1>1, <1>7, <1>8, <1>9 DEF DbInv

LEMMA ProcessOsmTownKeeps == DbInv /\ ProcessOsmTown => DbInv'
<1> SUFFICES ASSUME DbInv, ProcessOsmTown PROVE DbInv'
    OBVIOUS
<1>1. PICK name \in todo : \E row \in MostPopulous(Named(Admitted, name)) :
        LET names == IF row.distance = 1 THEN {} ELSE Duplicates(name)
            isos == Isos(Named(Admitted, name))
            before(t) == Lookup(extPopulation, t, 0)
        IN /\ todo' = todo \ {name}
           /\ extLargest' =
                Updated(extLargest, [t \in {t \in names : before(t) <= row.population} |-> row.iso])
           /\ extPopulation' =
                Updated(extPopulation, [t \in names |-> IF before(t) > row.population THEN before(t)
                                                        ELSE row.population])
           /\ extended' =
                Updated(extended, [p \in isos \X names |-> isos \cup Lookup(extended, p, {})])
      BY DEF ProcessOsmTown
<1> DEFINE isos == Isos(Named(Admitted, name))
           before(t) == Lookup(extPopulation, t, 0)
<1>2. PICK row, names :
        /\ row \in MostPopulous(Named(Admitted, name))
        /\ names = IF row.distance = 1 THEN {} ELSE Duplicates(name)
        /\ todo' = todo \ {name}
        /\ extLargest' =
             Updated(extLargest, [t \in {t \in names : before(t) <= row.population} |-> row.iso])
        /\ extPopulation' =
             Updated(extPopulation, [t \in names |-> IF before(t) > row.population THEN before(t)
                                                     ELSE row.population])
        /\ extended' = Updated(extended, [p \in isos \X names |-> isos \cup Lookup(extended, p, {})])
      BY <1>1
<1>3. /\ stage = "osm" /\ UNCHANGED <<stage, towns, population, largest>>
      BY DEF ProcessOsmTown, base
<1>4. /\ row \in Admitted /\ row.name = name /\ row.population \in Nat /\ row.iso \in isos
      /\ \A q \in Admitted : q.name = name => q.population <= row.population
      /\ row.distance \in Distances(name)
      BY <1>2, RowsAssumption DEF MostPopulous, Named, Isos, Admitted, Distances
<1>5. \A q \in Admitted : q.population \in Nat
      BY RowsAssumption DEF Admitted
<1> HIDE DEF isos, before
<1>6. /\ DOMAIN extPopulation' = names \cup DOMAIN extPopulation
      /\ \A t \in names : extPopulation'[t] = IF before(t) > row.population THEN before(t)
                                              ELSE row.population
      /\ \A t \in DOMAIN extPopulation \ names : extPopulation'[t] = extPopulation[t]
      BY <1>2 DEF Updated
<1>7. /\ DOMAIN extLargest' = {t \in names : before(t) <= row.population} \cup DOMAIN extLargest
      /\ \A t \in names : before(t) <= row.population => extLargest'[t] = row.iso
      /\ \A t \in DOMAIN extLargest :
           ~(t \in names /\ before(t) <= row.population) => extLargest'[t] = extLargest[t]
      BY <1>2 DEF Updated
<1>8. /\ DOMAIN extended' = (isos \X names) \cup DOMAIN extended
      /\ \A p \in isos \X names : isos \subseteq extended'[p]
      /\ \A p \in DOMAIN extended : extended[p] \subseteq extended'[p]
      BY <1>2 DEF Updated, Lookup
<1>9. /\ todo \cap DOMAIN towns = {} /\ (~EnableOsm => todo = {})
      /\ \A r \in Admitted :
            (EnableOsm /\ r.name \notin DOMAIN towns \cup todo /\ 1 \notin Distances(r.name)) =>
              Duplicates(r.name) \subseteq DOMAIN extPopulation
      /\ \A t \in DOMAIN extPopulation : \E r \in OsmDone(t) :
            extPopulation[t] = r.population /\ extLargest[t] = r.iso /\ LargestOf(r, SureDone(t))
      /\ DOMAIN extLargest = DOMAIN extPopulation
      /\ \A t \in DOMAIN extLargest : \E p \in DOMAIN extended :
            p[2] = t /\ extLargest[t] \in extended[p]
      BY <1>3 DEF DbInv, OsmInv
<1>10. \A t \in DOMAIN extPopulation : extPopulation[t] \in Nat
       BY <1>5, <1>9 DEF OsmDone, OsmOf
<1>11. \A t : /\ before(t) \in Nat
              /\ t \in DOMAIN extPopulation => before(t) = extPopulation[t]
              /\ t \notin DOMAIN extPopulation => before(t) = 0
       BY <1>10 DEF before, Lookup
<1>12. /\ \A t : OsmOf(t)' = OsmOf(t)
       /\ \A t : OsmDone(t) \subseteq OsmDone(t)' /\ SureDone(t) \subseteq SureDone(t)'
       BY <1>2, <1>3 DEF OsmOf, OsmDone, SureDone
<1>13. ASSUME NEW t, NEW q \in SureDone(t)', q \notin SureDone(t)
       PROVE  q \in Admitted /\ q.population <= row.population /\ t \in names
  <2>1. /\ q \in Admitted /\ q.name = name /\ t \in Duplicates(name) /\ 1 \notin Distances(name)
        BY <1>2, <1>3, <1>13 DEF OsmOf, OsmDone, SureDone
  <2>2. row.distance # 1
        BY <1>4, <2>1
  <2>3. QED
        BY <1>2, <1>4, <2>1, <2>2
<1>14. ASSUME NEW t \in names PROVE row \in OsmDone(t)'
  <2>1. row.distance # 1 /\ t \in Duplicates(name)
        BY <1>2, <1>14
  <2>2. Distances(name) # {1} /\ EnableOsm /\ name \notin DOMAIN towns
        BY <1>4, <1>9, <2>1
  <2>3. QED
        BY <1>2, <1>3, <1>4, <2>1, <2>2 DEF OsmOf, OsmDone
<1>15. ASSUME NEW t, NEW q \in SureDone(t) PROVE t \in DOMAIN extPopulation
       BY <1>9, <1>15 DEF OsmOf, OsmDone, SureDone
<1>16. ASSUME NEW t \in DOMAIN extPopulation'
       PROVE  \E r \in OsmDone(t)' : /\ extPopulation'[t] = r.population /\ extLargest'[t] = r.iso
                                     /\ LargestOf(r, SureDone(t)')
  <2>1. CASE t \in names /\ before(t) <= row.population
    <3>1. extPopulation'[t] = row.population /\ extLargest'[t] = row.iso
          BY <1>4, <1>6, <1>7, <1>11, <2>1
    <3>2. ASSUME NEW q \in SureDone(t) PROVE q.population <= row.population
      <4>1. t \in DOMAIN extPopulation
            BY <1>15, <3>2
      <4>2. q.population <= extPopulation[t] /\ q.population \in Nat
            BY <1>5, <1>9, <3>2, <4>1 DEF LargestOf, SureDone, OsmDone, OsmOf
      <4>3. QED
            BY <1>4, <1>10, <1>11, <2>1, <4>1, <4>2
    <3>3. LargestOf(row, SureDone(t)')
          BY <1>13, <3>2 DEF LargestOf
    <3>4. QED
          BY <1>14, <2>1, <3>1, <3>3
  <2>2. CASE ~(t \in names /\ before(t) <= row.population)
    <3>1. t \in DOMAIN extPopulation /\ (t \in names => before(t) > row.population)
          BY <1>4, <1>6, <1>11, <1>16, <2>2
    <3>2. extPopulation'[t] = extPopulation[t] /\ extLargest'[t] = extLargest[t]
          BY <1>6, <1>7, <1>9, <1>11, <2>2, <3>1
    <3>3. PICK r \in OsmDone(t) :
            extPopulation[t] = r.population /\ extLargest[t] = r.iso /\ LargestOf(r, SureDone(t))
          BY <1>9, <3>1
    <3>4. ASSUME NEW q \in SureDone(t)', q \notin SureDone(t) PROVE q.population <= r.population
      <4>1. q.population <= row.population /\ q.population \in Nat /\ extPopulation[t] > row.population
            BY <1>5, <1>11, <1>13, <3>1, <3>4
      <4>2. QED
            BY <1>4, <1>10, <3>1, <3>3, <4>1
    <3>5. LargestOf(r, SureDone(t)')
          BY <3>3, <3>4 DEF LargestOf
    <3>6. QED
          BY <1>12, <3>2, <3>3, <3>5
  <2>3. QED
        BY <2>1, <2>2
<1>17. ASSUME NEW r \in Admitted, EnableOsm, r.name \notin DOMAIN towns \cup todo',
              1 \notin Distances(r.name)
       PROVE  Duplicates(r.name) \subseteq DOMAIN extPopulation'
  <2>1. CASE r.name = name
    <3>1. row.distance # 1
          BY <1>4, <1>17, <2>1
    <3>2. QED
          BY <1>2, <1>6, <2>1, <3>1
  <2>2. CASE r.name # name
        BY <1>2, <1>6, <1>9, <1>17, <2>2
  <2>3. QED
        BY <2>1, <2>2
<1>18. DOMAIN extLargest' = DOMAIN extPopulation'
  <2>1. \A t \in names : before(t) <= row.population \/ t \in DOMAIN extPopulation
        BY <1>4, <1>11
  <2>2. QED
        BY <1>6, <1>7, <1>9, <2>1
<1>19. ASSUME NEW t \in DOMAIN extLargest'
       PROVE  \E p \in DOMAIN extended' : p[2] = t /\ extLargest'[t] \in extended'[p]
  <2>1. CASE t \in names /\ before(t) <= row.population
    <3>1. <<row.iso, t>> \in isos \X names /\ <<row.iso, t>>[2] = t
          BY <1>4, <2>1
    <3>2. <<row.iso, t>> \in DOMAIN extended' /\ extLargest'[t] \in extended'[<<row.iso, t>>]
          BY <1>4, <1>7, <1>8, <2>1, <3>1
    <3>3. QED
          BY <3>1, <3>2
  <2>2. CASE ~(t \in names /\ before(t) <= row.population)
        BY <1>7, <1>8, <1>9, <1>19, <2>2
  <2>3. QED
        BY <2>1, <2>2
<1>20. OsmInv'
  <2>1. todo' \cap DOMAIN towns = {} /\ (~EnableOsm => todo' = {})
        BY <1>2, <1>9
  <2>2. \A t, r : LargestOf(r, SureDone(t))' <=> LargestOf(r, SureDone(t)')
        BY DEF LargestOf
  <2>3. QED
        BY <1>3, <1>16, <1>17, <1>18, <1>19, <2>1, <2>2 DEF OsmInv, Distances
<1>21. GeonamesInv'
  <2>1. \A t : GeonamesDone(t)' = GeonamesDone(t)
        BY <1>3 DEF GeonamesDone, GeonamesOf
  <2>2. QED
        BY <1>3, <2>1 DEF DbInv, GeonamesInv, Loading, LargestOf
<1>22. MostPopulousTownWins'
       BY <1>3 DEF MostPopulousTownWins
<1>23. QED
       BY <1>3, <1>20, <1>21, <1>22 DEF DbInv

LEMMA MergeKeeps == DbInv /\ Merge => DbInv'
<1> SUFFICES ASSUME DbInv, Merge PROVE DbInv'
    OBVIOUS
<1>1. /\ stage = "osm" /\ stage' = "postcodes" /\ todo = {}
      /\ UNCHANGED <<todo, towns, extended, extPopulation, extLargest>>
      BY DEF Merge, extension
<1>2. /\ \A t \in DOMAIN population : population'[t] = population[t]
      /\ \A t \in DOMAIN extPopulation \ DOMAIN population : population'[t] = extPopulation[t]
      BY DEF Merge, Updated
<1>3. /\ DOMAIN largest' = DOMAIN extLargest \cup DOMAIN largest
      /\ \A t \in DOMAIN largest : largest'[t] = largest[t]
      /\ \A t \in DOMAIN extLargest \ DOMAIN largest : largest'[t] = extLargest[t]
      BY DEF Merge, Updated
<1>4. /\ \A r \in GeonamesRows : r.population > 0 => NamesOf(r.name) \subseteq DOMAIN population
      /\ \A t \in DOMAIN population : \E r \in GeonamesOf(t) :
           population[t] = r.population /\ largest[t] = r.iso /\ LargestOf(r, GeonamesOf(t))
      /\ DOMAIN largest = DOMAIN population \cup DOMAIN SameNames
      /\ \A t \in DOMAIN largest : t \in DOMAIN towns /\ largest[t] \in towns[t]
      /\ \A t \in DOMAIN SameNames \ DOMAIN population : largest[t] = SameNames[t]
  <2>1. \A t : GeonamesDone(t) = GeonamesOf(t)
        BY <1>1 DEF GeonamesDone
  <2>2. QED
        BY <1>1, <2>1 DEF DbInv, GeonamesInv, Loading
<1>5. /\ \A r \in Admitted :
            (EnableOsm /\ r.name \notin DOMAIN towns /\ 1 \notin Distances(r.name)) =>
              Duplicates(r.name) \subseteq DOMAIN extPopulation
      /\ \A t \in DOMAIN extPopulation : \E r \in OsmOf(t) :
            /\ extPopulation[t] = r.population /\ extLargest[t] = r.iso
            /\ \A q \in OsmOf(t) : 1 \notin Distances(q.name) => q.population <= r.population
      /\ DOMAIN extLargest = DOMAIN extPopulation
      /\ \A t \in DOMAIN extLargest : \E p \in DOMAIN extended :
            p[2] = t /\ extLargest[t] \in extended[p]
      BY <1>1 DEF DbInv, OsmInv, OsmDone, SureDone, LargestOf
<1>6. \A t \in DOMAIN population : GeonamesOf(t) # {}
      BY <1>4
<1>7. \A t : OsmOf(t)' = OsmOf(t) /\ GeonamesOf(t)' = GeonamesOf(t)
      BY <1>1 DEF OsmOf, GeonamesOf
<1>8. ASSUME NEW t, GeonamesOf(t) # {}
      PROVE  \E r \in MostPopulous(GeonamesOf(t)) : population'[t] = r.population
                                                    /\ largest'[t] = r.iso
  <2>1. t \in DOMAIN population
        BY <1>4, <1>8 DEF GeonamesOf
  <2>2. QED
        BY <1>2, <1>3, <1>4, <2>1 DEF MostPopulous, LargestOf
<1>9. ASSUME NEW t \in DOMAIN extPopulation, GeonamesOf(t) = {}
      PROVE  \E r \in OsmOf(t) :
               /\ population'[t] = r.population
               /\ largest'[t] = IF t \in DOMAIN SameNames THEN SameNames[t] ELSE r.iso
               /\ \A q \in OsmOf(t) : 1 \notin Distances(q.name) => q.population <= r.population
  <2>1. t \notin DOMAIN population
        BY <1>6, <1>9
  <2>2. population'[t] = extPopulation[t]
        BY <1>2, <2>1
  <2>3. largest'[t] = IF t \in DOMAIN SameNames THEN SameNames[t] ELSE extLargest[t]
        BY <1>3, <1>4, <1>5, <2>1
  <2>4. QED
        BY <1>5, <2>2, <2>3
<1>10. ASSUME NEW t \in DOMAIN largest' PROVE largest'[t] \in Listed(t)
  <2>1. CASE t \in DOMAIN largest
        BY <1>3, <1>4, <2>1 DEF Listed, Lookup
  <2>2. CASE t \in DOMAIN extLargest \ DOMAIN largest
        BY <1>3, <1>5, <2>2 DEF Listed
  <2>3. QED
        BY <1>3, <2>1, <2>2
<1>11. MostPopulousTownWins'
  <2>1. \A t : Listed(t)' = Listed(t)
        BY <1>1 DEF Listed, Lookup
  <2>2. QED
        BY <1>1, <1>5, <1>7, <1>8, <1>9, <1>10, <2>1 DEF MostPopulousTownWins, Distances
<1>12. GeonamesInv' /\ OsmInv'
       BY <1>1 DEF GeonamesInv, OsmInv, Loading
<1>13. QED
       BY <1>1, <1>11, <1>12 DEF DbInv

LEMMA LoadingKeeps == DbInv /\ [LoadNext]_dbVars => DbInv'
<1>1. DbInv /\ LoadPostcodes => DbInv'
      BY DEF LoadPostcodes, DbInv, GeonamesInv, OsmInv, Loading, MostPopulousTownWins
<1>2. ASSUME DbInv, UNCHANGED dbVars PROVE DbInv'
  <2>1. UNCHANGED <<stage, todo, towns, population, largest, extended, extPopulation, extLargest>>
        BY <1>2 DEF dbVars, base, extension
  <2>2. \A t : /\ GeonamesDone(t)' = GeonamesDone(t) /\ OsmOf(t)' = OsmOf(t)
              /\ OsmDone(t)' = OsmDone(t) /\ SureDone(t)' = SureDone(t) /\ Listed(t)' = Listed(t)
        BY <2>1 DEF GeonamesDone, GeonamesOf, OsmOf, OsmDone, SureDone, Listed, Lookup
  <2>3. GeonamesInv'
        BY <1>2, <2>1, <2>2 DEF DbInv, GeonamesInv, Loading, LargestOf
  <2>4. OsmInv'
        BY <1>2, <2>1, <2>2 DEF DbInv, OsmInv, LargestOf
  <2>5. MostPopulousTownWins'
        BY <1>2, <2>1, <2>2 DEF DbInv, MostPopulousTownWins
  <2>6. QED
        BY <1>2, <2>1, <2>3, <2>4, <2>5 DEF DbInv
<1>3. QED
      BY <1>1, <1>2, ProcessTownKeeps, AddNoTownKeeps, AddSameNamesKeeps, ProcessOsmTownKeeps,
         MergeKeeps DEF LoadNext

(* However the rows of the sources come, a name stands for the most        *)
(* populous town that bears it: its population and its country are those   *)
(* of one row, geonames before OpenStreetMap, and the tables list that     *)
(* country for the name (MostPopulousTownWins).                            *)
THEOREM LargestTownForEachName == StructuringSpec => []MostPopulousTownWins
<1>1. StructuringInit => DbInv
      BY InitLoading DEF StructuringInit
<1>2. DbInv /\ [Load \/ Serve]_allVars => DbInv'
      BY LoadingKeeps DEF Load, Serve, Ready, allVars
<1>3. DbInv => MostPopulousTownWins
      BY DEF DbInv
<1>4. QED
      BY <1>1, <1>2, <1>3, PTL DEF StructuringSpec
=============================================================================
