CONSTANTS
  BatchSize = 2
  MaxSequenceLength = 12
  MaxSamples = 5
  Inputs <- MCInputs
  PostcodeRows <- MCPostcodeRows
  Dublin = {"DUBLIN 2"}
  GeonamesRows <- MCGeonamesRows
  Aliases <- MCAliases
  Lower <- MCLower
  SameNames <- MCSameNames
  OsmRows <- MCOsmRows
  EnableOsm = TRUE
  TownMinimalPopulation = 2
  ForceCountries = {"MC"}
  ForceCountryGroupings = {"alpine", "nordic"}
  CountryGroupings <- MCCountryGroupings
SPECIFICATION StructuringSpec
INVARIANTS
  TypeOK
  EachResultIsOfItsSample
  PostcodesAreThoseOfTheText
  FailureCostsItsBatch
  ReadAheadIsBounded
  MostPopulousTownWins
PROPERTY
  EveryRunEnds
