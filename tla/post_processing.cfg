CONSTANTS
  AllPossibilitiesCountry <- MCCountries
  Alpha2ToAlpha2 <- MCCodes
  AllPossibilitiesTown <- MCTowns
  ExtendedAllPossibilitiesTown <- MCExtendedTowns
  CountriesOverrides = {"C"}
  Short = {"A", "AB", "UP"}
  Tolerance = 1
  Population <- MCPopulation
  LargestCountry <- MCLargestCountry
  Provinces <- MCProvinces
  CommonProvinces = {}
  PostcodeAliases <- MCPostcodeAliases
  SameName <- MCSameName
  Plain <- MCPlain
  Samples <- MCSamples
  NumResults = 2
SPECIFICATION Spec
INVARIANTS
  TypeOK
  ForcedSuggestionIsTheOnlyCountry
  SuggestedCountryIsOffered
  SuggestionOpensItsTowns
  NoMatchIsLost
  BestPairIsKept
  RepliedPairsFit
  SupportIsMutual
  NestedCountryIsNoAnswer
