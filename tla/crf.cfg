CONSTANTS
  SeqLen = 4
  Lengths = {1, 2, 3, 4}
  BioTags <- MCBioTags
  Sentences <- MCSentences
  TagsToKeep = {"TOWN", "COUNTRY", "POSTAL_CODE"}
SPECIFICATION Spec
INVARIANTS
  TypeOK
  BestPathIsDecoded
  MarginalsAreExact
  NormaliserCountsEveryPath
  SpansTileTheText
  SpansFollowTheTags
  StrictSpansAreEntities
  ConfidenceIsTheProbabilityOfItsTag
