CONSTANTS
  SeqLen = 4
  Lengths = {0, 1}
  BioTags <- MCBioTags
  Sentences <- MCSentences
  TagsToKeep = {"TOWN", "COUNTRY", "POSTAL_CODE"}
SPECIFICATION Spec
INVARIANT SpansTileTheText
