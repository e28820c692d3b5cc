CONSTANTS
  ByteBase = 4
  Letters <- MCLetters
  Keywords <- MCKeywords
  MainName <- MCMainName
  Sources <- MCSources
  MaxTokens = 60
SPECIFICATION FairSpec
INVARIANTS
  TypeOK
  AssemblesAsWritten
  ListingReadsBack
  TargetsAreInstructions
PROPERTIES
  IndexesAreFinal
  EndsUnlessUnderscored
CHECK_DEADLOCK FALSE
