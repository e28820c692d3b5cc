SPECIFICATION Spec
CONSTANTS
  WordSize = 2
  MinRegionCapacity = 4
  LongModulus = 7
  Letters <- MCLetters
  Keywords <- MCKeywords
  Beyond <- MCBeyond
  Sources <- MCSources
INVARIANTS
  TypeOK
  StringsAreApart
  TokensAreLongestMatches
  TreeSpellsTokens
  NestsByPrecedence
  ParsesWhatWasWritten
PROPERTY
  EveryScanConsumes
  EveryParseConsumes
