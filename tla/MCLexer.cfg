SPECIFICATION FairSpec
CONSTANTS
  Chars = {"i", "f", "0", "-", ">", "|", "quote", "'", "backslash", "newline", "#", "return", "@"}
  MaxLength = 4
INVARIANT TypeOK
INVARIANT LongestToken
INVARIANT PlainLiteralsAsDocumented
INVARIANT OnlyBlanksDropped
INVARIANT LineOfToken
PROPERTY LookaheadIsTransparent
PROPERTY ScanEnds
