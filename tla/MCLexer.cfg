SPECIFICATION Spec
CONSTANTS
  HighChars <- MCHighChars
  Chars <- MCChars
  Inputs <- MCInputs
INVARIANT TypeOK
INVARIANT HeldIsLast
INVARIANT NothingLost
INVARIANT LongestMatch
INVARIANT ErrorsAreUnknowns
INVARIANT QuotesRecovered
PROPERTY Finishes
