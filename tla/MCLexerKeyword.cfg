SPECIFICATION Spec
CONSTANTS
  HighChars <- MCHighChars
  Chars <- MCChars
  Inputs <- MCKeywords
INVARIANT WholeWords
