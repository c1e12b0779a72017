SPECIFICATION FrontendSpec
CONSTANTS
  Terminals <- MCTerminals
  Table <- MCTable
  Named <- MCNamed
  Taking <- MCTaking
  Goal = "Program"
  Inputs <- MCInputs
  Programs <- MCPrograms
  Sentences <- MCSentences
  SampleValue <- MCSampleValue
INVARIANT ParserTypeOK
INVARIANT AcceptsSentences
INVARIANT TreeSpellsTokens
INVARIANT RoundTrip
PROPERTY DerivesTokens
PROPERTY Decided
