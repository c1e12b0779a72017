SPECIFICATION Spec
CONSTANTS
  Names <- MCNames
  Folded <- MCFolded
  Identifiers <- MCIdentifiers
  MaxEntries = 3
  MaxBlocks = 4
INVARIANT TypeOK
INVARIANT LinksDescend
INVARIANT LevelsAreDepths
INVARIANT ChainsAreDisjoint
PROPERTY ImplementsScopes
