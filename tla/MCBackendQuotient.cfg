SPECIFICATION BackendSpec
CONSTANTS
  IntMax = 127
  RealMax = 20000
  MaxStackSize = 45
  SizeModulus = 1024
  MaxDepth = 15
  Words <- MCWords
  CharCode <- MCCharCode
  TextBefore <- MCTextBefore
  Names <- MCNames
  Folded <- MCFolded
  Sources <- MCQuotient
  Programs = {}
  Inputs <- MCInputs
INVARIANT OutputIsMeaning
