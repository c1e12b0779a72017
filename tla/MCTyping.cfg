SPECIFICATION TypingSpec
CONSTANTS
  IntMax = 127
  RealMax = 20000
  MaxStackSize = 40
  SizeModulus = 1024
  MaxDepth = 10
  Words <- MCWords
  CharCode <- MCCharCode
  TextBefore <- MCTextBefore
  Names <- MCNames
  Folded <- MCFolded
  Sources <- MCSources
  Programs = {}
  Inputs <- MCInputs
INVARIANT NoTypeFault
INVARIANT LoadsAreAssigned
INVARIANT FunctionsReturn
