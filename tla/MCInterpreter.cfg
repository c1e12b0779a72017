SPECIFICATION Spec
CONSTANTS
  IntMax = 127
  RealMax = 1000
  MaxStackSize = 16
  SizeModulus = 1024
  Words <- MCWords
  CharCode <- MCCharCode
  TextBefore <- MCTextBefore
  Programs <- MCPrograms
  Inputs <- MCInputs
INVARIANT TypeOK
PROPERTY ReturnUnwinds
PROPERTY StoresSpareHeaders
