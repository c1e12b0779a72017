SPECIFICATION PipelineSpec
CONSTANTS
  Marks <- MCMarks
  Sources <- MCSources
  Asts <- MCAsts
  Trees <- MCTrees
  Commands <- MCCommands
  FileNames <- MCFileNames
  MaxCommands = 3
INVARIANT PipelineTypeOK
INVARIANT TokensReread
INVARIANT TreeReread
INVARIANT MeansTheSource
INVARIANT DoneAsAsked
CHECK_DEADLOCK FALSE
