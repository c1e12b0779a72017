SPECIFICATION PipelineSpec
CONSTANTS
  Marks <- MCMarks
  Sources <- MCSources
  Asts <- MCAsts
  Trees <- MCTrees
  Commands <- MCCommands
  FileNames <- MCFileNames
  MaxCommands = 3
INVARIANT SavedTreeIsRead
CHECK_DEADLOCK FALSE
