CONSTANTS
  NumLines = 3
  ColMax = 2
  AlphaNum = {"a"}
  Others = {" "}
  Commands <- ShortCommands
  ChunkMax = 2
SPECIFICATION Spec
INVARIANTS
  TypeOK
  LineIsConsistent
  PromptIsCurrent
PROPERTIES
  ExecutesTheLine
  ImplementsHistory
