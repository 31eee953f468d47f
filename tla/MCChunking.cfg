SPECIFICATION Spec
CONSTANTS
  py = py
  Languages = {py}
  Grammars = {py}
  Size = 5
  NodesMax = 3
  NodeTypes = {"other", "class", "function", "interface"}
  Files <- MCFiles
  MinLines = 2
  MaxLines = 3
INVARIANTS
  DeclarationsFound
  ChunksTile
  SharedOnlyByNesting
CHECK_DEADLOCK FALSE
