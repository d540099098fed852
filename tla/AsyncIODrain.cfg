SPECIFICATION Spec
CONSTANTS
  FileSize = 5
  Forwards = 2
  Backwards = 1
  Chunk = 2
  ShortSeek = 2
  MaxRead = 2
PROPERTY DrainAssertion
