SPECIFICATION StoresSpec
CONSTANTS
  Hole = Hole
  Torn = Torn
  Full = {f1, f2}
  Partial = {p1}
  NoPiece = NoPiece
  NoRef = NoRef
  NoCp = NoCp
  Names <- SlotNames
  MaxChunks = 2
  MaxFiles = 8
  MaxObjects = 3
  MaxRev = 2
  FaultModels = {{}, {"read", "sync"}}
SYMMETRY PieceSymmetry
INVARIANTS ReferenceIsFinal DurableBytesSurvive PublishedSurvives ManifestIsTerminal StreamedIsHeld
