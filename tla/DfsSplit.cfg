CONSTANT PlainSizes <- MCPlainSizes
SPECIFICATION Spec
INVARIANTS
  PiecesPartitionFile
  NoEmptyPiece
