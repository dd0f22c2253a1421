\* Six cells, every curve through them (offsets reach past all four borders),
\* three ones in the source, words that do and do not divide the matrix.
SPECIFICATION Spec
CONSTANTS
  Rows = 3
  Cols = 2
  Offset <- MCOffset
  Widths = {2, 4}
  Source = {0, 3, 4}
INVARIANTS
  TypeOK
  NoCellTwice
  TablesValid
  EveryBitOnce
