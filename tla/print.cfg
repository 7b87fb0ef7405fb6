CONSTANTS
  MaxPieces = 2
  Words = {0, 9, 10, 24, 100, 127, 128, 255}
  LONG = 8
  INT = 4
  BUFFER = 4
SPECIFICATION KprintfSpec
INVARIANTS PrintsFormat
