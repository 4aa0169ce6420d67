SPECIFICATION DecoderSpec
CONSTANTS
  Size = 3
  NoSample = NoSample
  None = None
  Disc <- MCDisc
  Seeks <- MCSeeks
  Window = 1
  Sector = 2
  InRate = 2
  OutRate = 3
  Chunk = 2
  Callback = 2
  MaxSeeks = 2
INVARIANTS StreamOK
PROPERTIES LastSeekWins Joined Settles
