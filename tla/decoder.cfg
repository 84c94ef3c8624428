SPECIFICATION DecoderSpec
CONSTANTS
  Frames <- MCFrames
  Names <- MCNames
  MaxNames = 2
  MaxPackets = 3
CHECK_DEADLOCK FALSE
INVARIANTS FilterSound DecodedTrue
