SPECIFICATION MainSpec
CONSTANTS
  TssBase <- MCTssBase
  Madts <- MCMadts
  Rsdts <- MCRsdts
  Checksums = {256, 511}
  Blank = 0
  lowercase <- MCLowercase
  Releases = {30}
  KeyCount = 2
  Buffers <- MCBuffers
  INT_MAX = 9
  Messages <- MCMessages
INVARIANTS DescriptorsRight WalkInStep IoapicRead CursorOnScreen KeyLineRight KeysOnScreen
PROPERTIES BootEnds
