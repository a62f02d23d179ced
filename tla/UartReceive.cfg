CONSTANTS
  UART_FRAME_MAX_LEN = 6
  Commands = {OPEN, CLOSE}
  MaxErrors = 1
SPECIFICATION Spec
SYMMETRY CommandSymmetry
INVARIANT TypeOK
PROPERTIES
  CleanFrameTaken
  CommandOfThisLine
  OneErrorHarmless
