SPECIFICATION Spec
CONSTANTS
  UART_BUFFER_SIZE = 6
  Char = {97, 98}
  LF = 10
INVARIANTS
  TypeOK
  InSync
PROPERTIES
  LineIsTail
  BehindForGood
