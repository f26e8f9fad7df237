\* Two messages of one chat.
SPECIFICATION Spec
CONSTANTS
  Msgs = {1, 2}
  SideMsgs = {}
  Garbled = {}
  ChatOf <- OneChat
  MaxParallel = 2
  LongWaits = FALSE
  MaxMishaps = 0
PROPERTIES
  ChatOrderKept
\* The inbox may be empty for good.
CHECK_DEADLOCK FALSE
