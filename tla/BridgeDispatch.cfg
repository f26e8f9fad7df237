\* Two turns of one chat and a side-channel message; any one mishap.
SPECIFICATION Spec
CONSTANTS
  Msgs = {1, 2, 3}
  SideMsgs = {3}
  Garbled = {}
  ChatOf <- OneChat
  MaxParallel = 2
  LongWaits = FALSE
  MaxMishaps = 1
INVARIANTS
  TypeOK
  ChatSequential
  RunnersRegistered
  TakenUpOnce
PROPERTIES
  ImplementsChatInbox
\* The inbox may be empty for good.
CHECK_DEADLOCK FALSE
