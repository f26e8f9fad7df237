\* A turn, a side-channel message and a garbled envelope, one worker for
\* turns; any one mishap.
SPECIFICATION Spec
CONSTANTS
  Msgs = {1, 2, 3}
  SideMsgs = {2}
  Garbled = {3}
  ChatOf <- OneChat
  MaxParallel = 1
  LongWaits = TRUE
  MaxMishaps = 1
PROPERTIES
  SideChannelServed
  MessagesLeave
\* The inbox may be empty for good.
CHECK_DEADLOCK FALSE
