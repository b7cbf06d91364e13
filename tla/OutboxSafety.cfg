SPECIFICATION Spec
CONSTANTS
  NoRow = NoRow
  NoFlush = NoFlush
  NoLoad = NoLoad
  Recipient <- TwoChats
  Peer = {"a", "b"}
  Prebuilt = {2}
  Operator = {}
  MaxRetry = 1
  MaxManual = 0
  MaxCrashes = 1
  MaxSwitches = 1
INVARIANTS
  TypeOK
  KeptUntilPublished
  AcknowledgedLeavesDisk
  NoFlushAfterAcknowledge
  OneRumorPerLife
  SelfCopyPublished
