SPECIFICATION FlappingSpec
CONSTANTS
  NoRow = NoRow
  NoFlush = NoFlush
  NoLoad = NoLoad
  Recipient <- OneChat
  Peer = {"a"}
  Prebuilt = {1,2}
  Operator = {"retry", "clear"}
  MaxRetry = 1
  MaxManual = 1
  MaxCrashes = 1
  MaxSwitches = 0
INVARIANTS
  RecoverableUntilPublished
PROPERTIES
  EventuallyPublished
