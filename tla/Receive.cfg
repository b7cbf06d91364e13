SPECIFICATION Spec
CONSTANTS
  Message = {1, 2}
  Own = {2}
  Enveloped = {1}
  SentAt <- InOrder
  Edit = {1, 2}
  l1 = l1
  l2 = l2
  Lane = {l1, l2}
  DeleteTimes = {1, 2}
  Idle = Idle
  NoRow = NoRow
  MaxDeletes = 1
  MaxRestarts = 2
  MaxFaults = 1
SYMMETRY LaneSymmetry
INVARIANTS
  TypeOK
  GoneIsSealed
PROPERTIES
  KeepsPromise
  ToldOnce
  EditSticks
