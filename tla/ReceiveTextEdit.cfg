SPECIFICATION Spec
CONSTANTS
  Message = {1, 2}
  Own = {}
  Enveloped = {}
  SentAt <- InOrder
  Edit = {1}
  l1 = l1
  l2 = l2
  Lane = {l1, l2}
  DeleteTimes = {1, 2}
  Idle = Idle
  NoRow = NoRow
  MaxDeletes = 1
  MaxRestarts = 0
  MaxFaults = 0
SYMMETRY LaneSymmetry
PROPERTIES
  EditIsNotDropped
