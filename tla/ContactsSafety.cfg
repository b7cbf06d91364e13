SPECIFICATION Spec
CONSTANTS
  d1 = d1
  d2 = d2
  p1 = p1
  Device = {d1, d2}
  Peer = {p1}
  Name = {1}
  NoMapping = NoMapping
  NoPeer = NoPeer
  NoSnapshot = NoSnapshot
  Passes = {"reconcile", "publish"}
  Acts = {"add", "delete", "clear", "inbound", "rename", "profile"}
  ActsDuringPass = TRUE
  MaxTime = 2
  MaxActs = 2
  MaxFaults = 0
SYMMETRY DeviceSymmetry
INVARIANTS
  TypeOK
  NoInventedProof
PROPERTIES
  RemovalIsDeleted
  RowDroppedForAdd

