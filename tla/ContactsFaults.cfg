SPECIFICATION Spec
CONSTANTS
  d1 = d1
  d2 = d2
  p1 = p1
  Device = {d1, d2}
  Peer = {p1}
  Name = {1}
  NoMapping = NoMapping
  NoPeer = NoPeer
  NoSnapshot = NoSnapshot
  Passes = {"reconcile", "publish"}
  Acts = {"add", "delete"}
  ActsDuringPass = TRUE
  MaxTime = 2
  MaxActs = 1
  MaxFaults = 1
PROPERTIES
  EventuallySameContacts
  OldSnapshotReplaced

