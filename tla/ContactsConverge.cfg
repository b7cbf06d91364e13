SPECIFICATION Spec
CONSTANTS
  d1 = d1
  d2 = d2
  p1 = p1
  Device = {d1, d2}
  Peer = {p1}
  Name = {1}
  NoMapping = NoMapping
  NoPeer = NoPeer
  NoSnapshot = NoSnapshot
  Passes = {"reconcile"}
  Acts = {"add", "delete", "profile"}
  ActsDuringPass = FALSE
  MaxTime = 3
  MaxActs = 3
  MaxFaults = 0
PROPERTIES
  EventuallySameContacts
  DeleteSticks
  AddSticks

