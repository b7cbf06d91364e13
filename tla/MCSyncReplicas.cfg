SPECIFICATION Spec
CONSTANTS
  r1 = r1
  r2 = r2
  Replica = {r1, r2}
  Payload = {1, 2}
  Above <- IsAbove
  Times = {0, 1, 2}
  MaxSeen = 3
SYMMETRY ReplicaSymmetry
INVARIANTS
  TypeOK
  OutcomeIsFoldOrderIndependent
  EvidenceIsLatest
  LiveMergesConverge
