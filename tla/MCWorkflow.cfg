CONSTANTS
  u1 = u1  u2 = u2  u3 = u3  u4 = u4
  e1 = e1  q1 = q1  q2 = q2
  NoUser = NoUser
  Users <- MCUsers
  Entities = {e1}
  Requests <- MCRequests
  Configs <- MCConfigs
  MaxEdits = 1
SYMMETRY MCSymmetry
SPECIFICATION Spec
CHECK_DEADLOCK FALSE
INVARIANTS
  TypeOK
  SegregationOfDuties
  ApprovedRowEndorsed
  LedgerBacksInstance
PROPERTIES
  InstanceIsFinal
  ApprovedContentFrozen
  KeepsPromise
