SPECIFICATION Spec
CONSTANTS
  Requests = {r1, r2, r3}
  Keys = {k1}
  Devices = {d1, d2}
  None = None
  Expiries = {1, 3}
  Threshold = 2
  MaxAttempts = 3
  MaxTime = 3
  MaxBeats = 1
  MaxFaults = 1
INVARIANTS
  TypeOK
  SentOnce
  RecordTells
PROPERTIES
  ResultStays
SYMMETRY MCSymmetry
