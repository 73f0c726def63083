SPECIFICATION FairSpec
CONSTANTS
  Runs = {r1, r2}
  None = None
  Stages <- MCStages
  Steps <- MCSteps
  Prereqs <- MCPrereqs
  Kind <- MCKind
  Within <- MCWithin
  Alias <- MCAlias
  MaxGestures = 6
  MaxTroubles = 1
INVARIANTS
  TypeOK
  UniqueKeys
  MarkersInOrder
  SuccessIsComplete
PROPERTY ButtonsComeBack
CHECK_DEADLOCK FALSE
