SPECIFICATION Spec
CONSTANTS
  Runs = {r1}
  None = None
  Stages <- MCStages
  Steps <- MCSteps
  Prereqs <- MCPrereqs
  Kind <- MCKind
  Within <- MCWithin
  Alias <- MCAlias
  MaxGestures = 5
  MaxTroubles = 1
PROPERTY NotesKept
CHECK_DEADLOCK FALSE
