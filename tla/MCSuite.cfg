SPECIFICATION Spec
CONSTANTS
  NONE = NONE
  Dirs = {d1}
  Labels <- TwoLabels
  Intents <- TwoIntents
  Rates = {0, 2, 7}
  NanosPerSec = 6
  DefaultInterval = 1
  MeasuredRows <- RowsByProcess
  CutFields = {6, 7, 8, 9}
  MaxScenarios <- OneThenTwo
INVARIANTS StampTellsTheLoad ReportIsOneRun GateReadsMeasurements
CHECK_DEADLOCK FALSE
