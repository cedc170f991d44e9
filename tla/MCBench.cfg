SPECIFICATION BenchSpec
CONSTANTS
  NONE = NONE
  Warmup = 1
  Measure = 4
  Intervals = {0, 3}
  PrepareTimes = {0, 1}
  ServiceTimes = {1, 7}
  Delays = {0, 2}
  OVERLOAD_PCT = 50
  MaxNoise = 2
  SAMPLES = 6
  CAP = 2
INVARIANTS NoiseIsFromTheMeasurePhase ScheduleDoesNotDrift OverloadIsTold 
PROPERTY ConsumerLeaves
CHECK_DEADLOCK FALSE
