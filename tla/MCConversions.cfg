SPECIFICATION Spec
CONSTANTS
  NONE = NONE
  U64 <- TwoU64
  U32 <- TwoU32
  Stamps <- TwoStamps
  Hashes <- TwoHashes
  Bytes = {0, 1, 2, 3, 4, 5, 11, 255}
  Cpu = {0, 1, 2, 3}
  Policies <- FourPolicies
  Topologies <- ThreeTopologies
  Allowed <- Affinities
  Times <- CycleAndEdges
  Labels = {"l1"}
  Regimes = {"back_to_back", "open_loop"}
  Values = {0, 20, 21, 40}
  MaxBase = 1
  MaxCur = 2
  Noises = {0, 5, 50}
INVARIANTS RoundTrip DecodedIsFaithful CleanMeansQuiet PreflightForetells StampIsTheInstant GateIsExact
  DriverIsTheExtreme
CHECK_DEADLOCK FALSE
