SPECIFICATION ServicesSpec
CONSTANTS
  Cameras = {c1, c2, c3}
  InitMayFail = TRUE
  QueryMayFail = TRUE
  Parts = {"library", "eva", "cl", "graphs", "fadas", "rpc"}
  EvaConfigs <- EvaAll
  ClConfigs <- ClAll
  Binaries <- AllBinaries
  MaxInits = 2
  FadasNodeNames = {"n1", "n2"}
  Fds = {1}
  MaxMade = 2
  MaxFaults = 1
  Addresses <- AllAddresses
  Memory = {"m1", "m2"}
  Nothing = "nothing"
  Used <- UsedBy
  Elsewhere = "m1"
  FadasConfigs <- FadasAll
INVARIANTS
  LibraryUpWhileUsed
  CountsCameras
  EvaRunningNodeHolds
  ClHandlesLive
  GraphsFreed
  FadasRunsRegistered
  CallsArriveWhole
PROPERTIES
  EvaLetsGo
  ClLetsGo
  FadasLetsGo
CHECK_DEADLOCK FALSE
