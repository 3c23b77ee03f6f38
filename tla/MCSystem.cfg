SPECIFICATION Spec
CONSTANTS
  Parts = {"pipeline", "submit", "plan", "template", "flood", "settle", "uploader"}
  n1 = n1 n2 = n2 n3 = n3 b1 = b1 b2 = b2 t1 = t1 t2 = t2 v1 = v1 v2 = v2
  x = x y = y x86 = x86 i686 = i686 arm = arm zlib = zlib curl = curl patch = patch gold = gold
  Node = {n1, n2}
  Binary = {b1, b2}
  Toolchain = {t1, t2}
  Closure <- MCClosure
  Variant = {v1, v2}
  Pkg <- MCPkg
  Tc <- MCTc
  DepBinary = b1
  Modes <- MCModes
  MaxFault = 1
  Arch = {x, y}
  Requests <- MCRequests
  MaxEdit = 1
  MaxSubmission = 2
  MaxMishap = 1
  TargetArch = {x86, i686, arm}
  Family <- MCFamily
  Role = {1, 2}
  Ident = {zlib, curl, patch, gold}
  SourceIdent = {patch}
  ToolchainIdent = {gold}
  Drv = {1, 2, 3, 4, 5, 6, 7, 8, 9, 10, 11, 12, 13}
  DrvRole <- MCDrvRole
  StopRole = {3}
  Toolchained = {12}
  CleanSplit <- MCCleanSplit
  DrvReferences <- MCDrvReferences
  Printings <- MCPrintings
  Peer = {n1, n2, n3}
  MaxHop = 1
  MaxDisturbance = 1
  Holder = {n1, n2}
  EnoughK = 2
  MaxPush = 3
  MaxWaiting = 2
  Path = {n1, n2, n3}
  Unpushable = {n3}
  MaxRetries = 2
  MaxTrouble = 3
INVARIANTS
  TypeOK
  BuildsSeeTheirGraph HealthyGatesOpen 
  
  SharedDependenciesAreAwaited
  NothingLeftOver CalibrationRetraces
  PreferredToldOnce
  SeenIsUploaded
PROPERTIES
  PipelineConcludes
  FloodSpreads
CHECK_DEADLOCK FALSE
