SPECIFICATION PipelineSpec
CONSTANTS
  Node = {n1}
  Binary = {b1}
  Toolchain = {t1}
  Closure <- MCClosure
  Variant = {v1}
  Pkg <- MCPkg
  Tc <- MCTc
  DepBinary = b1
  Modes <- MCModes
  MaxFault = 0
INVARIANTS GatesAreStaged
CHECK_DEADLOCK FALSE
