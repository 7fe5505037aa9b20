SPECIFICATION Spec
CONSTANTS
  Inputs = {"base", "tools"}
  Outputs = {"bin", "doc"}
  Kind = "runc"
INVARIANTS WaitMeansOver ResultIsWhole  NoScanOutlivesTheRootfs
PROPERTIES ResultIsFinal CallerReturns
CHECK_DEADLOCK FALSE
