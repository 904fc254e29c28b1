SPECIFICATION ResetSpec
CONSTANTS
  Agents = {a}
  MaxRelease = 1
  Kernels <- MCKernels
  KernelOf <- MCKernelOf
  NoFile = NoFile
  Torn = Torn
  ShipsKernel = TRUE
  Commands = {"upgrade"}
  Faults = {"power", "snapshot"}
  ObeyNotes = FALSE
  Children = {"dom0"}
  Works = {"w1"}
INVARIANTS
  ResetTypeOK
  VolumesPresent
  NextContainersWhole
PROPERTIES
  InUseUntouched
  DisabledIsClean
  CleanedInTheEnd
CHECK_DEADLOCK FALSE
