SPECIFICATION ResetSpec
CONSTANTS
  Agents = {}
  MaxRelease = 1
  Kernels <- MCKernels
  KernelOf <- MCKernelOf
  NoFile = NoFile
  Torn = Torn
  ShipsKernel = FALSE
  Commands = {}
  Faults = {"snapshot"}
  ObeyNotes = TRUE
  Children = {"dom0"}
  Works = {"w1"}
INVARIANTS
  AbortedChangesNothing
CHECK_DEADLOCK FALSE
