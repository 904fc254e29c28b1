SPECIFICATION Spec
CONSTANTS
  Agents = {a}
  MaxRelease = 3
  Kernels <- MCKernels
  KernelOf <- MCKernelOf
  NoFile = NoFile
  Torn = Torn
  ShipsKernel = TRUE
  Commands = {"upgrade"}
  Faults = {"power"}
  ObeyNotes = TRUE
INVARIANTS
  RunsOwnKernel
