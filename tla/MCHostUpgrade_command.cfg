SPECIFICATION Spec
CONSTANTS
  Agents = {a}
  MaxRelease = 3
  Kernels <- MCKernels
  KernelOf <- MCKernelOf
  NoFile = NoFile
  Torn = Torn
  ShipsKernel = FALSE
  Commands = {"upgrade", "rollback"}
  Faults = {"dnf", "snapshot", "delete"}
  ObeyNotes = TRUE
INVARIANTS
  TypeOK
  DefaultComplete
  RunsOwnKernel
PROPERTIES
  ImplementsAtomicUpgrade
