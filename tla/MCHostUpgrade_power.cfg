SPECIFICATION Spec
CONSTANTS
  Agents = {a}
  MaxRelease = 3
  Kernels <- MCKernels
  KernelOf <- MCKernelOf
  NoFile = NoFile
  Torn = Torn
  ShipsKernel = TRUE
  Commands = {"upgrade"}
  Faults = {"power", "dnf", "delete", "set_default"}
  ObeyNotes = TRUE
INVARIANTS
  TornKernelHasBackup
  SystemsPresent
PROPERTIES
  RunningUntouched
