SPECIFICATION Spec
CONSTANTS
  dom0 = dom0
  desktop = desktop
  Workers = {w1, w2}
  Containers = {dom0, desktop}
  Dom0 = dom0
  ImageOrder <- PullOrder
  MaxRelease = 2
  MaxHistory = 2
  Requests <- MCRequests
  Faults = {"wget", "move", "start"}
  Torn = Torn
SYMMETRY WorkerSymmetry
INVARIANT
  ServerTypeOK
PROPERTIES
  FailedStartUndone
  OkIsUpgraded
