SPECIFICATION Spec
CONSTANTS
  Containers = {desktop}
  MaxWork = 3
  Faults = {"power", "timeout", "delete", "snapshot"}
INVARIANTS
  LifeTypeOK
  Dom0Startable
  DownAsAsked
PROPERTIES
  StartsAsAsked
  ContainersStopFirst
  MachineFollows
