SPECIFICATION Spec
CONSTANTS
  Containers = {desktop}
  MaxWork = 1
  Faults = {"power"}
INVARIANT
  OnlyWhenAsked
