SPECIFICATION Spec
CONSTANTS
    Dom0 = dom0
    Containers = {dom0, desktop}
    MaxRelease = 2
    MaxHistory = 2
    Faults = {"rpm", "image", "delete", "host", "start", "stop", "power"}
INVARIANTS TypeOK AbortUndoes
PROPERTIES HostComesLast ActivateUndoes
