SPECIFICATION Spec
CONSTANTS
    n1 = n1
    n2 = n2
    n3 = n3
    i1 = i1
    i2 = i2
    o1 = o1
    o2 = o2
    Names = {n1, n2, n3}
    Images = {i1, i2}
    Operators = {o1, o2}
    Owner <- DisjointOwners
    StopsFirst = TRUE
SYMMETRY Symmetry
INVARIANTS TypeOK LiveIsInstalled OneImage
PROPERTIES NothingLost LiveKeepsRootfs
