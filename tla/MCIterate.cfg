SPECIFICATION Spec
CONSTANTS
    c1 = c1
    c2 = c2
    i1 = i1
    i2 = i2
    i3 = i3
    None = None
    Colls <- OneColl
    Items <- ThreeItems
    Cascade <- OneColl
    DestroyBusy = TRUE
    MaxDepth = 3
SYMMETRY Symmetry
CHECK_DEADLOCK FALSE
INVARIANTS
    NextIsLinked
    HeldStays
PROPERTIES
    ImplementsIterations
