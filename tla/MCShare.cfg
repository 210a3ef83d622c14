SPECIFICATION Spec
CONSTANTS
    c1 = c1
    c2 = c2
    i1 = i1
    i2 = i2
    i3 = i3
    None = None
    Colls <- TwoColls
    Items <- TwoItems
    Cascade <- OneColl
    DestroyBusy = FALSE
    MaxDepth = 3
SYMMETRY Symmetry
CHECK_DEADLOCK FALSE
INVARIANTS
    ListsAgree
    RefsAreHeld
    NothingLeft
