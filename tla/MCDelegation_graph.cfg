SPECIFICATION Spec
CONSTANTS
    h1 = h1
    h2 = h2
    h3 = h3
    h4 = h4
    h5 = h5
    Holders = {h1, h2, h3, h4, h5}
    MaxDepth = 3
SYMMETRY HolderSymmetry
INVARIANTS NoDelegationCycle DepthIsReal
