SPECIFICATION Spec
CONSTANTS
    c1 = c1
    c2 = c2
    c3 = c3
    c4 = c4
    Co <- MCFour
    Main = Main
    Fn = Fn
    None = None
    MaxDelay = 1
    MaxGen = 1
SYMMETRY MCSymmetry
INVARIANT
    NeverGetsHere
