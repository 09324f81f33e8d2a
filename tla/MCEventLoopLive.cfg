SPECIFICATION FairSpec
CONSTANTS
    c1 = c1
    c2 = c2
    c3 = c3
    c4 = c4
    Co <- MCThree
    Main = Main
    Fn = Fn
    None = None
    MaxDelay = 1
    MaxGen = 1
PROPERTIES
    PassEnds
