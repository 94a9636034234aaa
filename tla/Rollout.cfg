SPECIFICATION Spec
CONSTANTS
    b1 = b1  b2 = b2  e1 = e1  e2 = e2  h1 = h1  h2 = h2  i1 = i1  i2 = i2
    NoImage = NoImage
    Robot = {b1}
    Ecu = {e1, e2}
    Hwid = {h1, h2}
    Image = {i1, i2}
    OwnerOf <- OneOwner
    HwidOf <- OneHwid
    ImageMaps <- OneMaps
    Worker = {w1, w2}
    MaxRollouts = 1
    MaxCrashes = 1
INVARIANTS TypeOK PublishedIsLaunched VerdictIsReal InstalledWasTried
SYMMETRY WorkerSymmetry
