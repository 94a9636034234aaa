SPECIFICATION Spec
CONSTANTS
    b1 = b1  b2 = b2  e1 = e1  e2 = e2  h1 = h1  h2 = h2  i1 = i1  i2 = i2
    NoImage = NoImage
    Robot = {b1, b2}
    Ecu = {e1, e2}
    Hwid = {h1, h2}
    Image = {i1, i2}
    OwnerOf <- MixedOwner
    HwidOf <- MixedHwid
    ImageMaps <- MixedMaps
    Worker = {w1}
    MaxRollouts = 1
    MaxCrashes = 1
PROPERTIES StatusMonotone PendingIsProcessed ReportedIsCompleted RolloutCompletes
