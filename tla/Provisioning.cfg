SPECIFICATION Spec
CONSTANTS
    NoRobot = NoRobot
    Cred = {c1}
    Robot = {r1}
    Handler = {h1, h2, h3}
    StrictDelete = TRUE
    MaxRobotCerts = 2
    MaxRestarts = 2
SYMMETRY Handlers
INVARIANTS TypeOK DownloadedOnce StatusIsEarned OneCertificate IdentitiesAreKnown
PROPERTIES RevocationIsFinal
CHECK_DEADLOCK FALSE
