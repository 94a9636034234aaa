SPECIFICATION Spec
CONSTANTS
    r1 = r1  e1 = e1  e2 = e2
    NoRobot = NoRobot
    Robot = {r1}
    Ecu = {e1, e2}
    Payloads <- OneByOne
    Reports <- SomeReports
    Handler = {h1, h2}
    MaxCounter = 2
    MaxSaved = 2
    MaxRestarts = 0
SYMMETRY Handlers
INVARIANTS CountersNeverRepeat
CHECK_DEADLOCK FALSE
