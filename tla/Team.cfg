\* Two teams, two requests at once, one failure.
SPECIFICATION Spec
CONSTANTS
    Team = {t1, t2}
    User = {u1}
    NoTeam = NoTeam  NoUser = NoUser
    KeyStore = "aws"
    WithRobot = {t1}
    Handler = {h1, h2}
    KeyCount = 2
    MaxFailures = 1
INVARIANTS TypeOK DeletedTeamLeavesNothing TeamsAreWhole AdminsExist
PROPERTIES DeletionCanBeRepeated
CHECK_DEADLOCK FALSE
