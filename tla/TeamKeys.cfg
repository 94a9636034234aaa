\* One team with a robot, files for keys, no failures.  The property is violated.
SPECIFICATION Spec
CONSTANTS
    Team = {t1}
    User = {u1}
    NoTeam = NoTeam  NoUser = NoUser
    KeyStore = "files"
    WithRobot = {t1}
    Handler = {h1, h2}
    KeyCount = 2
    MaxFailures = 0
INVARIANT DeletedTeamLeavesNoKey
CHECK_DEADLOCK FALSE
