CONSTANTS
    t1 = t1
    t2 = t2
    command = command
    driver = driver
    Tasks = {t1, t2}
    Controls = {d1}
    Roles = {command, driver}
    RoleOf <- MCRoleOf
SPECIFICATION FairSpec
CHECK_DEADLOCK FALSE
INVARIANTS TasksCounted JoinIsHonest NoMissedExit JoinedIsFinal
PROPERTIES DrainJoins
