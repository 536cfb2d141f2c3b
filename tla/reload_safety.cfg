\* The reload protocol implements ReloadAbstract, with nginx starting concurrently.
CONSTANTS
    MainConf = nginxConf
    nginxConf = nginxConf
    ingA = ingA
    g1 = g1
    g2 = g2
    b1 = b1
    Absent = Absent
    ConfSlots <- MCConfSlots
    GoodConf <- MCGoodConf
    BadConf <- MCBadConf
    MaxUpdates = 3
    MaxIOFaults = 0
    MaxDeletes = 1
    BootRace = TRUE
SPECIFICATION Spec
PROPERTY ReloadRefinement
CHECK_DEADLOCK FALSE
