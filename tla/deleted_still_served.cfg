\* clearConf leaves the reload of a deletion to the unlocked watcher, which can lose it.
CONSTANTS
    MainConf = nginxConf
    nginxConf = nginxConf
    ingA = ingA
    g1 = g1
    g2 = g2
    b1 = b1
    Absent = Absent
    ConfSlots <- MCConfSlots
    GoodConf <- MCGoodConf
    BadConf <- MCBadConf
    MaxUpdates = 3
    MaxIOFaults = 0
    MaxDeletes = 1
    BootRace = FALSE
SPECIFICATION Spec
PROPERTY ConfDirHeals
CHECK_DEADLOCK FALSE
