\* A SIGHUP that fails during nginx start-up is never retried.
CONSTANTS
    MainConf = nginxConf
    nginxConf = nginxConf
    ingA = ingA
    g1 = g1
    g2 = g2
    b1 = b1
    Absent = Absent
    ConfSlots <- MCConfSlots
    GoodConf <- MCGoodConf
    BadConf <- MCBadConf
    MaxUpdates = 2
    MaxIOFaults = 0
    MaxDeletes = 0
    BootRace = TRUE
SPECIFICATION Spec
PROPERTY EventuallyServed
CHECK_DEADLOCK FALSE
