\* Failed writes in a conf.d slot are repaired: nginx serves every rendering and no -test.conf stays.
CONSTANTS
    MainConf = nginxConf
    nginxConf = nginxConf
    ingA = ingA
    g1 = g1
    g2 = g2
    b1 = b1
    Absent = Absent
    ConfSlots <- MCConfSlots
    GoodConf <- MCGoodConf
    BadConf <- MCBadConf
    MaxUpdates = 3
    MaxIOFaults = 1
    MaxDeletes = 0
    BootRace = FALSE
SPECIFICATION Spec
PROPERTY StagingCleanedEventually
CHECK_DEADLOCK FALSE
