\* Valid renderings are eventually served, across retries and SHA1 short-circuits.
CONSTANTS
    MainConf = nginxConf
    nginxConf = nginxConf
    ingA = ingA
    g1 = g1
    g2 = g2
    b1 = b1
    Absent = Absent
    ConfSlots <- MCConfSlots
    GoodConf <- MCGoodConf
    BadConf <- MCBadConf
    MaxUpdates = 3
    MaxIOFaults = 0
    MaxDeletes = 0
    BootRace = FALSE
SPECIFICATION Spec
PROPERTY EventuallyServed
CHECK_DEADLOCK FALSE
