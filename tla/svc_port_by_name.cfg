\* GetSvcPort resolves a port referenced by name to 0, and any number when both names are empty.
CONSTANTS
    noWeight = noWeight
    noPort = noPort
    notRun = notRun
    NoWeight <- noWeight
    NoPort <- noPort
    NotRun <- notRun
    IngName = "web"
    IngNs = "prod"
    PathStrs <- MCPathStrs
    SvcNames <- MCSvcNames
    Weights <- MCWeights
    PortRefs <- MCPortRefs
    notFound = notFound
    noDefault = noDefault
    NotFound <- notFound
    NoDefault <- noDefault
    PortIngs <- MCPortIngs
    PortRaws <- MCPortRaws
    DefaultCluster <- MCDefaultCluster
    Clusters <- MCClusters
    missing = missing
    Missing <- missing
    BackendRaws <- MCBackendRaws
    AnnotIngs <- SmallIngs
    AnnotRaws <- MCAnnotRaws
    MaxRules = 1
    MaxPaths = 1
SPECIFICATION Spec
INVARIANT BackendPortExposed
CHECK_DEADLOCK FALSE
