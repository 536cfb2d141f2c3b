\* Every accepted Ingress of up to two rules of up to two paths is synthesised as its rules say.
CONSTANTS
    noWeight = noWeight
    noPort = noPort
    notRun = notRun
    NoWeight <- noWeight
    NoPort <- noPort
    NotRun <- notRun
    IngName = "web"
    IngNs = "prod"
    PathStrs <- MCPathStrs
    SvcNames <- MCSvcNames
    Weights <- MCWeights
    PortRefs <- MCPortRefs
    notFound = notFound
    noDefault = noDefault
    NotFound <- notFound
    NoDefault <- noDefault
    PortIngs <- MCPortIngs
    PortRaws <- MCPortRaws
    DefaultCluster <- MCDefaultCluster
    Clusters <- MCClusters
    missing = missing
    Missing <- missing
    BackendRaws <- MCBackendRaws
    AnnotIngs <- SmallIngs
    AnnotRaws <- MCAnnotRaws
    MaxRules = 2
    MaxPaths = 2
SPECIFICATION Spec
INVARIANT BackendsMirrorRules
INVARIANT UpstreamResolved
INVARIANT NoEmptyLbRule
INVARIANT RegexConsistent
INVARIANT ExtractOutcome
INVARIANT ListNormalised
INVARIANT ProxyContract
INVARIANT LbBackendsResolve
CHECK_DEADLOCK FALSE
