\* Failed passes are retried until every claimed Ingress with rules is served.
CONSTANTS
    i1 = i1
    i2 = i2
    h1 = h1
    h2 = h2
    Hosts <- MCHosts
    Name <- MCName
    Namespace <- MCNamespace
    NoFile = NoFile
    Ingresses <- MCIngresses
    Deleted = Deleted
    Empty = Empty
    MaxEvents = 3
    MaxFailures = 2
    MaxGetErrors = 0
SPECIFICATION Spec
PROPERTY ConfDServedEventually
CHECK_DEADLOCK FALSE
