\* clearConf of one Ingress resets the default backend another still declares.
CONSTANTS
    i1 = i1
    i2 = i2
    h1 = h1
    h2 = h2
    Hosts <- MCHosts
    Name <- MCName
    Namespace <- MCNamespace
    NoFile = NoFile
    Ingresses <- MCIngresses
    Deleted = Deleted
    Empty = Empty
    MaxEvents = 3
    MaxFailures = 0
    MaxGetErrors = 0
SPECIFICATION Spec
INVARIANT DefaultBackendKept
CHECK_DEADLOCK FALSE
