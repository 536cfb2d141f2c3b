\* Ingress a-b in namespace c and Ingress a in namespace b-c share conf.d/a-b-c.conf; one of them is never served.
CONSTANTS
    i1 = i1
    i2 = i2
    h1 = h1
    h2 = h2
    Hosts <- MCHosts
    Name <- CollidingName
    Namespace <- CollidingNamespace
    NoFile = NoFile
    Ingresses <- MCIngresses
    Deleted = Deleted
    Empty = Empty
    MaxEvents = 2
    MaxFailures = 0
    MaxGetErrors = 0
SPECIFICATION Spec
PROPERTY ConfDServedEventually
CHECK_DEADLOCK FALSE
