\* A Certificate issued after the pass that created it has retried is never copied into the ssl files.
CONSTANTS
    i1 = i1
    i2 = i2
    h1 = h1
    h2 = h2
    Hosts <- MCHosts
    Name <- MCName
    Namespace <- MCNamespace
    NoFile = NoFile
    Ingresses <- MCIngresses
    Deleted = Deleted
    Empty = Empty
    MaxEvents = 1
    MaxFailures = 0
    MaxGetErrors = 0
SPECIFICATION Spec
PROPERTY TlsServedEventually
CHECK_DEADLOCK FALSE
