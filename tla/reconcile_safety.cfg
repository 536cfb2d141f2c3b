\* Deletes, updates, failed passes and API errors never leave a deleted Ingress's conf.d file behind.
CONSTANTS
    i1 = i1
    i2 = i2
    h1 = h1
    h2 = h2
    Hosts <- MCHosts
    Name <- MCName
    Namespace <- MCNamespace
    NoFile = NoFile
    Ingresses <- MCIngresses
    Deleted = Deleted
    Empty = Empty
    MaxEvents = 4
    MaxFailures = 1
    MaxGetErrors = 1
SPECIFICATION Spec
INVARIANT ConfDRemovedOnDelete
CHECK_DEADLOCK FALSE
