SPECIFICATION FairSpec
CONSTANTS
    discovery = discovery
    installer = installer
    n1 = n1
    n2 = n2
    n3 = n3
    Process = {discovery, installer}
    Peeking = {discovery}
    Lasting = {installer}
    Pid = {n1, n2, n3}
    NoPid = NoPid
    MaxReused = 1
    Latest = 3
    MaxCrashes = 1
    MaxJoined = 1
    Unreadable = {}
INVARIANTS TypeOK OneHolder NoFileSkipped OncePerCrash
PROPERTIES VersionGrows SchemaUpdated
