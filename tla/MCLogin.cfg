SPECIFICATION Spec
CONSTANTS
    s1 = s1  s2 = s2  s3 = s3  h1 = h1  h2 = h2  alice = alice  bob = bob  None = None
    Sessions = {s1, s2, s3}
    Hosts = {h1, h2}
    Names = {alice}
    HostOf <- TwoHosts
    Stored = {}
    Hashless = {}
    Denied = {h2}
    WithPassword = {}
    maxTotalConns = 2
    maxIPConns = 2
    MaxFailures = 2
    BlockAfter = 2
    ChanCap = 2
    MaxLines = 1
INVARIANTS
    TypeOK
    CountersMatch
    KnowsPassword
PROPERTIES
    PresenceSpec
CHECK_DEADLOCK FALSE
