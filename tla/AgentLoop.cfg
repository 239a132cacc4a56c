SPECIFICATION FairLoop
CONSTANTS
    s1 = s1
    s2 = s2
    NoLimit = NoLimit
    Server = {s1, s2}
    Installed = {s2}
    MaxCerts = 2
    Endpoints <- MCEndpoints
    BackoffTicks <- MCBackoff
    Cap = 5
    MaxReconnects = {NoLimit, 1}
    Interval = 1
    Timeout = 3
    MaxWire = 4
    MaxMisread = 2
CHECK_DEADLOCK FALSE
INVARIANTS
    RetryPolicy
    PinnedIsServed
PROPERTIES
    ComesBack
