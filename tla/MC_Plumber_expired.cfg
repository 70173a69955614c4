CONSTANTS
    Host = h
    Workers = {w1, w2}
    Remote = remote
    k1 = k1
    k2 = k2
    k3 = k3
    Sigs <- MCSigs
    Deadline <- MCDeadline
    Verified = {k1, k2}
    Privileged = {k1}
    ActiveWorkers = {w1}
    Provisioned = {w1}
    HostPoolSize = 1
    WorkerPoolSize = 1
    Granularity = 2
    MaxTime = 4
    MaxIngests = 2
    MaxHops = 1
    MaxCleanupKeys = 1
    PoolRecreation = FALSE

SPECIFICATION Spec
PROPERTY ExpiredNeverAdmitted
