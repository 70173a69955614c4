\* The host alone, three external ingests and one local next peer: two
\* signatures compete for the host's single VM, a VM can be lost and
\* rebuilt, and an actor can expire while another waits.
CONSTANTS
    Host = h
    Workers = {}
    Remote = remote
    k1 = k1
    k2 = k2
    k3 = k3
    Sigs <- MCSigsLive
    Deadline <- MCDeadlineLive
    Verified = {k1, k2}
    Privileged = {k1}
    ActiveWorkers = {}
    Provisioned = {}
    HostPoolSize = 1
    WorkerPoolSize = 1
    Granularity = 2
    MaxTime = 4
    MaxIngests = 3
    MaxHops = 1
    MaxCleanupKeys = 1
    PoolRecreation = FALSE

SPECIFICATION FairSpec
PROPERTY MailboxServed
