SPECIFICATION FairSpec
CONSTANTS
    j1 = j1
    j2 = j2
    s1 = s1
    s2 = s2
    l1 = l1
    t1 = t1
    w1 = w1
    w2 = w2
    Job = {j1, j2}
    Session = {s1, s2}
    Tenant = {t1}
    Worker = {w1, w2}
    Launch = {l1}
    BaseJob <- MCBaseJob
    SiblingJobs <- MCSiblingJobs
    SessionOf <- MCSessionOf
    TenantOf <- MCTenantOf
    JobLimit <- MCJobLimit
    Cancellable = {}
    Capacity = 1
    MaxActive = 3
    Faults = {"worker_crash", "job_write", "job_read"}
    MaxFaults = 2
    NoWorker = NoWorker
PROPERTIES
    
    EveryJobEnds
    ExecutedAtMostOnce
CHECK_DEADLOCK FALSE
