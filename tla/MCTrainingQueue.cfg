SPECIFICATION Spec
CONSTANTS
    j1 = j1
    j2 = j2
    s1 = s1
    l1 = l1
    l2 = l2
    t1 = t1
    w1 = w1
    w2 = w2
    Job = {j1, j2}
    Session = {s1}
    Tenant = {t1}
    Worker = {w1, w2}
    Launch = {l1, l2}
    BaseJob <- MCBaseJob
    SiblingJobs <- MCSiblingJobs
    SessionOf <- MCSessionOf
    TenantOf <- MCTenantOf
    JobLimit <- MCJobLimit
    Cancellable = {j1}
    Capacity = 1
    MaxActive = 3
    Faults = {"worker_crash", "api_crash", "session_write", "job_write", "job_read"}
    MaxFaults = 1
    NoWorker = NoWorker
INVARIANTS
    TypeOK
    ExclusiveExecution
    OrphansAreDead
    CompletedSessionHasResult
    OneVerdict
    PassedOnlyUnseen
    RunningSessionHasRunner
SYMMETRY WorkerSymmetry
CHECK_DEADLOCK FALSE
