CONSTANTS
    e1 = e1  e2 = e2  r1 = r1  r2 = r2  r3 = r3  r4 = r4  r5 = r5
    q1 = q1  q2 = q2  q3 = q3  q4 = q4
    Experiments = {e1, e2}
    TaskGone = {e2}
    Runs = {r1, r2, r3}
    ExperimentOf <- TwoExperiments
    VariantOf <- OwnVariants
    RunNumber <- Numbers
    Workers = {w1, w2}
    NoWorker = NoWorker
    NoRun = NoRun
    QueueCap = 1
    Requests = {q1, q2, q3}
    Op <- OpRetry
    Target <- OnThird
    MaxRestarts = 0
    MaxLostClients = 0
SPECIFICATION FairSpec
INVARIANTS
    PendingRunHasJob
    RegistryIsLive
PROPERTIES
    StartedCompletes
