CONSTANTS
    e1 = e1  e2 = e2  r1 = r1  r2 = r2  r3 = r3  r4 = r4  r5 = r5
    q1 = q1  q2 = q2  q3 = q3  q4 = q4
    Experiments = {e1}
    TaskGone = {}
    Runs = {r1, r2}
    ExperimentOf <- OneExperiment
    VariantOf <- OwnVariants
    RunNumber <- Numbers
    Workers = {w1}
    NoWorker = NoWorker
    NoRun = NoRun
    QueueCap = 2
    Requests = {q1, q2}
    Op <- OpCancel
    Target <- OnE1
    MaxRestarts = 0
    MaxLostClients = 0
SPECIFICATION Spec
INVARIANT CancelInterruptsAgent
