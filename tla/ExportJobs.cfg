CONSTANTS
    Jobs = {job1}
    Apis = {api1}
    Workers = {worker1, worker2}
    Cancellers = {c1}
    MaxRetries = 2
    MaxQueued = 1
    MaxFaults = 1
    api1 = api1
    worker1 = worker1
    worker2 = worker2
SPECIFICATION Spec
INVARIANTS TypeOK CompletedWasDelivered ActiveIsWorkedOn
SYMMETRY MCWorkerSymmetry
CHECK_DEADLOCK FALSE
