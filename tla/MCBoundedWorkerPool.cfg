SPECIFICATION FairSpec
CONSTANTS
    w1 = w1
    w2 = w2
    t1 = t1
    t2 = t2
    t3 = t3
    t4 = t4
    Workers <- MCWorkers
    Tasks <- MCTasks
    Capacity = 2
    None = None
INVARIANTS
    InflightExact
PROPERTIES
    AcceptedEnds
    CloseLeadsToJoin
