\* Three requests, two tasks, one credit; every slot is filled twice.
CONSTANTS
    r1 = r1
    r2 = r2
    r3 = r3
    w1 = w1
    w2 = w2
    G = G
    L = L
    Requests = {r1, r2, r3}
    Workers = {w1, w2}
    Worker <- MCWorker
    Tasks = {G, L}
    Target <- MCTarget
    Logical = {G}
    MaxTasks = 1
    MaxRetries = 1
    MaxLives = 2
    Null = Null
SPECIFICATION FairSpec
INVARIANTS WaitersConsistent AnswersAreTrue SweepFollows
PROPERTIES QuitEnds
CHECK_DEADLOCK FALSE
