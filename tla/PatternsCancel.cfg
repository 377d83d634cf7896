SPECIFICATION Spec
CONSTANTS
    Workers = {w1, w2}
    NumJobs = 5
    JobCap = 2
    ResultCap = 1
    Procs = {p1, p2, p3}
    NumItems = 4
    Tasks = {t1, t2, t3}
    Nil = Nil
    NumValues = 5
    Floor = 8
    NumLimited = 5
    Permits = 2
INVARIANT FirstErrorCancels
