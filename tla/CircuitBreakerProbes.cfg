SPECIFICATION Spec
CONSTANTS
    Callers = {c1, c2, c3}
    Threshold = 2
    OpenTimeout = 1
INVARIANT ProbesAreFew
