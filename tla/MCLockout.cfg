SPECIFICATION Spec
CONSTANTS
    s1 = s1
    s2 = s2
    s3 = s3
    p1 = p1
    p2 = p2
    None = None
    Shells = {s1, s2, s3}
    Pids = {p1, p2}
    StuckAfter = 1
    MaxNow = 2
    MaxSaves = 1
    MaxMarks = 3
SYMMETRY MCSymmetry
INVARIANTS
    MarkerMeansUnfinished
PROPERTIES
    HungIsNotRunAgain
CHECK_DEADLOCK FALSE
