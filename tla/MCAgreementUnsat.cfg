SPECIFICATION Spec
CONSTANTS
    MaxInt = 2
    Absent = Absent
    Yes = Yes
    No = No
    NoError = NoError
    t = t
    n = n
    y = y
    o = o
    v = v
    z = z
    items = items
    each = each
    other = other
    p = p
    q = q
    w = w
    BodyLength = 2
    Program <- Programs
    Path <- Paths
    TunablePath = {q}
    ListPath = {w}
    Observed = {2}
    Edits <- Proposals
    Fresh <- Unreachables
CHECK_DEADLOCK FALSE
INVARIANT
    UnsatMeansNothingWorks
