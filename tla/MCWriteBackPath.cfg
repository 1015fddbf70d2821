SPECIFICATION Spec
CONSTANTS
    MaxInt = 9
    Absent = Absent
    Yes = Yes
    No = No
    NoError = NoError
    t = t
    n = n
    red = red
    blue = blue
    Variant = {red, blue}
    Lengths = {1}
    MaxEdits = 2
    Pool <- Enumerations
    Layouts <- Plain
    Source <- Sources
    Edits <- Plans
CHECK_DEADLOCK FALSE
INVARIANT
    PutGet
