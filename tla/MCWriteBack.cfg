SPECIFICATION Spec
CONSTANTS
    MaxInt = 9
    Absent = Absent
    Yes = Yes
    No = No
    NoError = NoError
    t = t
    n = n
    red = red
    blue = blue
    Variant = {red, blue}
    Lengths = {1, 2, 3}
    MaxEdits = 2
    Pool <- Literals
    Layouts <- Varied
    Source <- Sources
    Edits <- Plans
CHECK_DEADLOCK FALSE
INVARIANTS
    PutGetOfLiterals
    EditsOfRowsDisjoint
    CommentsKeepOwners
    FormattingSettles
