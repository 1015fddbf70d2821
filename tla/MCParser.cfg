SPECIFICATION Spec
CONSTANTS
    Forms <- MCForms
    Alphabet <- MCAlphabet
    Following <- MCFollowing
INVARIANTS
    NothingIsDroppedSilently
    BrokenLineStaysAlone
PROPERTY Termination
CHECK_DEADLOCK FALSE
