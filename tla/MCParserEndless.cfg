SPECIFICATION Spec
CONSTANTS
    Forms <- MCClosures
    Alphabet <- MCAlphabet
    Following <- MCFollowing
PROPERTY FollowingStatementIsParsed
CHECK_DEADLOCK FALSE
