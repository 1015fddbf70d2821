SPECIFICATION FairSpec
CONSTANT Projects <- MCProjects
INVARIANT NearestDeclarationWins
INVARIANT ObligationsHold
INVARIANT StopsOnlyWhenStuck
INVARIANT WellTypedProgramsDoNotFault
PROPERTY AnalysisTerminates
CHECK_DEADLOCK FALSE
