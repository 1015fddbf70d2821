SPECIFICATION Spec
CONSTANT Projects <- MCImportChain
INVARIANT AnalysedModulesAreImportable
CHECK_DEADLOCK FALSE
