SPECIFICATION Spec
CONSTANTS
    a = a
    b = b
    c = c
    p = p
    q = q
    k = k
    Absent = Absent
    Variable <- Variables
    Path <- Paths
    DeclaredPath <- Paths
    CollectionPath = {q}
    Value <- Values
    NoConstant = {}
    Cost <- Costs
    CostLimit = 2
    Assignment <- EncodedAssignments
    BaselineVariable <- Baselines
    Evaluate <- EvaluateProgram
    AnalysisSuccess = TRUE
    Request <- Requests
INVARIANTS
    TypeOK
    ApplicableIsConfirmed
    RejectionsBounded
    AnswersAreExplained
PROPERTIES
    ProposedInCostOrder
    OnlyDriftedAgain
