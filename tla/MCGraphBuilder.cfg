SPECIFICATION BuilderSpec
CONSTANTS
    x = x
    y = y
    f = f
    g = g
    e = e
    m = m
    i = i
    l = l
    k = k
    p = p
    s0 = s0
    s1 = s1
    Id = {x, y, f, g, e, m, i, l, k, p, s0, s1}
    Symbol = {x, y, f, g, e, m, i, l, k, p}
    StatementIds <- Numbered
    Dependable = {x, y, f, g, e, m, i, l, k}
    DefinedKind = {"Let", "Function", "EnumVariant", "Assert", "Assignment", "Expression"}
    EdgeKind = {"Reference", "Call", "InterfaceDispatch"}
    Span = {1, 2, 3, 4}
    NoSpan = NoSpan
    Other <- Others
    MaxEdges = 2
    Statement <- StatementsUsed
    Expression <- ExpressionsUsed
    Size <- Sizes
    Source <- Sources
    SomeNodes <- NodesWithout
    SomeEdges <- EdgesWithout
CHECK_DEADLOCK FALSE
INVARIANTS
    TablesExact
    ExternalUntilDefined
    OwnersAreInnermost
    NoCycleInEvaluation
PROPERTIES
    DefinitionsStay
    RefiningAgainChangesNothing
