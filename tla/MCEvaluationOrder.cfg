SPECIFICATION QuerySpec
CONSTANTS
    NodeCount = 4
    MaxReferences = 3
    Node <- Nodes
    EdgeKind <- Kinds
    Graph <- Graphs
INVARIANTS
    TypeOK
    DependenciesFirst
    Complete
    Canonical
    ComponentsInOrder
    CyclesAreReported
PROPERTIES
    ImplementsPromise
CHECK_DEADLOCK FALSE
