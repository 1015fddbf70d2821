SPECIFICATION Spec
CONSTANTS
    MaxAxioms = 2
    NoPath = NoPath
    Name <- Names
    Option <- Options
    Path <- Paths
    PathOf <- Resolution
    Declared <- Declarations
    TypeOf <- Types
    PackagesOption = "packages"
    Hints <- HintOptions
    Recipes <- RecipeBook
    Value <- Values
    AxiomList <- AxiomLists
    IntentList <- IntentLists
INVARIANTS
    SelectedBelong
    ExpansionIsClosed
    DanglingIsError
    ConstantsAreElaborated
PROPERTIES
    Termination
CHECK_DEADLOCK FALSE
