SPECIFICATION Spec
CONSTANTS
    Paths <- MCPaths
    InPlace <- MCInPlace
    Inputs <- MCInputs
INVARIANTS
    RequestIsNotMutated
