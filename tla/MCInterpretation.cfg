CONSTANTS
    Call = {c1}
    MaxTechnicalRetries = 2
SPECIFICATION ExecutionSpec
INVARIANT
    RiskyTextStaysHere
PROPERTIES
    ImplementsAIExecution
    ExecutionEnds
CHECK_DEADLOCK FALSE
