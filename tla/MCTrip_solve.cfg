SPECIFICATION Spec
CONSTANTS
    InfW = 3
    Emissions <- SomeEmissions
    Transitions <- SomeTransitions
    MaxObservations = 3
INVARIANTS SolveIsExact BreaksExplainTheFailure
PROPERTY ConvergedPrefixIsStable
CHECK_DEADLOCK FALSE
