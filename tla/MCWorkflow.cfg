SPECIFICATION MCSpec
CONSTANTS
    N = 2
    Retry <- RetryFirst
    Executors = {x1, x2}
    Size = 3
INVARIANTS CompletedRunIsComplete StepsInOrder RevocationStopsRun
           DependenciesFirst ValidatorIsExact
PROPERTIES RunEnds EveryStepIsEmitted
CHECK_DEADLOCK FALSE
