CONSTANTS
    Procs = {p1, p2}
    Plans <- MCPlans
    Sequential <- MCSequential
    MAX_STARTS = 2
    MAX_FAULTS = 1
SPECIFICATION Spec
INVARIANTS ParamsFileWhileVerifying ConfiguredForItsNetwork NoGasLost FailsOnlyForCause ProposalsNameImplementations
PROPERTIES FinishedMeansDeployed FinishedMeansExecuted RegistrationsSurvive EveryTaskEnds
CHECK_DEADLOCK FALSE
