SPECIFICATION Spec
CONSTANTS
    Ids = {1, 2, 3, 4, 5, 6, 7}
    NumVariants = 2
    Weights <- SomeWeights
    Hundred = 4
    BatchSize = 2
    MaxChurn = 2
CHECK_DEADLOCK FALSE
INVARIANTS
    ExactlyOnceWhenQuiet
    SampleSizesWhenQuiet
    MissedBounded
    RepeatsBounded
