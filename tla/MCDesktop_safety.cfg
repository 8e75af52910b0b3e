SPECIFICATION RunSpec
CONSTANTS
    Parts = {"stream", "commands", "feedback"}
    Topics = {t1, t2}
    NoTopic = NoTopic
    NoView = NoView
    MaxGeneration = 3
    MaxRepeats = 1
    MinimumRetryMs = 1
    MaximumRetryMs = 4
    AttemptCap = 2
    MaxRequests = 3
    LastGeneration = 3
SYMMETRY TopicSymmetry
INVARIANTS
    CoherentView
    RetriesAreSound
    AttemptsAreSound
    NothingPendingForever
PROPERTIES
    StreamMovesOn
    ImplementsView
    StepsAreHonest
    ImplementsIntent
