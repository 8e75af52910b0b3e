SPECIFICATION FeedbackSpec
CONSTANTS
    MaxRequests = 3
    LastGeneration = 2
INVARIANTS LockFeedbackIsItsOwn
