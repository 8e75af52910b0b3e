SPECIFICATION RunSpec
CONSTANTS
    Parts = {"locker", "pool", "backoff", "buffer"}
    c1 = c1
    c2 = c2
    c3 = c3
    left = left
    right = right
    p1 = p1
    p2 = p2
    p3 = p3
    narrow = narrow
    wide = wide
    pair = pair
    Dropped = Dropped
    Chars = {narrow, wide, pair}
    Width <- Widths
    Capacity = 8
    MaxInput = 2
    None = None
    Clients = {c1, c2, c3}
    MaxClients = 2
    Outputs = {left, right}
    PromptIds = {p1, p2, p3}
    SlotCount = 2
    BaseDelay = 1
    MaxDelay = 32
    MaxFailures = 5
    MaxMessages = 2
    MaxTime = 100
INVARIANTS
    SecureMeansAnswered
    HoldsAreLive
    SecretsHaveOneHome
    GuessesAreSpaced
    TextsAreKept
PROPERTIES
    OnlyThePasswordOpens
    LockedIsTrue
    ImplementsHeldLock
SYMMETRY Interchangeable
CHECK_DEADLOCK FALSE
