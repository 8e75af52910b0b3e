SPECIFICATION RunSpec
CONSTANTS
    Parts = {"settings"}
    plain = plain
    list = list
    v = v
    Options = {plain, list}
    Lists = {list}
    GlobalOnly = {}
    Values = {Default, v}
    Default = Default
    Absent = Absent
    Bad = Bad
    NoFile = NoFile
    Garbled = Garbled
    Alien = Alien
    NoWrite = NoWrite
    Edits <- FewEdits
    MayRemove = FALSE
    MaxLoadRetries = 1
    MaxEdits = 3
    MaxChanges = 2
    MaxFaults = 0
    s1 = s1
    s2 = s2
    cava = cava
    beat = beat
    r1 = r1
    r2 = r2
    laptop = laptop
    us = us
    Sockets = {1, 2, 3}
    Keyboards = {laptop}
    Keymaps = {us}
    Nil = Nil
    MaxTime = 2
    MaxEvents = 1
    Main = Main
    Nobody = Nobody
    Providers = {cava, beat}
    ServiceRefs = {r1, r2}
    MaxPosted = 3
    BusyFiles = TRUE
    MaxGenerations = 4
    None = None
    Songs = {s1, s2}
    Offsets = {0, 1}
    MaxUser = 4
    ChunkSize = 2
    MaxChunks = 3
    LateTimers = TRUE
    Unit = 2
    IntMin <- SmallestInt
    IntMax = 1
    Numbers <- FewNumbers
    Strings <- FewStrings
    Folded <- WithoutCase
    Enum <- FewKeys
    MaxList = 2
    low = low
    LOW = LOW
    high = high
    other = other
    lo = lo
    eth = eth
    wifi = wifi
INVARIANT ListResetsAreSaved
CHECK_DEADLOCK FALSE
