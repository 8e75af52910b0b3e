SPECIFICATION FairSpec
CONSTANTS
    Parts = {"stream", "commands", "locker", "settings"}
    t1 = t1
    NoTopic = NoTopic
    NoView = NoView
    c1 = c1
    c2 = c2
    left = left
    plain = plain
    list = list
    v = v
    Default = Default
    Absent = Absent
    Bad = Bad
    NoFile = NoFile
    Garbled = Garbled
    Alien = Alien
    NoWrite = NoWrite
PROPERTIES
    StreamGoesOn
    CommandsEnd
    SlotsAreFreed
    SettingsSettle
CHECK_DEADLOCK FALSE
