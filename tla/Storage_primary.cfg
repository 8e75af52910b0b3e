SPECIFICATION Spec
CONSTANTS
    Disks = {1, 2}
    Intervals = {0, 500, 1000}
    None = None
INVARIANT PrimaryIsAnnounced
