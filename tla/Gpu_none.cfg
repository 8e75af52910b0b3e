SPECIFICATION GpuSpec
CONSTANTS
    BusyFiles = FALSE
    MaxGenerations = 2
INVARIANT NoneHasNoUsage
