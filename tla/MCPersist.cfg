CONSTANTS
    k1 = k1
    k2 = k2
    s1 = s1
    s2 = s2
    Keys <- MCKeys
    Strs <- MCStrs
    Values <- MCValues
    Deadlines <- MCDeadlines
    NoEntry = NoEntry
    NoFile = NoFile
    NoStr = NoStr
    IntWidth = 2
    StartTime = 5
    MaxTime = 6
    Faults = {"write", "flush", "rename", "crash"}
SPECIFICATION Spec
SYMMETRY Symmetry
VIEW StateView
INVARIANT TypeOK
PROPERTY RestartLoadsOnlySaved
