CONSTANTS
    k1 = k1
    k2 = k2
    s1 = s1
    s2 = s2
    Keys <- MCKeys
    Strs <- MCCmdStrs
    NoStr = NoStr
    NoEntry = NoEntry
    Nil = Nil
    IntWidth = 2
    MsPerSec = 1
    TimeWidth = 8
    NoDeadline = NoDeadline
    SweepInterval = 2
    SweepSamples = 1
    StartTime = 4
    MaxTime = 6
    MaxListLen = 3
    Secs <- MCCmdSecs
    Ranges <- MCCmdRanges
    NoArg = NoArg
    MaxArgs = 2
    ArgLiterals <- MCArgLiterals
SPECIFICATION Spec_cmd
SYMMETRY Symmetry
VIEW CmdView
PROPERTY PushKeepsAllValues
