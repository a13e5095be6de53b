CONSTANTS
    k1 = k1
    k2 = k2
    k3 = k3
    v1 = v1
    
    Keys <- MCKeys2
    Vals <- MCVals
    NoKey = NoKey
    NoVal = NoVal
    Hung = Hung
    MinCap = 8
    HashSpace = 8
SPECIFICATION Spec
SYMMETRY Symmetry
CONSTRAINT CapacityBound
INVARIANT UniqueKeys
