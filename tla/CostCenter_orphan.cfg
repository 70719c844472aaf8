\* Does deletion with a lost answer leave a cost center behind?
SPECIFICATION Spec
CONSTANTS
    c1 = c1
    name = name
    key = key
    low = low
    high = high
    Resources = {c1}
    Keys = {name, key}
    Values = {low}
    EmptyValue = low
    NoKey = NoKey
    NoValue = NoValue
    NameOf <- AllNamed
    Specs <- OneSpec
    Imports <- AnyName
    NamesDefaulted = TRUE
    MaxFaults = 1
    MaxEdits = 2
\* with no object in the cache and no user about, nothing happens
CHECK_DEADLOCK FALSE
INVARIANT
    NoOrphan
