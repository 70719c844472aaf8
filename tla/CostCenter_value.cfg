\* Is the value of an existing cost center ever corrected?
SPECIFICATION FairSpec
CONSTANTS
    c1 = c1
    name = name
    key = key
    low = low
    high = high
    Resources = {c1}
    Keys = {name, key}
    Values = {low, high}
    EmptyValue = low
    NoKey = NoKey
    NoValue = NoValue
    NameOf <- AllNamed
    Specs <- ValueSpecs
    Imports <- AnyName
    NamesDefaulted = TRUE
    MaxFaults = 0
    MaxEdits = 2
\* with no object in the cache and no user about, nothing happens
CHECK_DEADLOCK FALSE
PROPERTY
    ValueConverges
