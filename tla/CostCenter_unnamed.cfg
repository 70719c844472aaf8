\* A reconciler that does not default the external name.
SPECIFICATION Spec
CONSTANTS
    c1 = c1
    name = name
    key = key
    low = low
    high = high
    Resources = {c1}
    Keys = {name, key}
    Values = {low}
    EmptyValue = low
    NoKey = NoKey
    NoValue = NoValue
    NameOf <- AllNamed
    Specs <- AllSpecs
    Imports <- AnyName
    NamesDefaulted = FALSE
    MaxFaults = 2
    MaxEdits = 3
\* with no object in the cache and no user about, nothing happens
CHECK_DEADLOCK FALSE
INVARIANTS
    TypeOK
    DeleteIsAddressed
    Bookkeeping
    ClaimedNeverForgotten
PROPERTY
    AbandonedStays
