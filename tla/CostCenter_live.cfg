\* One resource with a usable spec, as the program sets it up.
SPECIFICATION FairSpec
CONSTANTS
    c1 = c1
    name = name
    key = key
    low = low
    high = high
    Resources = {c1}
    Keys = {name, key}
    Values = {low, high}
    EmptyValue = low
    NoKey = NoKey
    NoValue = NoValue
    NameOf <- AllNamed
    Specs <- UsableSpecs
    Imports <- AnyName
    NamesDefaulted = TRUE
    MaxFaults = 2
    MaxEdits = 2
\* with no object in the cache and no user about, nothing happens
CHECK_DEADLOCK FALSE
INVARIANTS
    Bookkeeping
    ClaimedNeverForgotten
PROPERTIES
    PromiseKept
    AbandonedStays
    Converges
    DeletionCompletes
