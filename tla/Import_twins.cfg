\* Two policy boundaries of one name.
SPECIFICATION Spec
CONSTANTS
    one = one
    two = two
    name = name
    other = other
    third = third
    Resources = {one, two}
    NameOf <- OneName
    OtherNames = {other}
    Paged = {TRUE}
    PageSize = 1
    MaxItems = 4
    MaxFaults = 2
    MaxEdits = 4
SYMMETRY Alike
\* without objects there is nothing to reconcile
CHECK_DEADLOCK FALSE
INVARIANTS
    TypeOK
    TiedByName
    QuietLookupFinds
PROPERTIES
    RefusedOnlyIfOvertaken
    NothingLeftBehind
