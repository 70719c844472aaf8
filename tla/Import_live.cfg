\* Liveness of a group, listed at once, and of a policy boundary, listed in pages.
SPECIFICATION FairSpec
CONSTANTS
    one = one
    two = two
    name = name
    other = other
    third = third
    Resources = {one}
    NameOf <- OneName
    OtherNames = {other, third}
    Paged = {TRUE, FALSE}
    PageSize = 1
    MaxItems = 6
    MaxFaults = 2
    MaxEdits = 3
\* without objects there is nothing to reconcile
CHECK_DEADLOCK FALSE
PROPERTIES
    Served
    DeletionCompletes
