\* Three set-ups, all their kinds, installed one after the other.
SPECIFICATION FairSpec
CONSTANTS
    Setups <- FewSetups
    Kinds <- FewKinds
    Grants <- GetOrAll
    Installed <- AnyFew
    MaxKinds = 5
    MaxFaults = 1
    MaxEdits = 3
\* a provider whose kinds do not change comes to rest
CHECK_DEADLOCK FALSE
INVARIANTS
    TypeOK
    Gatekeeping
    NamesAreFree
PROPERTIES
    OnlyLostKindsStop
    Serves
