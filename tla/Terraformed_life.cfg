SPECIFICATION FairSpec
CONSTANTS
    Unset = Unset
    Zero = Zero
    Texts = {a, b}
    a = a
    b = b
    Kinds <- MCKinds
    ExternalNames <- MCNames
    MaxItems = 4
    MaxFaults = 1
    MaxEdits <- MCEdits
\* Without an object, with the bounds used up, nothing has to happen.
CHECK_DEADLOCK FALSE
INVARIANTS
    TypeOK
    NoOrphans
    WholeRequests
PROPERTIES
    SetValuesStay
    PromiseKept
    Converges
    ReferencesFollow
    DeletionCompletes
