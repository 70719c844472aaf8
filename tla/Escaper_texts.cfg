\* Every text of at most six characters, of which one has no meaning.
SPECIFICATION Spec
CONSTANTS
    NUL = "NUL"
    Characters = {"$", "%", "{", "c", "NUL"}
    Fields <- Keys
    Depth = 3
    Inputs <- Parameters
    Length = 6
INVARIANTS
    NoInterpolationEvaluated
    InterpolationsReadLiterally
PROPERTY
    ConvertedOnce
