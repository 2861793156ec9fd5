SPECIFICATION Spec
CONSTANTS
    Calls = {c1, c2, c3, c4}
    MaxRequests = 2
    Window = 2
    MaxTime = 6
SYMMETRY SymmetricCalls
INVARIANT TypeOK
INVARIANT InOrderWindow
INVARIANT AllowedStaysLogged
PROPERTY RefusedForCause
