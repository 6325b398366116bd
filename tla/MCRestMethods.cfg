\* Every method of the REST API, two at a time.
CONSTANTS
    Caller = {c1, c2}
    Id = {i1, i2}
    NoRequest = NoRequest
INIT Init
NEXT Next
SYMMETRY Symmetry
INVARIANTS
    TypeOK
    Together
    Apart
    ReactionsLimited
    ErrorsChangeNothing
    NewMessageAccepted
