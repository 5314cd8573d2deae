SPECIFICATION Spec
CONSTANTS
    c1 = c1
    c2 = c2
    None = None
    Certs <- MCCerts
    Threads = {1}
    Requests <- MCRequests
    Headers = {"sales", "engineering", ""}
    Strays <- MCStrays
INVARIANTS
    PossessionProved
    IssuedToHolder
    HeaderVerdict
    SchemasAgree
CHECK_DEADLOCK FALSE
