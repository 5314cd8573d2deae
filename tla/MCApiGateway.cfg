SPECIFICATION GatewaySpec
CONSTANTS
    MaxChanges = 2
    Null = Null
    Limit = 3
    MaxLines = 4
    HeaderNames = {"accept", "cookie", "x_fapi_a"}
    Stripped = {"cookie", "x_fapi_a"}
    Args = {"q", "Access-Token"}
    TokenArgs = {"Access-Token"}
CHECK_DEADLOCK FALSE
INVARIANTS ExactScope ReviewAgrees HeaderBoundary
