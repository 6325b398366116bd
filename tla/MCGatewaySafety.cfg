SPECIFICATION Spec
CONSTANTS
    c1 = c1
    c2 = c2
    c3 = c3
    u1 = u1
    u2 = u2
    Conn = {c1, c2}
    User = {u1, u2}
    Calls = {"Open", "Close", "Join"}
    Messages = {"dispatch", "ping", "invalid", "ack", "other"}
    Unexpected = {"reconnect", "invalid", "ack", "other"}
    ShouldReconnectOnError = TRUE
    NoConn = NoConn
    NoProc = NoProc
SYMMETRY Symmetry
INVARIANTS TypeOK Attended Recovering Consistent
PROPERTY LinkSpec
CHECK_DEADLOCK FALSE
