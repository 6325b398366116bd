SPECIFICATION FairSpec
CONSTANTS
    c1 = c1
    c2 = c2
    c3 = c3
    u1 = u1
    u2 = u2
    Conn = {c1, c2}
    User = {u1}
    Calls = {"Open"}
    Messages = {"other"}
    Unexpected = {}
    ShouldReconnectOnError = TRUE
    NoConn = NoConn
    NoProc = NoProc
PROPERTY Reconnects
CHECK_DEADLOCK FALSE
