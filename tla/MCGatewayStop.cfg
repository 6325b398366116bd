SPECIFICATION SchedSpec
CONSTANTS
    c1 = c1
    c2 = c2
    c3 = c3
    u1 = u1
    u2 = u2
    Conn = {c1, c2}
    User = {u1}
    Calls = {"Open", "Close"}
    Messages = {"reconnect", "garbled"}
    Unexpected = {}
    ShouldReconnectOnError = FALSE
    NoConn = NoConn
    NoProc = NoProc
PROPERTY LoopsEnd
CHECK_DEADLOCK FALSE
