SPECIFICATION FairSpec
CONSTANTS
    g1 = g1
    g2 = g2
    g3 = g3
    any = any
    typed = typed
    once = once
    anyOnce = anyOnce
    Goroutine = {g1, g2}
    Handler = {typed, anyOnce}
    OnceHandler = {anyOnce}
    AnyHandler = {anyOnce}
    SyncEvents = FALSE
    Acts = {}
    MaxDepth = 1
    NoOne = NoOne
PROPERTY CallsReturn
CHECK_DEADLOCK FALSE
