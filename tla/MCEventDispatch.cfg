SPECIFICATION Spec
CONSTANTS
    g1 = g1
    g2 = g2
    g3 = g3
    any = any
    typed = typed
    once = once
    anyOnce = anyOnce
    Goroutine = {g1, g2}
    Handler = {any, once, anyOnce}
    OnceHandler = {once, anyOnce}
    AnyHandler = {any, anyOnce}
    SyncEvents = TRUE
    Acts = {"add", "remove", "emit"}
    MaxDepth = 2
    NoOne = NoOne
SYMMETRY Symmetry
INVARIANTS TypeOK Registered OnceKept RemovedSilent
CHECK_DEADLOCK FALSE
