SPECIFICATION Spec
CONSTANTS
    v1 = v1
    v2 = v2
    d1 = d1
    d2 = d2
    d3 = d3
    app = app
    h1 = h1
    h2 = h2
    r1 = r1
    r2 = r2
    None = None
    Voice = {v1, v2}
    Dial = {d1, d2}
    App = {app}
    Handler = {h1, h2}
    Recon = {r1, r2}
    Deaf = FALSE
    MaxMoves = 3
SYMMETRY Symmetry
CHECK_DEADLOCK FALSE
INVARIANTS TypeOK Exclusive NothingLeft Watched ReadyHasSender
ACTION_CONSTRAINT EndsFirst
