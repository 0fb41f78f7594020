SPECIFICATION MCSpec
CONSTANTS
    Doc = {d1, d2}
    MayFail = TRUE
    MaxUpdates = 3
    Worker = {w1, w2}
    Updater = {u1, u2, u4}
    Deleter = {x1}
    CapID = {k1}
    Attacher = {a1, a2}
    Releaser = {r1, r2}
    Target <- Targets
    d1 = d1
    d2 = d2
    u4 = u4
    k1 = k1
    Uri = {a, b, c}
    Unknown <- Placeholders
    Putter = {p1, p2, p3, p4}
    Job = {p1, p3}
    Remover = {x2, x3}
    Subject <- SubjectOf
    Refs <- References
    a = a
    b = b
    c = c
    p1 = p1
    p2 = p2
    p3 = p3
    p4 = p4
    x3 = x3
CHECK_DEADLOCK FALSE
INVARIANTS LostOnlyToOverlap StaleOnlyToOverlap 
