CONSTANTS
    w1 = w1
    w2 = w2
    u1 = u1
    u2 = u2
    s1 = s1
    s2 = s2
    None = None
    Workers = {w1, w2}
    Users = {u1, u2}
    Profiles <- TwoProfiles
    MimeTypes = {"png", "pdf", "?"}
    Malformed = {"?"}
    AnyType = "*/*"
    SessionIds = {s1, s2}
    Contents <- SomeContents
    MaxRestarts = 1
SPECIFICATION Spec
SYMMETRY Symmetric
INVARIANTS
    AttachedOnce
    AttachedIsVerified
    RecordedOrClosed
    GrantsForTheStarter
CHECK_DEADLOCK FALSE
