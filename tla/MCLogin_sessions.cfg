\* Three requests at once, two sessions, a lock and a session of two instants.
CONSTANTS
    h1 = h1  h2 = h2  h3 = h3  s1 = s1  s2 = s2
    None = None
    Handlers = {h1, h2, h3}
    Sids = {s1, s2}
    MaxLoginFails = 2
    LoginLockTime = 2
    SessionTTL = 3
    MaxTime = 6
SPECIFICATION Spec
SYMMETRY Symmetry
INVARIANTS
    LimitMeansLock
    AttemptsBounded
PROPERTIES
    LogoutSticks
