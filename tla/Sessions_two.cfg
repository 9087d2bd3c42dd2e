\* Two requests at a time, no copies.
CONSTANTS
    None = None
    r2 = r2
    r1 = r1
    Requests = {r1, r2}
    Copied = FALSE
    Second = 2
    SessionExpiration = 5
    PendingSessionTTL = 3
    DefaultTTL = 4
    MaxTime = 4
    MaxChallenges = 1
SPECIFICATION Spec
INVARIANT LogoutCancels
SYMMETRY Symmetry
