\* One request at a time and no copies.
CONSTANTS
    None = None
    r1 = r1
    Requests = {r1}
    Copied = FALSE
    Second = 2
    SessionExpiration = 5
    PendingSessionTTL = 0
    DefaultTTL = 4
    MaxTime = 9
    MaxChallenges = 3
SPECIFICATION Spec
INVARIANT LogoutAlwaysCancels
