\* A SessionExpiration of half a second.
CONSTANTS
    None = None
    r1 = r1
    Requests = {r1}
    Copied = TRUE
    Second = 2
    SessionExpiration = 1
    PendingSessionTTL = 3
    DefaultTTL = 4
    MaxTime = 7
    MaxChallenges = 1
SPECIFICATION Spec
INVARIANT CookiesExpire
