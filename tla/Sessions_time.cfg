\* Two requests that overlap, copies, answers late or lost: 2.5 seconds of
\* session, 1.5 seconds of challenge.
CONSTANTS
    None = None
    r1 = r1
    r2 = r2
    Requests = {r1, r2}
    Copied = TRUE
    Second = 2
    SessionExpiration = 5
    PendingSessionTTL = 3
    DefaultTTL = 4
    MaxTime = 7
    MaxChallenges = 1
SPECIFICATION Spec
INVARIANTS TypeOK CookiesExpire KeptWhileUseful LogoutCancels
SYMMETRY Symmetry
CONSTRAINT Bounded
