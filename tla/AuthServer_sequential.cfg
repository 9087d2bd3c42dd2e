SPECIFICATION Spec
CONSTANTS
    None = None
    u1 = u1  u2 = u2  r1 = r1  r2 = r2  r3 = r3  p1 = p1  p2 = p2  p3 = p3
    s1 = s1  s2 = s2  k1 = k1  k2 = k2  k3 = k3
    Users = {u1}
    Requests = {r1}
    Calls = {"login", "verify", "setup", "enable", "disable"}
    Passwords = {p1}
    LongPasswords = {}
    Truncated <- FirstBytes
    Secrets = {s1, s2}
    Codes = {k1, k2}
    InitialTables <- NewTables
    LegacyVerifier = FALSE
    EnableTFA = TRUE
    MaxVerifyAttempts = 1
    BackupCodeCount = 1
    PendingTTL = 1
    MaxTime = 0
INVARIANTS
    PromisedCodesAlwaysWork
