\* HashingParams below VerifyPassword's minimum.
CONSTANTS
    right = right
    long = long
    prefix = prefix
    Passwords = {right, long, prefix}
    PasswordLength <- LengthOf
    Truncated <- FirstBytes
    HashingParams <- WeakParams
    Imported <- OnlyBcrypt
    ByteMax = 255
    WordMax = 262143
    MaxMemory = 131072
    MaxIterations = 50
    MaxParallelism = 8
    MinMemory = 32768
    MinIterations = 1
    MinSaltLength = 16
    MinKeyLength = 16
SPECIFICATION Spec
INVARIANT PasswordKept
