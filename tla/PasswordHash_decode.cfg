\* Every list of three items at and around the limits, frames of every kind,
\* legacy hashes, and restarts between the parameters at the limits.
CONSTANTS
    right = right
    long = long
    prefix = prefix
    Passwords = {right, long, prefix}
    PasswordLength <- LengthOf
    Truncated <- FirstBytes
    HashingParams <- SoundParams
    Imported <- SomeImports
    ByteMax = 255
    WordMax = 262143
    MaxMemory = 131072
    MaxIterations = 50
    MaxParallelism = 8
    MinMemory = 32768
    MinIterations = 1
    MinSaltLength = 16
    MinKeyLength = 16
SPECIFICATION Spec
INVARIANTS TypeOK ArgonAsWritten NativeNeverLegacy PasswordKept
