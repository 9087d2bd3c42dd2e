\* An alphabet of two distinct characters, one of them a space.
CONSTANTS
    a = a
    b = b
    A = A
    B = B
    space = space
    r1 = r1
    Chars = {a, b, A, B, space}
    Lower <- LowerCase
    Spaces = {space}
    Requests = {r1}
    BackupCodeAlphabet <- WithSpace
    BackupCodeCount = 1
    BackupCodeLength = 2
    Texts <- SomeTexts
    MaxEnrolments = 1
SPECIFICATION Spec
INVARIANT IssuedCodesMatch
