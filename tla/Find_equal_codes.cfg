\* Two of the codes drawn for a user may be equal.
CONSTANTS
    a = a
    b = b
    A = A
    B = B
    space = space
    r1 = r1
    Chars = {a, b, A, B, space}
    Lower <- LowerCase
    Spaces = {space}
    Requests = {r1}
    BackupCodeAlphabet <- MixedCase
    BackupCodeCount = 2
    BackupCodeLength = 2
    Texts <- SomeTexts
    MaxEnrolments = 1
SPECIFICATION Spec
INVARIANT EachCodeOnce
