\* Three requests race for the codes of two enrolments, typed in every case.
CONSTANTS
    a = a
    b = b
    A = A
    B = B
    space = space
    r3 = r3
    r2 = r2
    r1 = r1
    Chars = {a, b, A, B, space}
    Lower <- LowerCase
    Spaces = {space}
    Requests = {r1, r2, r3}
    BackupCodeAlphabet <- MixedCase
    BackupCodeCount = 3
    BackupCodeLength = 2
    Texts <- SomeTexts
    MaxEnrolments = 2
SPECIFICATION Spec
INVARIANTS TypeOK CodesAccountedFor IssuedCodesMatch
SYMMETRY Symmetry
