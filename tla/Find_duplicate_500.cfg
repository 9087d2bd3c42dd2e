\* Two registrations of one name at once.
CONSTANTS
    alice = alice
    Alice = Alice
    mail = mail
    good = good
    weak = weak
    long = long
    None = None
    Users = {u1, u2}
    Passwords = {good, weak, long}
    Secrets = {}
    Codes = {}
    Usernames = {alice, Alice, mail}
    Emails = {mail}
    Lower <- LowerOf
    Requests = {r1, r2}
    Configurations <- AllMethods
    Length <- LengthOf
    Chars <- CharsOf
    EmailShaped <- Addresses
    PasswordLength <- PasswordLengthOf
    PasswordChars <- PasswordCharsOf
SYMMETRY Symmetry
SPECIFICATION Spec
INVARIANT DuplicateIsConflict
