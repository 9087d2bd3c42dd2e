\* Two users with one name each: every narrow operation against updates
\* from copies read before it.
CONSTANTS
    alice = alice
    Alice = Alice
    mail = mail
    None = None
    Users = {u1, u2}
    Passwords = {p1}
    Secrets = {s1}
    Codes = {k1}
    Usernames = {alice}
    Emails = {}
    Lower <- LowerOf
    Refs = {a1, a2, a3, a4}
    MaxAttempts = 1
SYMMETRY RefSymmetry
SPECIFICATION Spec
PROPERTY Implements
