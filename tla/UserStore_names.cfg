\* Two users with every combination of names, the attempt counter as the
\* only security state: indexes, letter case, stale and edited copies.
CONSTANTS
    alice = alice
    Alice = Alice
    mail = mail
    None = None
    Users = {u1, u2}
    Passwords = {p1}
    Secrets = {}
    Codes = {}
    Usernames = {alice, Alice}
    Emails = {mail}
    Lower <- LowerOf
    Refs = {a1, a2, a3, a4}
    MaxAttempts = 1
SYMMETRY RefSymmetry
SPECIFICATION Spec
INVARIANTS TypeOK IndexConsistent
PROPERTY Implements
