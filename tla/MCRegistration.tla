--------------------------- MODULE MCRegistration ---------------------------
(***************************************************************************)
(* Small instances of Registration for TLC.                                *)
(***************************************************************************)
EXTENDS Registration, TLC

CONSTANTS alice, Alice, mail, good, weak, long

(* Two spellings of one username and an e-mail address, which is offered   *)
(* as a username, too.                                                     *)
LowerOf == [s \in Spellings |-> IF s = Alice THEN alice ELSE s]

Addresses == {mail}

LengthOf == [s \in Spellings |-> IF s \in Addresses THEN 17 ELSE 5]

CharsOf == [s \in Spellings |-> IF s \in Addresses THEN {"letter", "dot", "at"} ELSE {"letter"}]

PasswordLengthOf == [p \in Passwords |-> IF p = long THEN 73 ELSE 11]

PasswordCharsOf ==
    [p \in Passwords |-> IF p = weak THEN {"lower"} ELSE {"upper", "lower", "digit"}]

(* DefaultSettings' requirements, every combination of login methods.      *)
AllMethods ==
    [EnableRegistration: {TRUE}, EnableUsernameLogin: BOOLEAN, EnableEmailLogin: BOOLEAN,
     requirements: {[minLength |-> 8, kinds |-> {"upper", "lower", "digit"}]}]

Symmetry == Permutations(Requests) \cup Permutations(Users)

=============================================================================
