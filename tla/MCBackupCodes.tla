--------------------------- MODULE MCBackupCodes ---------------------------
(***************************************************************************)
(* Small instances of BackupCodes for TLC: two letters in two cases and a  *)
(* space, codes of two characters, typed with space around them or not.    *)
(***************************************************************************)
EXTENDS BackupCodes, TLC

CONSTANTS a, b, A, B, space

LowerCase == [c \in Chars |-> IF c = A THEN a ELSE IF c = B THEN b ELSE c]

MixedCase == <<A, b>>

WithSpace == <<A, space>>

Pads == {<<>>, <<space>>}

SomeTexts ==
    {left \o core \o right : left \in Pads, core \in [1..2 -> Chars], right \in Pads}
    \cup Pads \cup {<<a>>, <<B>>}

Symmetry == Permutations(Requests)

=============================================================================
