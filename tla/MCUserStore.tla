---------------------------- MODULE MCUserStore ----------------------------
(***************************************************************************)
(* Small instances of UserStore for TLC.                                   *)
(***************************************************************************)
EXTENDS UserStore, TLC

CONSTANTS alice, Alice, mail

(* Two spellings of one username, and one e-mail address.                  *)
LowerOf ==
    [s \in Spellings |-> IF s = Alice THEN alice ELSE s]

RefSymmetry == Permutations(Refs)

=============================================================================
