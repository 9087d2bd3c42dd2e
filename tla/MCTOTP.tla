------------------------------- MODULE MCTOTP -------------------------------
(* Periods of two and three ticks with none to two windows of tolerance.   *)
EXTENDS TOTP

SomeConfigurations ==
    {[Period |-> 2, SkewWindows |-> 1], [Period |-> 3, SkewWindows |-> 0],
     [Period |-> 3, SkewWindows |-> 1], [Period |-> 2, SkewWindows |-> 2]}

SomeDrifts == {-3, -1, 0, 2, 6}

=============================================================================
