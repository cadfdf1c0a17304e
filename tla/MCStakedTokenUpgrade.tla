-------------------------- MODULE MCStakedTokenUpgrade --------------------------
(* Two users of stkAAVE through an old period, a gap, the upgrade at any time  *)
(* in it or after it, and the end of the new period.                          *)
EXTENDS StakedTokenUpgrade, TLC

CONSTANTS u1, u2

MCUsers == {u1, u2}
MCRecipients == {SELF}
MCSymmetry == Permutations(MCUsers)

=============================================================================
