---------------------------- MODULE MCStakingRounds ----------------------------
(* Two holders with stakes of any history, and a loop that wants a third.    *)
EXTENDS StakingRounds

CONSTANTS u1, u2

MCUsers == {u1, u2}
MCTop10stkAaveHolders == <<u1, u2>>

=============================================================================
