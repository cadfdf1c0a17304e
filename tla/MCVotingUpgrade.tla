---------------------------- MODULE MCVotingUpgrade ----------------------------
(* A fresh StakedToken with two users, upgraded at any time.                  *)
EXTENDS VotingUpgrade, TLC

NoBalances == [u \in Users |-> 0]

MCSymmetry == Permutations(Users)

=============================================================================
