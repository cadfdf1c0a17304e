------------------------------ MODULE MCGovernance ------------------------------
(* Instances of GovernancePowerDelegation that begin with an empty token:      *)
(* three accounts in the first two blocks, two of them in the blocks after,    *)
(* where histories grow.                                                       *)
EXTENDS GovernancePowerDelegation, TLC

CONSTANT LONG_BLOCK   \* bound: first block for which one account is left out

VotingOnly == {VOTING_POWER}

NoBalances == [u \in Users |-> 0]

MCSymmetry == Permutations(Users)

Untouched(u) ==
    /\ balances[u] = 0
    /\ \A type \in Types : delegates[type][u] = ZERO /\ snapshots[type][u] = <<>>

MCBound == blockNumber < LONG_BLOCK \/ \E u \in Users : Untouched(u)

=============================================================================
