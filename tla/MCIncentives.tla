----------------------------- MODULE MCIncentives -----------------------------
(* Two users of one token, or one user of two tokens with one contract        *)
(* outside the pool and claims that name one token, both, or one twice.       *)
EXTENDS IncentivesController

CONSTANTS dai, weth,
    SHORT_TIME   \* bound: last second in which several tokens are used

MCTokens == {dai, weth}
MCLists == {<<dai, dai>>, <<weth, dai>>}
MCSymmetry == Permutations(Users)

Unused(asset) ==
    /\ assetData[asset].lastUpdateTimestamp = 0
    /\ asset \in PoolTokens => \A u \in Users : poolBalances[asset][u] = 0

Inactive(u) ==
    /\ usersUnclaimedRewards[u] = 0
    /\ \A asset \in Assets : userIndex[asset][u] = 0
    /\ \A token \in PoolTokens : poolBalances[token][u] = 0

\* The accounts of the system itself that claims have named.
Named == {h \in {"REWARDS_VAULT", "PSM"} : paidTo[h] + staked[h] > 0}

MCBound ==
    \/ /\ \A asset \in Assets \ {dai} : Unused(asset)
       /\ Named = {} \/ (now <= SHORT_TIME /\ \E u \in Users : Inactive(u))
    \/ /\ now <= SHORT_TIME /\ Named = {}
       /\ \E u \in Users : Inactive(u)
       /\ Unused(weth) \/ \A s \in Strangers : Unused(s)

=============================================================================
