------------------------- MODULE DistributionManager -------------------------
(***************************************************************************)
(* The arithmetic of AaveDistributionManager: how the reward index of one  *)
(* distribution advances with time, and what a position earned between two *)
(* values of the index.  The module is pure; the contracts that inherit    *)
(* from the manager (StakedToken, AaveIncentivesController) keep the state *)
(* and call these operators.                                               *)
(*                                                                         *)
(* A distribution is a record of the storage struct AssetData without its  *)
(* mapping users, which the inheriting modules keep as a function.         *)
(***************************************************************************)
EXTENDS Integers

CONSTANTS
    Scale,             \* 10^PRECISION, the fixed-point unit of an index
    DISTRIBUTION_END   \* second after which nothing is emitted any more

ASSUME DistributionAssumption ==
    /\ Scale \in Nat \ {0}
    /\ DISTRIBUTION_END \in Nat

AssetData == [emissionPerSecond : Nat, lastUpdateTimestamp : Nat, index : Nat]

Earlier(s, t) == IF s > t THEN t ELSE s

\* The seconds of emission between the last update and t; those after the
\* end of the distribution do not count.
TimeDelta(lastUpdateTimestamp, t) ==
    Earlier(t, DISTRIBUTION_END) - lastUpdateTimestamp

\* Fault: the end of the distribution is not tested.
NothingToDistributeOpenEnd(asset, totalBalance, t) ==
    \/ asset.emissionPerSecond = 0
    \/ totalBalance = 0
    \/ asset.lastUpdateTimestamp = t

NothingToDistribute(asset, totalBalance, t) ==
    \/ asset.emissionPerSecond = 0
    \/ totalBalance = 0
    \/ asset.lastUpdateTimestamp = t
    \/ asset.lastUpdateTimestamp >= DISTRIBUTION_END

GetAssetIndex(asset, totalBalance, t) ==
    IF NothingToDistribute(asset, totalBalance, t)
    THEN asset.index
    ELSE (asset.emissionPerSecond * TimeDelta(asset.lastUpdateTimestamp, t) * Scale)
             \div totalBalance
           + asset.index

\* Fault: the same seconds are counted again at the next update.
UpdateAssetStateKeepingTimestamp(asset, totalStaked, t) ==
    [asset EXCEPT !.index = GetAssetIndex(asset, totalStaked, t)]

\* The early return for lastUpdateTimestamp = t changes nothing either way.
UpdateAssetState(asset, totalStaked, t) ==
    [asset EXCEPT !.index = GetAssetIndex(asset, totalStaked, t),
                  !.lastUpdateTimestamp = t]

GetRewards(principalUserBalance, reserveIndex, userIndex) ==
    (principalUserBalance * (reserveIndex - userIndex)) \div Scale

=============================================================================
