---------------------- MODULE StakedTokenExtensionProofs ----------------------
(***************************************************************************)
(* Theorems about what is built on StakedToken: StakedTokenUpgrade, which  *)
(* extends the distribution, and StakedTokenV2, the contract as a whole.   *)
(* What StakedTokenProofs shows of the staking core is used in both.       *)
(***************************************************************************)
EXTENDS StakedTokenUpgrade, StakedTokenV2, StakedTokenProofs

----------------------------------------------------------------------------
(* StakedTokenUpgrade: the upgrade of stkAAVE never creates rewards, for every *)
(* value of the constants.  What StakedTokenProofs proves about a step of the  *)
(* staking core holds of both implementations, once for each DISTRIBUTION_END. *)

NewLedger == INSTANCE StakedTokenProofs WITH DISTRIBUTION_END <- NEW_DISTRIBUTION_END

\* The assumptions hold of the new end as well.
LEMMA NewAssumption ==
    /\ Scale \in Nat \ {0} /\ NEW_DISTRIBUTION_END \in Nat
    /\ NewLedger!StakedTokenAssumption
<1>1. Holders = NewLedger!Holders
  BY DEF Holders, NewLedger!Holders
<1>2. IsFiniteSet(Users) <=> NewLedger!IsFiniteSet(Users)
  BY DEF IsFiniteSet, NewLedger!IsFiniteSet
<1> QED BY <1>1, <1>2, DistributionAssumption, UpgradeAssumption, StakedTokenAssumption
        DEF NewLedger!StakedTokenAssumption

----------------------------------------------------------------------------
(* What does not depend on the end is the same in both. *)

LEMMA SameSum ==
    ASSUME NEW f
    PROVE  NewLedger!SumFunction(f) = SumFunction(f) /\ New!SumFunction(f) = SumFunction(f)
  BY DEF SumFunction, SumFunctionOnSet, FoldFunctionOnSet, MapThenFoldSet,
         NewLedger!SumFunction, NewLedger!SumFunctionOnSet, NewLedger!FoldFunctionOnSet,
         NewLedger!MapThenFoldSet, New!SumFunction, New!SumFunctionOnSet,
         New!FoldFunctionOnSet, New!MapThenFoldSet

LEMMA SameClockInv == NewLedger!ClockInv <=> ClockInv
  BY DEF ClockInv, TypeOK, CooldownImpliesBalance, CooldownIsOwn, Tokens, Holders,
         AssetData, NewLedger!ClockInv, NewLedger!TypeOK,
         NewLedger!CooldownImpliesBalance, NewLedger!CooldownIsOwn,
         NewLedger!Tokens, NewLedger!Holders, NewLedger!AssetData

LEMMA SameBacked == NewLedger!Backed <=> Backed
  BY SameSum DEF Backed, NewLedger!Backed

LEMMA SameNext == New!Next <=> NewLedger!Next
  BY DEF New!Next, New!Stake, New!Redeem, New!Cooldown, New!ClaimRewards,
         New!Transfer, New!ConfigureAssets, New!Tick, New!Callers,
         New!UpdateCurrentUnclaimedRewards, New!UpdateUsersAsset,
         New!UnclaimedRewards, New!AccruedRewards, New!CurrentIndex,
         New!GetAssetIndex, New!NothingToDistribute, New!TimeDelta,
         New!Earlier, New!UpdateAssetState, New!GetRewards,
         New!AverageIsDefined, New!GetNextCooldownTimestamp,
         New!MinimalValidCooldownTimestamp, New!EffectiveSender,
         New!WeightedAverage, New!InUnstakeWindow, New!CooldownAfterRedeem,
         New!CooldownAfterSending, New!AmountToRedeem, New!SettledByTransfer,
         New!Mint, New!Burn, New!MoveBalance, New!MoveFunds, New!historyVars,
         NewLedger!Next, NewLedger!Stake, NewLedger!Redeem,
         NewLedger!Cooldown, NewLedger!ClaimRewards, NewLedger!Transfer,
         NewLedger!ConfigureAssets, NewLedger!Tick, NewLedger!Callers,
         NewLedger!UpdateCurrentUnclaimedRewards, NewLedger!UpdateUsersAsset,
         NewLedger!UnclaimedRewards, NewLedger!AccruedRewards,
         NewLedger!CurrentIndex, NewLedger!GetAssetIndex,
         NewLedger!NothingToDistribute, NewLedger!TimeDelta,
         NewLedger!Earlier, NewLedger!UpdateAssetState, NewLedger!GetRewards,
         NewLedger!AverageIsDefined, NewLedger!GetNextCooldownTimestamp,
         NewLedger!MinimalValidCooldownTimestamp, NewLedger!EffectiveSender,
         NewLedger!WeightedAverage, NewLedger!InUnstakeWindow,
         NewLedger!CooldownAfterRedeem, NewLedger!CooldownAfterSending,
         NewLedger!AmountToRedeem, NewLedger!SettledByTransfer,
         NewLedger!Mint, NewLedger!Burn, NewLedger!MoveBalance,
         NewLedger!MoveFunds, NewLedger!historyVars

----------------------------------------------------------------------------
(* The invariant: the ledger of the implementation that runs is in order. *)

UpgradeInv ==
    /\ ClockInv
    /\ Backed
    /\ implementation \in Implementations
    /\ lastInitializedRevision = implementation
    /\ implementation = V2 => Owed
    /\ implementation = V2_REV3 => NewLedger!Owed

LEMMA InitUpgradeInv == InitUpgrade => UpgradeInv
  BY InitClockInv, InitBacked, InitOwed
     DEF InitUpgrade, UpgradeInv, Implementations, V2, V2_REV3

LEMMA RunV2Inv ==
    ASSUME UpgradeInv, RunV2
    PROVE  UpgradeInv'
<1>1. ClockInv /\ Backed /\ Owed /\ [Next]_vars
  BY DEF UpgradeInv, RunV2
<1>2. ClockInv' /\ Backed'
  BY <1>1, NextClockInv, NextBacked
<1>3. Owed'
  BY <1>1, <1>2, NextOwed
<1> QED BY <1>2, <1>3 DEF UpgradeInv, RunV2, proxyVars, V2, V2_REV3

\* A step of the new implementation keeps its ledger: the lemmas of
\* StakedTokenProofs, for the new end.
LEMMA NewStepInv ==
    ASSUME ClockInv, Backed, NewLedger!Owed, New!Next
    PROVE  ClockInv' /\ Backed' /\ NewLedger!Owed'
<1>1. NewLedger!ClockInv /\ NewLedger!Backed /\ [NewLedger!Next]_NewLedger!vars
  BY SameClockInv, SameBacked, SameNext
<1>2. NewLedger!ClockInv'
  BY <1>1, NewLedger!NextClockInv, NewAssumption
<1>3. NewLedger!Backed'
  BY <1>1, NewLedger!NextBacked, NewAssumption
<1>4. NewLedger!Owed'
  BY <1>1, <1>2, <1>3, NewLedger!NextOwed, NewAssumption
<1> QED BY <1>2, <1>3, <1>4, SameClockInv, SameBacked, PTL

LEMMA RunV2Rev3Inv ==
    ASSUME UpgradeInv, RunV2Rev3
    PROVE  UpgradeInv'
<1>1. ClockInv' /\ Backed' /\ NewLedger!Owed'
  BY NewStepInv DEF UpgradeInv, RunV2Rev3
<1> QED BY <1>1 DEF UpgradeInv, RunV2Rev3, proxyVars, V2, V2_REV3

\* The initializer lets the upgrade happen once only.
LEMMA UpgradeOnce ==
    ASSUME UpgradeInv, NEW i \in Implementations, UpgradeToAndCall(i)
    PROVE  implementation = V2 /\ i = V2_REV3
  BY DEF UpgradeInv, Implementations, V2, V2_REV3, UpgradeToAndCall, Initialize, Initializer

LEMMA RestoredType ==
    ASSUME ClockInv, LAST_PERIOD_END <= now
    PROVE  RestoredEmission \in Nat
<1>1. now \in Nat /\ assetData.emissionPerSecond \in Nat
  BY DEF ClockInv, TypeOK, AssetData
<1>2. Earlier(now, NEW_DISTRIBUTION_END) - LAST_PERIOD_END \in Nat
  BY <1>1, UpgradeAssumption DEF Earlier
<1> QED BY <1>1, <1>2, ProductNat DEF RestoredEmission

LEMMA UpgradeClockInv ==
    ASSUME ClockInv, Backed, implementation = V2, UpgradeToAndCall(V2_REV3)
    PROVE  ClockInv' /\ Backed'
<1>1. /\ UNCHANGED <<now, funds, balances, totalSupply, userIndex, stakerRewardsToClaim,
                     stakersCooldowns, paid, activatedAt, underquoted>>
      /\ assetData' = [assetData EXCEPT !.lastUpdateTimestamp = LAST_PERIOD_END]
      /\ LAST_PERIOD_END <= now /\ emitted' = emitted + RestoredEmission
  BY DEF UpgradeToAndCall, Initialize, InitializedAssetData
<1>2. assetData' \in AssetData /\ assetData'.lastUpdateTimestamp = LAST_PERIOD_END
  BY <1>1, UpgradeAssumption DEF ClockInv, TypeOK, AssetData
<1>3. emitted' \in Nat
  BY <1>1, RestoredType DEF ClockInv, TypeOK
<1>4. TypeOK'
  BY <1>1, <1>2, <1>3 DEF ClockInv, TypeOK
<1>5. ClockInv'
  BY <1>1, <1>2, <1>4 DEF ClockInv, CooldownImpliesBalance, CooldownIsOwn
<1>6. Backed'
  BY <1>1 DEF Backed
<1> QED BY <1>5, <1>6

\* Whatever was pending before the upgrade is dropped, and what is pending
\* after it is at most what initialize promises.
LEMMA UpgradeOwed ==
    ASSUME ClockInv, Owed, implementation = V2, UpgradeToAndCall(V2_REV3)
    PROVE  NewLedger!Owed'
<1>1. NewLedger!Weights' = Weights'
  BY DEF Weights, Weight, NewLedger!Weights, NewLedger!Weight
<1>2. NewLedger!SumFunction(Weights') = SumFunction(Weights')
  BY SameSum
<1> SUFFICES ASSUME ~underquoted'
             PROVE  SumFunction(Weights') + Scale * paid' + Scale * NewLedger!Pending'
                       <= Scale * emitted'
  BY <1>1, <1>2 DEF NewLedger!Owed
<1>3. /\ UNCHANGED <<now, balances, totalSupply, userIndex, stakerRewardsToClaim,
                     paid, underquoted>>
      /\ assetData' = [assetData EXCEPT !.lastUpdateTimestamp = LAST_PERIOD_END]
      /\ LAST_PERIOD_END <= now /\ emitted' = emitted + RestoredEmission
  BY DEF UpgradeToAndCall, Initialize, InitializedAssetData
<1>4. /\ assetData'.lastUpdateTimestamp = LAST_PERIOD_END
      /\ assetData'.index = assetData.index
      /\ assetData'.emissionPerSecond = assetData.emissionPerSecond
  BY <1>3 DEF ClockInv, TypeOK, AssetData
<1>5. Weights' = Weights
  BY <1>3, <1>4 DEF Weights, Weight
<1>6. NewLedger!Pending' = 0 \/ NewLedger!Pending' = RestoredEmission
  BY <1>3, <1>4 DEF NewLedger!Pending, NewLedger!PendingOf, NewLedger!TimeDelta, NewLedger!Earlier,
                    RestoredEmission, Earlier
<1>7. /\ RestoredEmission \in Nat /\ Pending \in Nat /\ Scale \in Nat
      /\ paid \in Nat /\ emitted \in Nat
  BY <1>3, RestoredType, PendingType, DistributionAssumption DEF ClockInv, TypeOK
<1>8. SumFunction(Weights) \in Int
  BY WeightType, SumIsInt, StakedTokenAssumption
<1>9. SumFunction(Weights) + Scale * paid + Scale * Pending <= Scale * emitted
  BY <1>3 DEF Owed
<1> HIDE DEF RestoredEmission
<1>10. /\ Scale * Pending \in Nat /\ Scale * RestoredEmission \in Nat
      /\ Scale * paid \in Nat /\ Scale * emitted \in Nat
      /\ Scale * (emitted + RestoredEmission) = Scale * emitted + Scale * RestoredEmission
      /\ Scale * 0 = 0
  BY <1>7, ProductNat
<1>11. Scale * NewLedger!Pending' <= Scale * RestoredEmission
      /\ Scale * NewLedger!Pending' \in Nat
  BY <1>6, <1>10
<1> QED BY <1>3, <1>5, <1>8, <1>9, <1>10, <1>11

LEMMA NextUpgradeInv == UpgradeInv /\ [NextUpgrade]_upgradeVars => UpgradeInv'
<1> SUFFICES ASSUME UpgradeInv, [NextUpgrade]_upgradeVars PROVE UpgradeInv'
  OBVIOUS
<1>1. CASE RunV2
  BY <1>1, RunV2Inv
<1>2. CASE RunV2Rev3
  BY <1>2, RunV2Rev3Inv
<1>3. ASSUME NEW i \in Implementations, UpgradeToAndCall(i) PROVE UpgradeInv'
  <2>1. implementation = V2 /\ i = V2_REV3
    BY <1>3, UpgradeOnce
  <2>2. ClockInv' /\ Backed' /\ NewLedger!Owed'
    BY <1>3, <2>1, UpgradeClockInv, UpgradeOwed DEF UpgradeInv
  <2>3. implementation' = V2_REV3 /\ lastInitializedRevision' = V2_REV3
    BY <1>3, <2>1 DEF UpgradeToAndCall, Initialize, Initializer
  <2> QED BY <2>2, <2>3 DEF UpgradeInv, Implementations, V2, V2_REV3
<1>4. CASE UNCHANGED upgradeVars
  <2>1. [Next]_vars /\ UNCHANGED proxyVars
    BY <1>4 DEF upgradeVars
  <2>2. UNCHANGED vars
    BY <1>4 DEF upgradeVars
  <2>3. ClockInv' /\ Backed'
    BY <2>1, NextClockInv, NextBacked DEF UpgradeInv
  <2>4. Owed => Owed'
    BY <2>1, <2>3, NextOwed DEF UpgradeInv
  <2>5. NewLedger!Owed => NewLedger!Owed'
    <3>1. UNCHANGED NewLedger!vars
      BY <2>2 DEF vars, ledgerVars, historyVars, NewLedger!vars, NewLedger!ledgerVars,
                  NewLedger!historyVars
    <3>2. /\ NewLedger!ClockInv /\ NewLedger!ClockInv' /\ NewLedger!Backed
      BY <2>3, SameClockInv, SameBacked, PTL DEF UpgradeInv
    <3> QED BY <3>1, <3>2, NewLedger!NextOwed, NewAssumption
  <2> QED BY <2>1, <2>3, <2>4, <2>5 DEF UpgradeInv, proxyVars
<1> QED BY <1>1, <1>2, <1>3, <1>4 DEF NextUpgrade

\* The ledger in order means that nobody is owed what was not promised.
LEMMA UpgradeInvSolvent == UpgradeInv => UpgradeSolvent
<1> SUFFICES ASSUME UpgradeInv PROVE UpgradeSolvent
  OBVIOUS
<1>1. CASE implementation = V2
  <2>1. AllRewards = SumFunction([u \in Users |-> TotalRewards(u)])
    BY <1>1 DEF AllRewards, RewardsNow, V2, V2_REV3
  <2> QED BY <1>1, <2>1, OwedImpliesSolvent DEF UpgradeInv, UpgradeSolvent, Solvent
<1>2. CASE implementation = V2_REV3
  <2>1. NewLedger!Solvent
    BY <1>2, SameClockInv, SameBacked, NewLedger!OwedImpliesSolvent, NewAssumption
       DEF UpgradeInv
  <2>2. ASSUME NEW u \in Users PROVE RewardsNow(u) = NewLedger!TotalRewards(u)
    BY <1>2 DEF RewardsNow, New!TotalRewards, New!GetRewards, New!CurrentIndex,
                New!GetAssetIndex, New!NothingToDistribute, New!TimeDelta, New!Earlier,
                NewLedger!TotalRewards, NewLedger!GetRewards, NewLedger!CurrentIndex,
                NewLedger!GetAssetIndex, NewLedger!NothingToDistribute,
                NewLedger!TimeDelta, NewLedger!Earlier
  <2>3. AllRewards = SumFunction([u \in Users |-> NewLedger!TotalRewards(u)])
    BY <2>2 DEF AllRewards
  <2> QED BY <2>1, <2>3, SameSum DEF UpgradeSolvent, NewLedger!Solvent
<1> QED BY <1>1, <1>2 DEF UpgradeInv, Implementations

\* Through the old period, the gap, the upgrade and the new period no reward
\* is created, whenever governance executes the upgrade and whenever the
\* index was last updated before it.
THEOREM UpgradeIsSolvent == SpecUpgrade => []UpgradeSolvent
  BY InitUpgradeInv, NextUpgradeInv, UpgradeInvSolvent, PTL DEF SpecUpgrade

----------------------------------------------------------------------------
(* The upgrade pays the gap. *)

\* By how much the index of the new implementation starts above the stored
\* one: the whole gap, spread over the supply and rounded down.
GapIndex == (RestoredEmission * Scale) \div totalSupply

\* What an index that is d higher adds to rounded rewards, and at least adds.
LEMMA RaisedRewards ==
    ASSUME NEW b \in Nat, NEW i \in Nat, NEW j \in Nat, NEW d \in Nat
    PROVE  /\ GetRewards(b, i, j) \in Int /\ GetRewards(b, i + d, j) \in Int
           /\ GetRewards(b, i, j) <= GetRewards(b, i + d, j)
           /\ Scale * GetRewards(b, i, j) + b * d <= Scale * (GetRewards(b, i + d, j) + 1)
<1> DEFINE m == b * (i - j)
           n == b * ((i + d) - j)
           p == m \div Scale
           q == n \div Scale
<1>1. Scale \in Nat \ {0} /\ m \in Int /\ n \in Int /\ b * d \in Nat
  BY DistributionAssumption, ProductNat
<1>2. n = m + b * d
  OBVIOUS
<1>3. GetRewards(b, i, j) = p /\ GetRewards(b, i + d, j) = q
  BY DEF GetRewards
<1> DEFINE e == b * d
<1> HIDE DEF m, n, e
<1>4. p \in Int /\ q \in Int /\ Scale * p <= m /\ p <= q
  BY <1>1, <1>2, QuotientTimes, QuotientMonotone DEF e
<1>5. n <= Scale * q + Scale
  BY <1>1
<1> HIDE DEF p, q
<1>6. Scale * (q + 1) = Scale * q + Scale /\ Scale * q \in Int /\ Scale * p \in Int
  BY <1>1, <1>4
<1>7. Scale * p + e <= Scale * (q + 1)
  BY <1>1, <1>2, <1>4, <1>5, <1>6 DEF e
<1> QED BY <1>3, <1>4, <1>7 DEF e

\* The index before and after the upgrade, if the index was last updated after
\* the end of the prior period.
LEMMA GapIndices ==
    ASSUME ClockInv, totalSupply > 0, LAST_PERIOD_END <= assetData.lastUpdateTimestamp,
           implementation = V2, UpgradeToAndCall(V2_REV3)
    PROVE  /\ CurrentIndex = assetData.index /\ assetData.index \in Nat
           /\ GapIndex \in Nat /\ New!CurrentIndex' = assetData.index + GapIndex
           /\ RestoredEmission * Scale < totalSupply * GapIndex + totalSupply
           /\ RestoredEmission \in Nat
           /\ UNCHANGED <<balances, userIndex, stakerRewardsToClaim>>
<1>1. /\ UNCHANGED <<now, balances, totalSupply, userIndex, stakerRewardsToClaim>>
      /\ assetData' = [assetData EXCEPT !.lastUpdateTimestamp = LAST_PERIOD_END]
      /\ LAST_PERIOD_END <= now
  BY DEF UpgradeToAndCall, Initialize, InitializedAssetData
<1>2. /\ assetData \in AssetData /\ now \in Nat /\ totalSupply \in Nat \ {0}
      /\ assetData.emissionPerSecond \in Nat /\ assetData.index \in Nat
      /\ assetData.lastUpdateTimestamp \in Nat
      /\ Scale \in Nat \ {0}
  BY DistributionAssumption DEF ClockInv, TypeOK, AssetData
<1>3. CurrentIndex = assetData.index
  BY <1>2, UpgradeAssumption, DistributionAssumption
     DEF CurrentIndex, GetAssetIndex, NothingToDistribute
<1>4. /\ assetData'.lastUpdateTimestamp = LAST_PERIOD_END /\ assetData'.index = assetData.index
      /\ assetData'.emissionPerSecond = assetData.emissionPerSecond
  BY <1>1, <1>2 DEF AssetData
<1>5. RestoredEmission \in Nat
  BY <1>1, RestoredType
<1> DEFINE e == assetData.emissionPerSecond
           delta == Earlier(now, NEW_DISTRIBUTION_END) - LAST_PERIOD_END
<1>6. New!CurrentIndex' =
        IF \/ e = 0 \/ totalSupply = 0 \/ LAST_PERIOD_END = now
           \/ LAST_PERIOD_END >= NEW_DISTRIBUTION_END
        THEN assetData.index
        ELSE (e * delta * Scale) \div totalSupply + assetData.index
  BY <1>1, <1>4 DEF New!CurrentIndex, New!GetAssetIndex, New!NothingToDistribute, New!TimeDelta,
                    New!Earlier, Earlier
<1>7. RestoredEmission = e * delta
  BY DEF RestoredEmission
<1>8. delta \in Nat /\ (LAST_PERIOD_END = now \/ LAST_PERIOD_END >= NEW_DISTRIBUTION_END => delta = 0)
  BY <1>1, <1>2, UpgradeAssumption DEF Earlier
<1>9. e \in Nat
  BY <1>2
<1> HIDE DEF e, delta, RestoredEmission
<1>10. RestoredEmission * Scale \in Nat
  BY <1>2, <1>5, ProductNat
<1> DEFINE n == RestoredEmission * Scale
<1>11. GapIndex = n \div totalSupply
  BY DEF GapIndex
<1>12. e = 0 \/ delta = 0 => n = 0
  BY <1>2, <1>7, <1>8, <1>9
<1>13. n = e * delta * Scale
  BY <1>7
<1>14. n \in Nat
  BY <1>10
<1> HIDE DEF n
<1>15. GapIndex \in Nat /\ n < totalSupply * GapIndex + totalSupply
  BY <1>2, <1>11, <1>14, QuotientNat
<1>16. n = 0 => GapIndex = 0
  BY <1>2, <1>11
<1>17. New!CurrentIndex' = assetData.index + GapIndex
  BY <1>2, <1>6, <1>8, <1>11, <1>12, <1>13, <1>15, <1>16
<1> QED BY <1>1, <1>2, <1>3, <1>5, <1>15, <1>17 DEF n

\* What everybody is owed before and after the upgrade.
LEMMA GapRewards ==
    ASSUME ClockInv, totalSupply > 0, LAST_PERIOD_END <= assetData.lastUpdateTimestamp,
           implementation = V2, UpgradeToAndCall(V2_REV3), NEW u \in Users
    PROVE  /\ RewardsNow(u) \in Int /\ RewardsNow(u)' \in Int
           /\ RewardsNow(u)' >= RewardsNow(u)
           /\ Scale * RewardsNow(u) + balances[u] * GapIndex <= Scale * (RewardsNow(u)' + 1)
<1> DEFINE b == balances[u]
           i == assetData.index
           j == userIndex[u]
           r == stakerRewardsToClaim[u]
           d == GapIndex
           p == GetRewards(b, i, j)
           q == GetRewards(b, i + d, j)
           next == RewardsNow(u)'
<1>1. /\ CurrentIndex = i /\ i \in Nat /\ d \in Nat /\ New!CurrentIndex' = i + d
      /\ UNCHANGED <<balances, userIndex, stakerRewardsToClaim>>
  BY GapIndices
<1>2. b \in Nat /\ j \in Nat /\ r \in Nat /\ Scale \in Nat \ {0}
  BY DistributionAssumption DEF ClockInv, TypeOK
<1>3. RewardsNow(u) = r + p
  BY <1>1 DEF RewardsNow, TotalRewards, V2, V2_REV3
<1>4. implementation' = V2_REV3
  BY DEF UpgradeToAndCall
<1>5. next = r + q
  <2>1. next = stakerRewardsToClaim'[u] + New!GetRewards(balances'[u], New!CurrentIndex', userIndex'[u])
    BY <1>4 DEF RewardsNow, New!TotalRewards
  <2> QED BY <1>1, <2>1 DEF New!GetRewards, GetRewards
<1> HIDE DEF b, i, j, r, d, next
<1>6. /\ p \in Int /\ q \in Int /\ p <= q /\ Scale * p + b * d <= Scale * (q + 1)
  BY <1>1, <1>2, RaisedRewards
<1>7. b * d \in Nat
  BY <1>1, <1>2, ProductNat
<1> DEFINE e == b * d
<1> HIDE DEF p, q, e
<1>8. /\ Scale * (r + p) = Scale * r + Scale * p /\ Scale * (r + q + 1) = Scale * r + Scale * (q + 1)
      /\ Scale * r \in Int /\ Scale * p \in Int /\ Scale * (q + 1) \in Int
  BY <1>2, <1>6
<1>9. Scale * (r + p) + e <= Scale * (r + q + 1) /\ r + p <= r + q
  BY <1>2, <1>6, <1>7, <1>8 DEF e
<1> QED BY <1>2, <1>3, <1>5, <1>6, <1>9 DEF b, d, e, next

LEMMA UpgradePaysGap ==
    ASSUME ClockInv, Backed, totalSupply > 0,
           LAST_PERIOD_END <= assetData.lastUpdateTimestamp,
           implementation = V2, UpgradeToAndCall(V2_REV3)
    PROVE  /\ \A u \in Users : RewardsNow(u)' >= RewardsNow(u)
           /\ Scale * (AllRewards' + Cardinality(Users)) + totalSupply
                > Scale * (AllRewards + RestoredEmission)
<1> DEFINE d == GapIndex
           f == [u \in Users |-> RewardsNow(u)]
           g == [u \in Users |-> RewardsNow(u)']
           o == [u \in Users |-> 1]
           h == [u \in Users |-> g[u] + o[u]]
           low == [u \in Users |-> Scale * f[u]]
           share == [u \in Users |-> d * balances[u]]
           high == [u \in Users |-> Scale * h[u]]
           zero == [u \in Users |-> 0]
<1>1. /\ \A u \in Users : /\ RewardsNow(u) \in Int /\ RewardsNow(u)' \in Int
                          /\ RewardsNow(u)' >= RewardsNow(u)
                          /\ Scale * RewardsNow(u) + balances[u] * d <= Scale * (RewardsNow(u)' + 1)
  BY GapRewards
<1>2. /\ d \in Nat /\ RestoredEmission \in Nat
      /\ RestoredEmission * Scale < totalSupply * d + totalSupply
  BY GapIndices
<1>3. /\ balances \in [Users -> Int] /\ totalSupply = SumFunction(balances)
      /\ totalSupply \in Nat /\ Scale \in Int /\ Scale \in Nat /\ IsFiniteSet(Users)
  BY DistributionAssumption, StakedTokenAssumption DEF ClockInv, TypeOK, Backed
<1>4. AllRewards = SumFunction(f) /\ AllRewards' = SumFunction(g)
  BY DEF AllRewards
<1> HIDE DEF d
<1>5. /\ f \in [Users -> Int] /\ g \in [Users -> Int] /\ o \in [Users -> Int]
      /\ \A u \in Users : o[u] = 1
      /\ \A u \in Users : Scale * f[u] + d * balances[u] <= Scale * (g[u] + o[u])
  <2>1. f \in [Users -> Int] /\ g \in [Users -> Int] /\ o \in [Users -> Int]
    BY <1>1
  <2>2. ASSUME NEW u \in Users PROVE Scale * f[u] + d * balances[u] <= Scale * (g[u] + o[u])
    <3>1. d * balances[u] = balances[u] * d
      BY <1>2, <1>3
    <3>2. f[u] = RewardsNow(u) /\ g[u] = RewardsNow(u)' /\ o[u] = 1
      OBVIOUS
    <3> QED BY <1>1, <3>1, <3>2
  <2> QED BY <2>1, <2>2
<1> HIDE DEF f, g, o
<1>6. h \in [Users -> Int] /\ \A u \in Users : h[u] = g[u] + o[u]
  BY <1>5
<1> HIDE DEF h
<1>7. /\ low \in [Users -> Int] /\ \A u \in Users : low[u] = Scale * f[u]
      /\ high \in [Users -> Int] /\ \A u \in Users : high[u] = Scale * h[u]
      /\ share \in [Users -> Int] /\ \A u \in Users : share[u] = d * balances[u]
      /\ zero \in [Users -> Int] /\ \A u \in Users : zero[u] = 0
  BY <1>2, <1>3, <1>5, <1>6
<1> HIDE DEF low, high, share, zero
<1>8. \A u \in Users : low[u] + share[u] <= high[u] + zero[u]
  <2> TAKE u \in Users
  <2>1. low[u] + share[u] <= high[u] /\ high[u] \in Int
    BY <1>5, <1>6, <1>7
  <2> QED BY <1>7, <2>1
<1>9. SumFunction(low) + SumFunction(share) <= SumFunction(high) + SumFunction(zero)
  BY ONLY <1>3, <1>7, <1>8, SumsOrder
<1>10. /\ SumFunction(low) = Scale * SumFunction(f)
       /\ SumFunction(high) = Scale * SumFunction(h)
       /\ SumFunction(share) = d * SumFunction(balances)
       /\ SumFunction(zero) = 0
  <2>1. d \in Int /\ f \in [Users -> Int]
    BY <1>2, <1>5
  <2>2. SumFunction(low) = Scale * SumFunction(f)
    BY ONLY <1>3, <1>7, <2>1, SumFactor
  <2>3. SumFunction(high) = Scale * SumFunction(h)
    BY ONLY <1>3, <1>6, <1>7, SumFactor
  <2>4. SumFunction(share) = d * SumFunction(balances)
    BY ONLY <1>3, <1>7, <2>1, SumFactor
  <2>5. SumFunction(zero) = 0
    BY ONLY <1>3, <1>7, SumZero
  <2> QED BY <2>2, <2>3, <2>4, <2>5
<1>11. SumFunction(h) = SumFunction(g) + Cardinality(Users)
  <2>1. g \in [Users -> Int] /\ o \in [Users -> Int] /\ \A u \in Users : o[u] = 1
    BY <1>5
  <2>2. SumFunction(o) = Cardinality(Users)
    BY ONLY <1>3, <2>1, SumCounts
  <2>3. SumFunction(h) = SumFunction(g) + SumFunction(o)
    BY ONLY <1>3, <1>6, <2>1, SumOfSums
  <2> QED BY <2>2, <2>3
<1>12. SumFunction(f) \in Int /\ SumFunction(g) \in Int /\ Cardinality(Users) \in Nat
  BY ONLY <1>3, <1>5, SumIsInt, FS_CardinalityType
<1> DEFINE a == SumFunction(f)
           c == SumFunction(g) + Cardinality(Users)
           s == totalSupply
           r == RestoredEmission
<1>13. Scale * a + d * s <= Scale * c /\ a \in Int /\ c \in Int /\ s \in Nat
  <2>1. Scale * a + d * s <= Scale * c + 0
    BY <1>3, <1>9, <1>10, <1>11
  <2>2. a \in Int /\ c \in Int
    BY <1>12
  <2> HIDE DEF a, c, s
  <2> QED BY <1>3, <2>1, <2>2 DEF s
<1>14. r \in Nat /\ r * Scale < s * d + s
  BY <1>2
<1> HIDE DEF a, c, s, r
<1>15. /\ Scale * (a + r) = Scale * a + r * Scale /\ s * d = d * s
       /\ Scale * a \in Int /\ r * Scale \in Int /\ s * d \in Int /\ Scale * c \in Int
  BY <1>2, <1>3, <1>13, <1>14
<1>16. Scale * c + s > Scale * (a + r)
  BY <1>13, <1>14, <1>15
<1> QED BY <1>1, <1>4, <1>16 DEF a, c, s, r

\* The upgrade takes nothing from anybody and hands out the gap that
\* initialize promises, but for rounding.
THEOREM UpgradeHandsOutGap == SpecUpgrade => GapIsPaid
<1> DEFINE Paid == implementation' # implementation /\ totalSupply > 0
                   /\ LAST_PERIOD_END <= assetData.lastUpdateTimestamp =>
                      /\ \A u \in Users : RewardsNow(u)' >= RewardsNow(u)
                      /\ Scale * (AllRewards' + Cardinality(Users)) + totalSupply
                           > Scale * (AllRewards + RestoredEmission)
<1>1. UpgradeInv /\ [NextUpgrade]_upgradeVars => [Paid]_upgradeVars
  <2> SUFFICES ASSUME UpgradeInv, NextUpgrade, implementation' # implementation,
                      totalSupply > 0, LAST_PERIOD_END <= assetData.lastUpdateTimestamp
               PROVE  /\ \A u \in Users : RewardsNow(u)' >= RewardsNow(u)
                      /\ Scale * (AllRewards' + Cardinality(Users)) + totalSupply
                           > Scale * (AllRewards + RestoredEmission)
    OBVIOUS
  <2>1. PICK i \in Implementations : UpgradeToAndCall(i)
    BY DEF NextUpgrade, RunV2, RunV2Rev3, proxyVars
  <2>2. implementation = V2 /\ i = V2_REV3
    BY <2>1, UpgradeOnce
  <2> QED BY <2>1, <2>2, UpgradePaysGap DEF UpgradeInv
<1>2. SpecUpgrade => []UpgradeInv
  BY InitUpgradeInv, NextUpgradeInv, PTL DEF SpecUpgrade
<1> QED BY <1>1, <1>2, PTL DEF SpecUpgrade, GapIsPaid

----------------------------------------------------------------------------
(* Nothing keeps a staker in, whichever implementation runs. *)

\* What the running implementation tests when a staker leaves.
UpgradeLocksNobodyIn ==
    IF implementation = V2_REV3 THEN NewLedger!NothingLocksIn ELSE NothingLocksIn

LEMMA SameIndexInv == NewLedger!IndexInv <=> IndexInv
  BY DEF IndexInv, NewLedger!IndexInv

LEMMA NextUpgradeIndexInv ==
    ASSUME UpgradeInv, IndexInv, [NextUpgrade]_upgradeVars
    PROVE  IndexInv'
<1>1. CASE RunV2
  BY <1>1, NextIndexInv DEF RunV2, UpgradeInv
<1>2. CASE RunV2Rev3
  <2>1. NewLedger!ClockInv /\ NewLedger!IndexInv /\ [NewLedger!Next]_NewLedger!vars
    BY <1>2, SameClockInv, SameIndexInv, SameNext DEF RunV2Rev3, UpgradeInv
  <2>2. NewLedger!IndexInv'
    BY <2>1, NewLedger!NextIndexInv, NewAssumption
  <2> QED BY <2>2 DEF IndexInv, NewLedger!IndexInv
<1>3. ASSUME NEW i \in Implementations, UpgradeToAndCall(i) PROVE IndexInv'
  <2>1. i = V2_REV3
    BY <1>3, UpgradeOnce
  <2>2. assetData' = [assetData EXCEPT !.lastUpdateTimestamp = LAST_PERIOD_END]
        /\ userIndex' = userIndex
    BY <1>3, <2>1 DEF UpgradeToAndCall, Initialize, InitializedAssetData
  <2>3. assetData'.index = assetData.index
    BY <2>2 DEF UpgradeInv, ClockInv, TypeOK, AssetData
  <2> QED BY <2>2, <2>3 DEF IndexInv
<1>4. CASE UNCHANGED upgradeVars
  BY <1>4 DEF upgradeVars, vars, ledgerVars, IndexInv
<1> QED BY <1>1, <1>2, <1>3, <1>4 DEF NextUpgrade

\* Moving the date back never puts the index behind that of an account: a
\* staker can leave before and after the upgrade.
THEOREM UpgradeLetsLeave == SpecUpgrade => []UpgradeLocksNobodyIn
<1>1. InitUpgrade => IndexInv
  BY InitIndexInv DEF InitUpgrade
<1>2. UpgradeInv /\ IndexInv => UpgradeLocksNobodyIn
  <2> SUFFICES ASSUME UpgradeInv, IndexInv PROVE UpgradeLocksNobodyIn
    OBVIOUS
  <2>1. NothingLocksIn
    BY BackedLocksNobodyIn DEF UpgradeInv
  <2>2. NewLedger!NothingLocksIn
    BY SameClockInv, SameBacked, SameIndexInv, NewLedger!BackedLocksNobodyIn, NewAssumption
       DEF UpgradeInv
  <2> QED BY <2>1, <2>2 DEF UpgradeLocksNobodyIn
<1> QED BY <1>1, <1>2, NextUpgradeIndexInv, InitUpgradeInv, NextUpgradeInv, PTL DEF SpecUpgrade

----------------------------------------------------------------------------
(* StakedTokenV2: it is still the staked token, the voting power it carries *)
(* keeps its promise, and the hook locks no staker in.  What                *)
(* StakedTokenProofs and GovernanceProofs show of the two layers is put     *)
(* together here.                                                           *)

Power == INSTANCE GovernanceProofs WITH
    blockNumber     <- BlockNumber,
    InitialBalances <- [u \in Users |-> 0],
    MAX_SUPPLY      <- MAX_UINT,
    MAX_BLOCK       <- MAX_TIME - GENESIS + 2

\* The assumptions of the governance layer hold of its instance.
LEMMA PowerAssumed == Power!GovernanceAssumption
<1>1. IsFiniteSet(Users) <=> Power!IsFiniteSet(Users)
  BY DEF IsFiniteSet, Power!IsFiniteSet
<1>2. MAX_TIME - GENESIS + 2 \in Nat
  BY PowerAssumption, StakedTokenAssumption
<1> QED BY <1>1, <1>2, PowerAssumption, StakedTokenAssumption
        DEF Power!GovernanceAssumption, Power!DelegationType, Power!VOTING_POWER,
            Power!PROPOSITION_POWER

----------------------------------------------------------------------------
(* The two instances of the governance layer say the same. *)

LEMMA SameTotal == ASSUME NEW f PROVE Power!SumFunction(f) = SumFunction(f)
  BY DEF SumFunction, SumFunctionOnSet, FoldFunctionOnSet, MapThenFoldSet,
         Power!SumFunction, Power!SumFunctionOnSet, Power!FoldFunctionOnSet,
         Power!MapThenFoldSet

LEMMA SameHook ==
    ASSUME NEW from, NEW to, NEW amount
    PROVE  Gov!BeforeTokenTransfer(from, to, amount) <=>
           Power!BeforeTokenTransfer(from, to, amount)
  BY DEF Gov!BeforeTokenTransfer, Gov!CanMoveDelegates, Gov!MoveDelegatesByType,
         Gov!GetDelegatee, Gov!PreviousPower, Gov!Latest, Gov!WriteSnapshot,
         Power!BeforeTokenTransfer, Power!CanMoveDelegates, Power!MoveDelegatesByType,
         Power!GetDelegatee, Power!PreviousPower, Power!Latest, Power!WriteSnapshot

LEMMA SameDelegation ==
    ASSUME NEW u, NEW v, NEW types
    PROVE  Gov!DelegateTypes(u, v, types) <=> Power!DelegateTypes(u, v, types)
  BY DEF Gov!DelegateTypes, Gov!CanMoveDelegates, Gov!MoveDelegatesByType,
         Gov!GetDelegatee, Gov!PreviousPower, Gov!Latest, Gov!WriteSnapshot,
         Power!DelegateTypes, Power!CanMoveDelegates, Power!MoveDelegatesByType,
         Power!GetDelegatee, Power!PreviousPower, Power!Latest, Power!WriteSnapshot

LEMMA SamePast == Gov!PastPower = Power!PastPower
  BY DEF Gov!PastPower, Gov!GetPowerAtBlock, Gov!SearchByBlockNumber, Gov!BinarySearch,
         Gov!Latest, Power!PastPower, Power!GetPowerAtBlock, Power!SearchByBlockNumber,
         Power!BinarySearch, Power!Latest

LEMMA SamePromise ==
    /\ Gov!Promise!Init <=> Power!Promise!Init
    /\ Gov!Promise!Next <=> Power!Promise!Next
    /\ Gov!Promise!vars = Power!Promise!vars
    /\ (UNCHANGED Gov!Promise!vars) <=> (UNCHANGED Power!Promise!vars)
  BY DEF
         Gov!Promise!Init, Gov!Promise!Next, Gov!Promise!vars,
         Gov!Promise!ChangeBalances, Gov!Promise!ChooseDelegatee,
         Gov!Promise!EndBlock, Gov!Promise!AllPower, Gov!Promise!Power,
         Gov!Promise!SumFunction, Gov!Promise!SumFunctionOnSet,
         Gov!Promise!FoldFunctionOnSet, Gov!Promise!MapThenFoldSet,
         Gov!PastPower, Gov!GetPowerAtBlock, Gov!SearchByBlockNumber,
         Gov!BinarySearch, Gov!Latest, Gov!GetDelegatee, Power!Promise!Init,
         Power!Promise!Next, Power!Promise!vars, Power!Promise!ChangeBalances,
         Power!Promise!ChooseDelegatee, Power!Promise!EndBlock,
         Power!Promise!AllPower, Power!Promise!Power,
         Power!Promise!SumFunction, Power!Promise!SumFunctionOnSet,
         Power!Promise!FoldFunctionOnSet, Power!Promise!MapThenFoldSet,
         Power!PastPower, Power!GetPowerAtBlock, Power!SearchByBlockNumber,
         Power!BinarySearch, Power!Latest, Power!GetDelegatee

----------------------------------------------------------------------------
(* It is still the staked token. *)

LEMMA NextIsStaking == [NextWithPower]_allVars => [Next]_vars
  BY DEF NextWithPower, Next, StakeWithPower, RedeemWithPower, TransferWithPower, allVars

\* By the shape of its actions StakedTokenV2 remains the staked token, so that
\* what is proved about StakedToken can be used here.  That the hook takes no
\* transaction away is HookLetsLeave.
LEMMA PowerKeepsStaking == SpecWithPower => Spec
<1>1. InitWithPower => Init
  BY DEF InitWithPower
<1> QED BY <1>1, NextIsStaking, PTL DEF SpecWithPower, Spec

----------------------------------------------------------------------------
(* No supply exceeds a uint256: the staked token is minted for underlying     *)
(* tokens, of which no transaction makes more.                                *)

FundsConserved == SumFunction(funds[STAKED_TOKEN]) = UnderlyingSupply

LEMMA FiniteHolders == IsFiniteSet(Holders)
<1>1. IsFiniteSet(Users \cup {SELF})
  BY StakedTokenAssumption, FS_AddElement
<1>2. Holders = (Users \cup {SELF}) \cup {REWARDS_VAULT}
  BY DEF Holders
<1> QED BY <1>1, <1>2, FS_AddElement

LEMMA MoveKeepsTotal ==
    ASSUME funds \in [Tokens -> [Holders -> Nat]], NEW token \in Tokens,
           NEW from \in Holders, NEW to \in Holders, NEW amount \in Nat,
           MoveFunds(token, from, to, amount)
    PROVE  SumFunction(funds'[STAKED_TOKEN]) = SumFunction(funds[STAKED_TOKEN])
<1> DEFINE f == funds[token]
           left == [f EXCEPT ![from] = @ - amount]
           moved == [f EXCEPT ![from] = @ - amount, ![to] = @ + amount]
<1>1. funds' = [funds EXCEPT ![token] = moved] /\ f \in [Holders -> Nat]
  BY DEF MoveFunds
<1>2. /\ f \in [Holders -> Int] /\ left \in [Holders -> Int] /\ moved \in [Holders -> Int]
      /\ left[from] = f[from] - amount /\ \A h \in Holders \ {from} : left[h] = f[h]
      /\ moved[to] = left[to] + amount /\ \A h \in Holders \ {to} : moved[h] = left[h]
  BY <1>1
<1> HIDE DEF f, left, moved
<1>3. SumFunction(left) = SumFunction(f) + left[from] - f[from]
  BY <1>2, FiniteHolders, SumUpdate
<1>4. SumFunction(moved) = SumFunction(left) + moved[to] - left[to]
  BY <1>2, FiniteHolders, SumUpdate
<1>5. SumFunction(f) \in Int /\ SumFunction(left) \in Int /\ f[from] \in Int /\ left[to] \in Int
  BY <1>2, FiniteHolders, SumIsInt
<1>6. SumFunction(moved) = SumFunction(f)
  BY <1>2, <1>3, <1>4, <1>5
<1>7. CASE token = STAKED_TOKEN
  BY <1>1, <1>6, <1>7 DEF f
<1>8. CASE token # STAKED_TOKEN
  BY <1>1, <1>8, ConstantsType
<1> QED BY <1>7, <1>8

LEMMA InitFundsConserved == Init => FundsConserved
  BY ConstantsType, StakedTokenAssumption DEF Init, FundsConserved, UnderlyingSupply

LEMMA NextFundsConserved ==
    ASSUME ClockInv, FundsConserved, [Next]_vars
    PROVE  FundsConserved'
<1> USE ConstantsType, StakedTokenAssumption
<1>1. /\ funds \in [Tokens -> [Holders -> Nat]] /\ balances \in [Users -> Nat]
      /\ SELF \in Holders
  BY DEF ClockInv, TypeOK
<1>2. ASSUME NEW sender \in Callers, NEW u \in Users, NEW amount \in Amounts,
             Stake(sender, u, amount)
      PROVE  FundsConserved'
  <2>1. /\ sender \in Holders /\ amount \in Nat /\ MoveFunds(STAKED_TOKEN, sender, SELF, amount)
    BY <1>2 DEF Stake
  <2> QED BY <1>1, <2>1, MoveKeepsTotal DEF FundsConserved
<1>3. ASSUME NEW sender \in Callers, NEW to \in Recipients, NEW amount \in Amounts,
             Redeem(sender, to, amount)
      PROVE  FundsConserved'
  <2>1. /\ AmountToRedeem(sender, amount) \in Nat /\ to \in Holders
        /\ MoveFunds(STAKED_TOKEN, SELF, to, AmountToRedeem(sender, amount))
    BY <1>1, <1>3 DEF Redeem, AmountToRedeem
  <2> QED BY <1>1, <2>1, MoveKeepsTotal DEF FundsConserved
<1>4. ASSUME NEW sender \in Callers, NEW to \in Recipients,
             NEW amount \in Amounts \cup {0, MAX_UINT}, ClaimRewards(sender, to, amount)
      PROVE  FundsConserved'
  <2>1. PICK claimed \in Nat : MoveFunds(REWARD_TOKEN, REWARDS_VAULT, to, claimed)
    <3>1. UnclaimedRewards(sender) \in Nat
      BY SettlingType, <1>4 DEF ClaimRewards
    <3> QED BY <1>4, <3>1 DEF ClaimRewards
  <2> QED BY <1>1, <2>1, MoveKeepsTotal DEF FundsConserved
<1>5. ASSUME \/ \E sender \in Callers : Cooldown(sender)
             \/ \E from \in Callers, to \in Users, amount \in Amounts \cup {0} :
                    Transfer(from, to, amount)
             \/ \E emission \in Emissions, total \in Quotes : ConfigureAssets(emission, total)
             \/ Tick
             \/ UNCHANGED vars
      PROVE  FundsConserved'
  BY <1>5 DEF Cooldown, Transfer, ConfigureAssets, Tick, vars, ledgerVars, FundsConserved
<1> QED BY <1>2, <1>3, <1>4, <1>5 DEF Next

LEMMA SupplyIsBounded ==
    ClockInv /\ Backed /\ FundsConserved =>
        SumFunction(balances) = totalSupply /\ totalSupply <= MAX_UINT
<1> SUFFICES ASSUME ClockInv, Backed, FundsConserved
             PROVE  SumFunction(balances) = totalSupply /\ totalSupply <= MAX_UINT
  OBVIOUS
<1>1. /\ funds[STAKED_TOKEN] \in [Holders -> Nat] /\ SELF \in Holders /\ totalSupply \in Nat
      /\ MAX_UINT \in Nat
  BY ConstantsType, StakedTokenAssumption DEF ClockInv, TypeOK
<1>2. /\ funds[STAKED_TOKEN][SELF] \in Nat
      /\ SumFunction(funds[STAKED_TOKEN]) \in Nat
      /\ funds[STAKED_TOKEN][SELF] <= SumFunction(funds[STAKED_TOKEN])
  BY <1>1, FiniteHolders, SumOfNat
<1> QED BY <1>1, <1>2, PowerAssumption DEF Backed, FundsConserved

----------------------------------------------------------------------------
(* The promise of voting power. *)

\* Both layers in order: the ledger of the staked token, and the snapshots.
WholeInv ==
    /\ ClockInv
    /\ Backed
    /\ FundsConserved
    /\ Power!HistoryInv

\* A transaction that mints, burns, moves and delegates nothing.
LEMMA StillKeepsPromise ==
    ASSUME Power!HistoryInv, UNCHANGED <<balances, delegates, snapshots, now>>
    PROVE  Power!HistoryInv' /\ [Power!Promise!Next]_(Power!Promise!vars)
<1>1. UNCHANGED Power!vars
  BY DEF Power!vars, Power!powerVars, BlockNumber
<1> QED BY <1>1, PowerAssumed, Power!NextKeepsPromise

LEMMA StakeKeepsPower ==
    ASSUME WholeInv, totalSupply' <= MAX_UINT,
           NEW sender \in Callers, NEW u \in Users, NEW amount \in Amounts,
           StakeWithPower(sender, u, amount)
    PROVE  Power!HistoryInv' /\ Power!Promise!ChangeBalances
<1>1. /\ Power!BeforeTokenTransfer(ZERO, u, amount) /\ amount \in Nat
      /\ BlockNumber' = BlockNumber
      /\ balances' = [balances EXCEPT ![u] = @ + amount]
      /\ totalSupply' = totalSupply + amount
  BY SameHook, StakedTokenAssumption DEF StakeWithPower, Stake, Mint, BlockNumber
<1>2. Power!TotalSupply + amount <= MAX_UINT
  BY <1>1, SupplyIsBounded, SameTotal DEF WholeInv, Power!TotalSupply
<1> QED BY <1>1, <1>2, PowerAssumed, Power!MintKeepsPromise DEF WholeInv

LEMMA RedeemKeepsPower ==
    ASSUME WholeInv, NEW sender \in Callers, NEW to \in Recipients, NEW amount \in Amounts,
           RedeemWithPower(sender, to, amount)
    PROVE  Power!HistoryInv' /\ Power!Promise!ChangeBalances
<1> DEFINE burned == AmountToRedeem(sender, amount)
<1>1. /\ Power!BeforeTokenTransfer(sender, ZERO, burned)
      /\ BlockNumber' = BlockNumber
      /\ balances[sender] >= burned
      /\ balances' = [balances EXCEPT ![sender] = @ - burned]
  BY SameHook DEF RedeemWithPower, Redeem, Burn, BlockNumber
<1>2. burned \in Nat /\ sender \in Users
  BY ConstantsType, StakedTokenAssumption DEF AmountToRedeem, WholeInv, ClockInv, TypeOK
<1> HIDE DEF burned
<1> QED BY <1>1, <1>2, PowerAssumed, Power!BurnKeepsPromise DEF WholeInv

LEMMA TransferKeepsPower ==
    ASSUME WholeInv, NEW from \in Callers, NEW to \in Users, NEW amount \in Amounts \cup {0},
           TransferWithPower(from, to, amount)
    PROVE  Power!HistoryInv' /\ Power!Promise!ChangeBalances
<1>1. Power!Transfer(from, to, amount)
  BY SameHook DEF TransferWithPower, Transfer, MoveBalance, BlockNumber, Power!Transfer
<1>2. amount \in Nat /\ from \in Users
  BY ConstantsType, StakedTokenAssumption
<1> QED BY <1>1, <1>2, PowerAssumed, Power!TransferKeepsPromise DEF WholeInv

LEMMA DelegationKeepsPower ==
    ASSUME WholeInv, NEW u \in Callers, NEW v \in Users, NEW types \in SUBSET Types,
           UNCHANGED vars, Gov!DelegateTypes(u, v, types)
    PROVE  Power!HistoryInv' /\ Power!Promise!ChooseDelegatee(u, v, types)
<1>1. Power!DelegateTypes(u, v, types) /\ u \in Users
  BY SameDelegation, ConstantsType
<1> QED BY <1>1, PowerAssumed, Power!DelegationKeepsPromise DEF WholeInv

\* A block is built each second.
LEMMA TickKeepsPower ==
    ASSUME WholeInv, Tick, UNCHANGED powerVars
    PROVE  Power!HistoryInv' /\ Power!Promise!EndBlock
<1>1. Power!NextBlock
  BY StakedTokenAssumption, PowerAssumption
     DEF WholeInv, ClockInv, TypeOK, Tick, powerVars, BlockNumber, Power!NextBlock, Power!powerVars
<1> QED BY <1>1, PowerAssumed, Power!NextBlockKeepsPromise DEF WholeInv

LEMMA InitWhole == InitWithPower => WholeInv /\ Power!Promise!Init
<1> SUFFICES ASSUME InitWithPower PROVE WholeInv /\ Power!Promise!Init
  OBVIOUS
<1>1. ClockInv /\ Backed /\ FundsConserved
  BY InitClockInv, InitBacked, InitFundsConserved DEF InitWithPower
<1>2. Power!Init
  BY StakedTokenAssumption DEF InitWithPower, Init, BlockNumber, Power!Init
<1>3. Power!SnapshotsFromStart
  <2>1. SumFunction([u \in Users |-> 0]) = 0
    BY StakedTokenAssumption, SumZero
  <2> QED BY <2>1, SameTotal, StakedTokenAssumption DEF Power!SnapshotsFromStart
<1> QED BY <1>1, <1>2, <1>3, PowerAssumed, Power!InitKeepsPromise DEF WholeInv

LEMMA NextWhole ==
    ASSUME WholeInv, [NextWithPower]_allVars
    PROVE  WholeInv' /\ [Power!Promise!Next]_(Power!Promise!vars)
<1>1. ClockInv' /\ Backed' /\ FundsConserved'
  BY NextIsStaking, NextClockInv, NextBacked, NextFundsConserved DEF WholeInv
<1>2. (totalSupply <= MAX_UINT)'
  BY <1>1, SupplyIsBounded, PTL
<1>3. ASSUME NEW sender \in Callers, NEW u \in Users, NEW amount \in Amounts,
             StakeWithPower(sender, u, amount)
      PROVE  Power!HistoryInv' /\ Power!Promise!Next
  BY <1>2, <1>3, StakeKeepsPower DEF Power!Promise!Next
<1>4. ASSUME NEW sender \in Callers, NEW to \in Recipients, NEW amount \in Amounts,
             RedeemWithPower(sender, to, amount)
      PROVE  Power!HistoryInv' /\ Power!Promise!Next
  BY <1>4, RedeemKeepsPower DEF Power!Promise!Next
<1>5. ASSUME NEW from \in Callers, NEW to \in Users, NEW amount \in Amounts \cup {0},
             TransferWithPower(from, to, amount)
      PROVE  Power!HistoryInv' /\ Power!Promise!Next
  BY <1>5, TransferKeepsPower DEF Power!Promise!Next
<1>6. ASSUME \/ \E sender \in Callers : Cooldown(sender)
             \/ \E sender \in Callers, to \in Recipients, amount \in Amounts \cup {0, MAX_UINT} :
                    ClaimRewards(sender, to, amount)
             \/ \E emission \in Emissions, total \in Quotes : ConfigureAssets(emission, total)
             \/ UNCHANGED vars,
             UNCHANGED powerVars
      PROVE  Power!HistoryInv' /\ [Power!Promise!Next]_(Power!Promise!vars)
  <2>1. UNCHANGED <<balances, delegates, snapshots, now>>
    BY <1>6 DEF Cooldown, ClaimRewards, ConfigureAssets, vars, ledgerVars, powerVars
  <2> QED BY <2>1, StillKeepsPromise DEF WholeInv
<1>7. ASSUME NEW u \in Callers, NEW v \in Users, UNCHANGED vars,
             \/ \E type \in Types : Gov!DelegateByType(u, v, type)
             \/ Gov!Delegate(u, v)
      PROVE  Power!HistoryInv' /\ Power!Promise!Next
  <2>1. PICK types \in SUBSET Types : Gov!DelegateTypes(u, v, types)
    BY <1>7 DEF Gov!DelegateByType, Gov!Delegate
  <2> QED BY <1>7, <2>1, DelegationKeepsPower, ConstantsType DEF Power!Promise!Next
<1>8. ASSUME Tick, UNCHANGED powerVars
      PROVE  Power!HistoryInv' /\ Power!Promise!Next
  BY <1>8, TickKeepsPower DEF Power!Promise!Next, WholeInv
<1>9. Power!HistoryInv' /\ [Power!Promise!Next]_(Power!Promise!vars)
  <2>1. CASE UNCHANGED allVars
    BY <1>6, <2>1 DEF allVars
  <2>2. CASE NextWithPower
    BY <1>3, <1>4, <1>5, <1>6, <1>7, <1>8, <2>2 DEF NextWithPower
  <2> QED BY <2>1, <2>2
<1> QED BY <1>1, <1>9 DEF WholeInv

\* The refinement: with stakes, redeems and transfers of the real contract under it,
\* what getPowerAtBlock says of a past block is the stake that was behind each
\* delegatee when it ended.
THEOREM StakePowerIsKept == SpecWithPower => StakeKeepsPromise
<1>1. InitWithPower => WholeInv /\ Gov!Promise!Init
  BY InitWhole, SamePromise
<1>2. WholeInv /\ [NextWithPower]_allVars => WholeInv' /\ [Gov!Promise!Next]_(Gov!Promise!vars)
  BY NextWhole, SamePromise
<1> QED BY <1>1, <1>2, PTL DEF SpecWithPower, StakeKeepsPromise, Gov!Promise!Spec

----------------------------------------------------------------------------
(* The hook keeps no staker in. *)

\* What the hook asks of the power of the delegatees.
HookPasses(from, to, amount) ==
    \A type \in Types :
        Gov!CanMoveDelegates(type, Gov!GetDelegatee(type, from), Gov!GetDelegatee(type, to), amount)

HookLocksNobodyIn ==
    \A u \in Callers : balances[u] # 0 =>
        /\ RedeemPasses(u) /\ HookPasses(u, ZERO, balances[u])
        /\ \A v \in Users : TransferPasses(u, v) /\ HookPasses(u, v, balances[u])

\* With RedeemPassesIsGuard and TransferPassesIsGuard these are the whole
\* guards: what the hook does otherwise is a choice of values for the next
\* state, of variables that the rest of the transaction does not change.
LEMMA HookPassesIsGuard ==
    ASSUME ClockInv, NEW u \in Callers
    PROVE  /\ RedeemWithPower(u, u, balances[u]) <=>
                /\ Redeem(u, u, balances[u])
                /\ HookPasses(u, ZERO, balances[u])
                /\ snapshots' = [type \in Types |->
                       Gov!MoveDelegatesByType(type, Gov!GetDelegatee(type, u),
                                               Gov!GetDelegatee(type, ZERO), balances[u])]
                /\ UNCHANGED delegates
           /\ \A v \in Users :
                TransferWithPower(u, v, balances[u]) <=>
                /\ Transfer(u, v, balances[u])
                /\ HookPasses(u, v, balances[u])
                /\ snapshots' = [type \in Types |->
                       Gov!MoveDelegatesByType(type, Gov!GetDelegatee(type, u),
                                               Gov!GetDelegatee(type, v), balances[u])]
                /\ UNCHANGED delegates
<1>1. AmountToRedeem(u, balances[u]) = balances[u]
  BY ConstantsType DEF AmountToRedeem, ClockInv, TypeOK
<1> QED BY <1>1 DEF RedeemWithPower, TransferWithPower, HookPasses, Gov!BeforeTokenTransfer

LEMMA PowerCoversStake ==
    ASSUME Power!GovernanceInv, NEW u \in Users, NEW to
    PROVE  HookPasses(u, to, balances[u])
<1> SUFFICES ASSUME NEW type \in Types
             PROVE  Gov!CanMoveDelegates(type, Gov!GetDelegatee(type, u),
                                         Gov!GetDelegatee(type, to), balances[u])
  BY DEF HookPasses
<1>1. Power!PreviousPower(type, Power!GetDelegatee(type, u)) >= balances[u]
  BY PowerAssumed, Power!PowerCoversBalance
<1> QED BY <1>1 DEF Gov!CanMoveDelegates, Gov!GetDelegatee, Gov!PreviousPower, Gov!Latest,
                Power!GetDelegatee, Power!PreviousPower, Power!Latest

\* Whoever the power was delegated to, the whole balance can be redeemed in the
\* unstake window and transferred at any time: the power the hook subtracts
\* from is never below the balance that leaves.
THEOREM HookLetsLeave == SpecWithPower => []HookLocksNobodyIn
<1>1. InitWithPower => WholeInv
  BY InitWhole
<1>2. WholeInv /\ [NextWithPower]_allVars => WholeInv'
  BY NextWhole
<1>3. WholeInv /\ NothingLocksIn => HookLocksNobodyIn
  BY PowerCoversStake, ConstantsType
     DEF WholeInv, Power!HistoryInv, NothingLocksIn, HookLocksNobodyIn
<1> QED BY <1>1, <1>2, <1>3, PowerKeepsStaking, StakersCanLeave, PTL DEF SpecWithPower

=============================================================================
