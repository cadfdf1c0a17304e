-------------------------- MODULE DistributionLemmas --------------------------
(***************************************************************************)
(* What the index arithmetic of DistributionManager guarantees to the      *)
(* contracts that keep their state with it: an index never decreases, an   *)
(* update moves it by no more than what was emitted since the last one,    *)
(* and rewards are rounded down.                                           *)
(***************************************************************************)
EXTENDS DistributionManager, TLAPS

----------------------------------------------------------------------------
(* Arithmetic. *)

LEMMA ProductNat == \A a, b \in Nat : a * b \in Nat
  OBVIOUS

LEMMA ProductMonotone ==
    ASSUME NEW a \in Nat, NEW b \in Nat, NEW c \in Nat, b <= c
    PROVE  a * b <= a * c
  OBVIOUS

LEMMA QuotientNat == \A n \in Nat, d \in Nat \ {0} : n \div d \in Nat
  OBVIOUS

\* A quotient lies where its dividend lies between multiples of the divisor.
LEMMA QuotientBounds ==
    ASSUME NEW n \in Nat, NEW d \in Nat \ {0}, NEW lo \in Nat, NEW hi \in Nat,
           lo * d <= n, n <= hi * d
    PROVE  lo <= n \div d /\ n \div d <= hi
  OBVIOUS

\* Rounding a quotient down and multiplying it back gives no more.
LEMMA QuotientTimes ==
    ASSUME NEW n \in Int, NEW d \in Nat \ {0}
    PROVE  n \div d \in Int /\ d * (n \div d) <= n
  OBVIOUS

LEMMA QuotientMonotone ==
    ASSUME NEW m \in Int, NEW n \in Int, NEW d \in Nat \ {0}, m <= n
    PROVE  m \div d <= n \div d
  OBVIOUS

LEMMA ScaledOrder ==
    ASSUME NEW s \in Nat, NEW a \in Nat, NEW b \in Nat, NEW c \in Nat, NEW d \in Nat,
           a + b <= c + d
    PROVE  s * a + s * b <= s * c + s * d
<1>1. s * (a + b) <= s * (c + d)
  BY ProductMonotone
<1> QED BY <1>1

\* A smaller stake does not earn more.
LEMMA ShareOfQuotient ==
    ASSUME NEW n \in Nat, NEW total \in Nat \ {0}, NEW part \in Nat, part <= total
    PROVE  (n \div total) * part <= n
<1> DEFINE q == n \div total
<1>1. q \in Nat /\ total * q <= n
  BY QuotientNat, QuotientTimes
<1> HIDE DEF q
<1>2. q * part <= q * total
  BY <1>1, ProductMonotone
<1>3. q * part \in Nat /\ q * total = total * q
  BY <1>1
<1>4. q * part <= n
  BY <1>1, <1>2, <1>3
<1> QED BY <1>4 DEF q

\* An advance of the index splits a position's difference.
LEMMA SplitDifference ==
    ASSUME NEW b \in Nat, NEW i \in Nat, NEW x \in Nat, NEW y \in Nat
    PROVE  b * (i - y) = b * (x - y) + b * (i - x)
  OBVIOUS

----------------------------------------------------------------------------
(* The index of a distribution. *)

\* An index never decreases, and is a natural number.
LEMMA IndexGrows ==
    ASSUME NEW asset \in AssetData, NEW total \in Nat, NEW t \in Nat,
           asset.lastUpdateTimestamp <= t
    PROVE  /\ GetAssetIndex(asset, total, t) \in Nat
           /\ asset.index <= GetAssetIndex(asset, total, t)
<1>1. CASE NothingToDistribute(asset, total, t)
  BY <1>1 DEF GetAssetIndex, AssetData
<1>2. CASE ~NothingToDistribute(asset, total, t)
  <2> DEFINE delta == TimeDelta(asset.lastUpdateTimestamp, t)
  <2>1. delta \in Nat /\ total \in Nat \ {0}
    BY <1>2, DistributionAssumption
    DEF NothingToDistribute, TimeDelta, Earlier, AssetData
  <2>2. asset.emissionPerSecond \in Nat /\ asset.index \in Nat /\ Scale \in Nat
    BY DistributionAssumption DEF AssetData
  <2> HIDE DEF delta
  <2>3. asset.emissionPerSecond * delta * Scale \in Nat
    BY <2>1, <2>2, ProductNat
  <2>4. (asset.emissionPerSecond * delta * Scale) \div total \in Nat
    BY <2>1, <2>3, QuotientNat
  <2> QED BY <1>2, <2>2, <2>4 DEF GetAssetIndex, delta
<1> QED BY <1>1, <1>2

LEMMA UpdateAssetStateType ==
    ASSUME NEW asset \in AssetData, NEW total \in Nat, NEW t \in Nat,
           asset.lastUpdateTimestamp <= t
    PROVE  /\ UpdateAssetState(asset, total, t) \in AssetData
           /\ UpdateAssetState(asset, total, t).lastUpdateTimestamp = t
           /\ UpdateAssetState(asset, total, t).index = GetAssetIndex(asset, total, t)
           /\ UpdateAssetState(asset, total, t).emissionPerSecond = asset.emissionPerSecond
  BY IndexGrows DEF UpdateAssetState, AssetData

\* Once updated, an index stays for the rest of the second, whatever the supply.
LEMMA IndexOfUpdated ==
    ASSUME NEW asset \in AssetData, NEW total \in Nat
    PROVE  GetAssetIndex(asset, total, asset.lastUpdateTimestamp) = asset.index
  BY DEF GetAssetIndex, NothingToDistribute

\* With the supply unchanged, the index of a second is not past that of the next.
LEMMA IndexGrowsInTime ==
    ASSUME NEW asset \in AssetData, NEW total \in Nat, NEW t \in Nat,
           asset.lastUpdateTimestamp <= t
    PROVE  GetAssetIndex(asset, total, t) <= GetAssetIndex(asset, total, t + 1)
<1> DEFINE e == asset.emissionPerSecond
           l == asset.lastUpdateTimestamp
<1>1. /\ e \in Nat /\ l \in Nat /\ l <= t /\ asset.index \in Nat
      /\ Scale \in Nat \ {0} /\ DISTRIBUTION_END \in Nat
  BY DistributionAssumption DEF AssetData
<1>2. CASE NothingToDistribute(asset, total, t)
  <2>1. GetAssetIndex(asset, total, t) = asset.index
    BY <1>2 DEF GetAssetIndex
  <2>2. asset.index <= GetAssetIndex(asset, total, t + 1)
    BY <1>1, IndexGrows
  <2> QED BY <2>1, <2>2
<1>3. CASE ~NothingToDistribute(asset, total, t)
  <2> DEFINE d == TimeDelta(l, t)
             f == TimeDelta(l, t + 1)
  <2>1. total # 0 /\ e # 0 /\ l < DISTRIBUTION_END /\ l # t
    BY <1>1, <1>3 DEF NothingToDistribute
  <2>2. ~NothingToDistribute(asset, total, t + 1)
    BY <1>1, <2>1 DEF NothingToDistribute
  <2>3. d \in Nat /\ f \in Nat /\ d <= f
    BY <1>1, <2>1 DEF TimeDelta, Earlier
  <2>4. /\ GetAssetIndex(asset, total, t) = (e * d * Scale) \div total + asset.index
        /\ GetAssetIndex(asset, total, t + 1) = (e * f * Scale) \div total + asset.index
    BY <1>3, <2>2 DEF GetAssetIndex
  <2> HIDE DEF d, f, e
  <2>5. /\ e * d \in Nat /\ e * f \in Nat /\ e * d <= e * f
        /\ e * d * Scale \in Nat /\ e * f * Scale \in Nat
    BY <1>1, <2>3, ProductNat, ProductMonotone
  <2>6. e * d * Scale <= e * f * Scale
    <3>1. Scale * (e * d) <= Scale * (e * f)
      BY <1>1, <2>5, ProductMonotone
    <3>2. Scale * (e * d) = e * d * Scale /\ Scale * (e * f) = e * f * Scale
      BY <1>1, <2>5
    <3> QED BY <3>1, <3>2
  <2>7. (e * d * Scale) \div total <= (e * f * Scale) \div total
    BY <2>1, <2>5, <2>6, QuotientMonotone
  <2>8. (e * d * Scale) \div total \in Nat /\ (e * f * Scale) \div total \in Nat
    BY <2>1, <2>5, QuotientNat
  <2> QED BY <1>1, <2>4, <2>7, <2>8
<1> QED BY <1>2, <1>3

----------------------------------------------------------------------------
(* What was emitted and is not yet in an index. *)

\* Emitted by time t since the last update of a distribution over supply.
PendingOf(asset, supply, t) ==
    IF supply = 0 \/ asset.lastUpdateTimestamp >= DISTRIBUTION_END THEN 0
    ELSE asset.emissionPerSecond * TimeDelta(asset.lastUpdateTimestamp, t)

\* How far an update at time t that is told total moves the index.
AdvanceOf(asset, total, t) == GetAssetIndex(asset, total, t) - asset.index

LEMMA AdvanceOfType ==
    ASSUME NEW asset \in AssetData, NEW total \in Nat, NEW t \in Nat,
           asset.lastUpdateTimestamp <= t
    PROVE  AdvanceOf(asset, total, t) \in Nat
<1>1. GetAssetIndex(asset, total, t) \in Nat
      /\ asset.index <= GetAssetIndex(asset, total, t)
  BY IndexGrows
<1>2. asset.index \in Nat
  BY DEF AssetData
<1> QED BY <1>1, <1>2 DEF AdvanceOf

LEMMA PendingOfType ==
    ASSUME NEW asset \in AssetData, NEW supply, NEW t \in Nat,
           asset.lastUpdateTimestamp <= t
    PROVE  PendingOf(asset, supply, t) \in Nat
<1> DEFINE delta == TimeDelta(asset.lastUpdateTimestamp, t)
<1>1. asset.emissionPerSecond \in Nat /\ asset.lastUpdateTimestamp \in Nat
  BY DEF AssetData
<1>2. asset.lastUpdateTimestamp < DISTRIBUTION_END => delta \in Nat
  BY <1>1, DistributionAssumption DEF TimeDelta, Earlier
<1> HIDE DEF delta
<1> QED BY <1>1, <1>2, DistributionAssumption, ProductNat DEF PendingOf, delta

\* After an update nothing is pending for the rest of the second.
LEMMA NothingPendingOf ==
    ASSUME NEW asset \in AssetData, NEW supply, NEW t \in Nat,
           asset.lastUpdateTimestamp = t
    PROVE  PendingOf(asset, supply, t) = 0
<1>1. asset.emissionPerSecond \in Nat
  BY DEF AssetData
<1>2. t < DISTRIBUTION_END => TimeDelta(t, t) = 0
  BY DistributionAssumption DEF TimeDelta, Earlier
<1> QED BY <1>1, <1>2, DistributionAssumption DEF PendingOf

\* What an update adds to the index, over the whole supply, is no more than
\* what was pending, if it was told no less than the supply.
LEMMA AdvanceOfIsPending ==
    ASSUME NEW asset \in AssetData, NEW supply \in Nat, NEW total \in Nat, NEW t \in Nat,
           asset.lastUpdateTimestamp <= t, total = 0 \/ supply <= total
    PROVE  AdvanceOf(asset, total, t) * supply <= Scale * PendingOf(asset, supply, t)
<1> DEFINE delta == TimeDelta(asset.lastUpdateTimestamp, t)
           n == asset.emissionPerSecond * delta
<1>1. /\ asset.emissionPerSecond \in Nat /\ asset.lastUpdateTimestamp \in Nat
      /\ asset.index \in Nat /\ Scale \in Nat \ {0} /\ DISTRIBUTION_END \in Nat
  BY DistributionAssumption DEF AssetData
<1>2. CASE NothingToDistribute(asset, total, t) \/ supply = 0
  <2>1. AdvanceOf(asset, total, t) * supply = 0
    <3>1. CASE NothingToDistribute(asset, total, t)
      <4>1. AdvanceOf(asset, total, t) = 0
        BY <1>1, <3>1 DEF AdvanceOf, GetAssetIndex
      <4> QED BY <1>1, <4>1
    <3>2. CASE supply = 0
      <4>1. AdvanceOf(asset, total, t) \in Int
        BY AdvanceOfType
      <4> QED BY <3>2, <4>1
    <3> QED BY <1>2, <3>1, <3>2
  <2>2. Scale * PendingOf(asset, supply, t) \in Nat
    BY <1>1, PendingOfType, ProductNat
  <2> QED BY <2>1, <2>2
<1>3. CASE ~(NothingToDistribute(asset, total, t) \/ supply = 0)
  <2>1. /\ total # 0 /\ supply # 0 /\ supply <= total
        /\ asset.lastUpdateTimestamp < DISTRIBUTION_END
    BY <1>1, <1>3 DEF NothingToDistribute
  <2>2. delta \in Nat
    BY <1>1, <2>1 DEF TimeDelta, Earlier
  <2>3. PendingOf(asset, supply, t) = n
    BY <1>1, <2>1 DEF PendingOf
  <2> HIDE DEF delta
  <2>4. n \in Nat
    BY <1>1, <2>2, ProductNat
  <2>5. GetAssetIndex(asset, total, t) = (n * Scale) \div total + asset.index
    BY <1>3 DEF GetAssetIndex, delta
  <2> HIDE DEF n
  <2>6. n * Scale \in Nat /\ n * Scale = Scale * n
    BY <1>1, <2>4, ProductNat
  <2>7. (n * Scale) \div total \in Nat
    BY <2>1, <2>6, QuotientNat
  <2>8. AdvanceOf(asset, total, t) = (n * Scale) \div total
    BY <1>1, <2>5, <2>7 DEF AdvanceOf
  <2>9. ((n * Scale) \div total) * supply <= n * Scale
    BY <1>1, <2>1, <2>6, ShareOfQuotient
  <2> QED BY <2>3, <2>6, <2>8, <2>9
<1> QED BY <1>2, <1>3

\* A second makes no more pending than is emitted in it.
LEMMA PendingOfNextSecond ==
    ASSUME NEW asset \in AssetData, NEW supply \in Nat, NEW t \in Nat,
           asset.lastUpdateTimestamp <= t
    PROVE  PendingOf(asset, supply, t + 1)
             <= PendingOf(asset, supply, t)
                  + (IF supply > 0 /\ t < DISTRIBUTION_END THEN asset.emissionPerSecond ELSE 0)
<1> DEFINE e == asset.emissionPerSecond
           l == asset.lastUpdateTimestamp
           p == PendingOf(asset, supply, t)
           q == PendingOf(asset, supply, t + 1)
<1>1. e \in Nat /\ l \in Nat /\ DISTRIBUTION_END \in Nat
  BY DistributionAssumption DEF AssetData
<1>2. /\ p = IF supply = 0 \/ l >= DISTRIBUTION_END THEN 0
             ELSE e * (Earlier(t, DISTRIBUTION_END) - l)
      /\ q = IF supply = 0 \/ l >= DISTRIBUTION_END THEN 0
             ELSE e * (Earlier(t + 1, DISTRIBUTION_END) - l)
  BY DEF PendingOf, TimeDelta
<1>3. p \in Nat /\ q \in Nat
  BY <1>1, PendingOfType
<1> HIDE DEF e, p, q
<1>4. CASE supply = 0 \/ l >= DISTRIBUTION_END
  BY <1>1, <1>2, <1>4 DEF p, q, e
<1>5. CASE supply # 0 /\ l < DISTRIBUTION_END /\ t < DISTRIBUTION_END
  <2>1. Earlier(t, DISTRIBUTION_END) = t /\ Earlier(t + 1, DISTRIBUTION_END) = t + 1
    BY <1>1, <1>5 DEF Earlier
  <2>2. p = e * (t - l) /\ q = e * (t + 1 - l)
    BY <1>1, <1>2, <1>5, <2>1
  <2>3. e * (t + 1 - l) = e * (t - l) + e
    BY <1>1
  <2>4. q = p + e
    BY <2>2, <2>3
  <2> QED BY <1>1, <1>3, <1>5, <2>4 DEF p, q, e
<1>6. CASE supply # 0 /\ l < DISTRIBUTION_END /\ ~(t < DISTRIBUTION_END)
  <2>1. Earlier(t, DISTRIBUTION_END) = DISTRIBUTION_END
        /\ Earlier(t + 1, DISTRIBUTION_END) = DISTRIBUTION_END
    BY <1>1, <1>6 DEF Earlier
  <2>2. q = p
    BY <1>1, <1>2, <1>6, <2>1
  <2> QED BY <1>1, <1>3, <1>6, <2>2 DEF p, q, e
<1> QED BY <1>1, <1>4, <1>5, <1>6

----------------------------------------------------------------------------
(* Rewards. *)

LEMMA RewardsType ==
    ASSUME NEW bal \in Nat, NEW i \in Nat, NEW j \in Nat, j <= i
    PROVE  GetRewards(bal, i, j) \in Nat
<1>1. i - j \in Nat
  OBVIOUS
<1>2. bal * (i - j) \in Nat
  BY <1>1, ProductNat
<1> QED BY <1>2, QuotientNat, DistributionAssumption DEF GetRewards

LEMMA RewardsRounded ==
    ASSUME NEW bal \in Nat, NEW i \in Nat, NEW j \in Nat
    PROVE  GetRewards(bal, i, j) \in Int /\ Scale * GetRewards(bal, i, j) <= bal * (i - j)
<1>1. bal * (i - j) \in Int
  OBVIOUS
<1> QED BY <1>1, QuotientTimes, DistributionAssumption DEF GetRewards

LEMMA RewardsGrow ==
    ASSUME NEW bal \in Nat, NEW i \in Nat, NEW k \in Nat, NEW j \in Nat, i <= k
    PROVE  GetRewards(bal, i, j) <= GetRewards(bal, k, j)
<1>1. bal * (i - j) \in Int /\ bal * (k - j) \in Int
  OBVIOUS
<1>2. bal * (k - j) = bal * (i - j) + bal * (k - i) /\ bal * (k - i) \in Nat
  <2>1. k - i \in Nat
    OBVIOUS
  <2> QED BY <2>1, SplitDifference, ProductNat
<1>3. bal * (i - j) <= bal * (k - j)
  BY <1>1, <1>2
<1> QED BY <1>1, <1>3, QuotientMonotone, DistributionAssumption DEF GetRewards

\* Nothing is earned without a balance or without an advance.
LEMMA NoRewards ==
    ASSUME NEW bal \in Nat, NEW i \in Nat, NEW j \in Nat, bal = 0 \/ i = j
    PROVE  GetRewards(bal, i, j) = 0
<1>1. bal * (i - j) = 0
  OBVIOUS
<1>2. 0 \div Scale = 0
  BY DistributionAssumption
<1> QED BY <1>1, <1>2 DEF GetRewards

=============================================================================
