--------------------------- MODULE IncentivesProofs ---------------------------
(***************************************************************************)
(* Theorems about IncentivesController: its type, that it never makes a    *)
(* transaction revert, that payments add up, that the rewards of all users *)
(* over all tokens never exceed what was emitted, and that within a second *)
(* they only move by a claim.                                              *)
(*                                                                         *)
(* A transaction is a sequence of reports, one for a token's operation, as *)
(* many as the list has entries for a claim.  What a report guarantees is  *)
(* therefore stated about a record of the controller's state and any       *)
(* balances, and carried along a list by ClaimStaysIn.                     *)
(***************************************************************************)
EXTENDS IncentivesController, DistributionLemmas, SumLemmas, SequenceTheorems

----------------------------------------------------------------------------
(* A claim is a sequence of reports. *)

FoldStep(g, s, list, user) ==
    IF s = {} THEN Controller ELSE Report(g[s \ {Max(s)}], list[Max(s)], user)

IsFold(g, k, list, user) ==
    g = [s \in SUBSET (1..k) |-> FoldStep(g, s, list, user)]

LEMMA ClaimIsChosen ==
    ASSUME NEW list \in Seq(PoolTokens), NEW user
    PROVE  ClaimOver(list, user) =
              (CHOOSE g : IsFold(g, Len(list), list, user))[1..Len(list)]
<1>1. ClaimOver(list, user) =
         (CHOOSE g : g = [s \in SUBSET (DOMAIN list) |-> FoldStep(g, s, list, user)])[DOMAIN list]
  BY Zenon DEF ClaimOver, FoldLeft, MapThenFoldSet, FoldStep, Report, HandleAction
<1>2. DOMAIN list = 1..Len(list)
  OBVIOUS
<1> QED BY <1>1, <1>2, Zenon DEF IsFold

LEMMA MaxOfTop ==
    ASSUME NEW k \in Nat, NEW s \in SUBSET (1..k), k \in s
    PROVE  Max(s) = k
<1>1. \A y \in s : k >= y
  OBVIOUS
<1>2. ASSUME NEW x \in s, \A y \in s : x >= y PROVE x = k
  BY <1>2
<1> QED BY <1>1, <1>2 DEF Max

\* The recursion has a solution up to any number.
LEMMA FoldExists ==
    ASSUME NEW n \in Nat, NEW list, NEW user
    PROVE  \E g : IsFold(g, n, list, user)
<1> DEFINE G == {k \in 0..n : \E g : IsFold(g, k, list, user)}
<1>1. 0 \in G
  <2> DEFINE g == [s \in SUBSET (1..0) |-> Controller]
  <2>1. \A s \in SUBSET (1..0) : s = {}
    OBVIOUS
  <2>2. g = [s \in SUBSET (1..0) |-> FoldStep(g, s, list, user)]
    BY <2>1 DEF FoldStep
  <2> HIDE DEF g
  <2>3. IsFold(g, 0, list, user) /\ 0 \in 0..n
    BY <2>2 DEF IsFold
  <2> QED BY <2>3
<1>2. ASSUME NEW k \in 0..n, k < n, k \in G PROVE k + 1 \in G
  <2>1. PICK g : IsFold(g, k, list, user)
    BY <1>2
  <2> DEFINE top == k + 1
             h == [s \in SUBSET (1..top) |->
                     IF top \in s THEN Report(g[s \ {top}], list[top], user) ELSE g[s]]
  <2>2. ASSUME NEW s \in SUBSET (1..top) PROVE h[s] = FoldStep(h, s, list, user)
    <3>1. CASE top \in s
      <4>1. s \ {top} \in SUBSET (1..top) /\ top \notin s \ {top} /\ s # {}
        BY <3>1
      <4>2. h[s \ {top}] = g[s \ {top}] /\ h[s] = Report(g[s \ {top}], list[top], user)
        BY <3>1, <4>1
      <4>3. Max(s) = top
        BY <3>1, MaxOfTop
      <4> HIDE DEF h, top
      <4> QED BY <4>1, <4>2, <4>3 DEF FoldStep
    <3>2. CASE top \notin s
      <4>1. s \in SUBSET (1..k) /\ \A r \in SUBSET s : h[r] = g[r]
        BY <3>2
      <4>2. g[s] = FoldStep(g, s, list, user)
        BY <2>1, <4>1 DEF IsFold
      <4>3. h[s \ {Max(s)}] = g[s \ {Max(s)}] /\ h[s] = g[s]
        BY <4>1
      <4> HIDE DEF h, top
      <4> QED BY <4>2, <4>3 DEF FoldStep
    <3> QED BY <3>1, <3>2
  <2>3. h = [s \in SUBSET (1..top) |-> h[s]]
    OBVIOUS
  <2> HIDE DEF h
  <2>4. h = [s \in SUBSET (1..top) |-> FoldStep(h, s, list, user)]
    BY <2>2, <2>3
  <2>5. IsFold(h, top, list, user) /\ top \in 0..n
    BY <1>2, <2>4 DEF IsFold
  <2> QED BY <2>5
<1> HIDE DEF G
<1>3. n \in G
  BY <1>1, <1>2, StepInduction
<1> QED BY <1>3 DEF G

\* Every report for the user leads from G to G.
KeptByReports(G, user) ==
    \A token \in PoolTokens : \A c \in G : Report(c, token, user) \in G

\* What holds of the controller and is kept by a report holds after a claim.
LEMMA ClaimStaysIn ==
    ASSUME NEW list \in Seq(PoolTokens), NEW user \in Users, NEW G, Controller \in G,
           KeptByReports(G, user)
    PROVE  ClaimOver(list, user) \in G
<1> DEFINE n == Len(list)
           g == CHOOSE g : IsFold(g, n, list, user)
           H == {k \in 0..n : g[1..k] \in G}
<1>0. n \in Nat
  OBVIOUS
<1>1. \A k \in 1..n : list[k] \in PoolTokens
  OBVIOUS
<1>2. IsFold(g, n, list, user)
  BY <1>0, FoldExists
<1>3. ClaimOver(list, user) = g[1..n]
  BY ClaimIsChosen
<1> HIDE DEF g, n
<1>4. 0 \in H
  <2>1. 1..0 = {} /\ {} \in SUBSET (1..n)
    OBVIOUS
  <2>2. g[{}] = Controller
    BY <1>2, <2>1 DEF IsFold, FoldStep
  <2>3. g[1..0] \in G /\ 0 \in 0..n
    BY <1>0, <2>1, <2>2
  <2> QED BY <2>3
<1>5. ASSUME NEW k \in 0..n, k < n, k \in H PROVE k + 1 \in H
  <2> DEFINE top == k + 1
  <2>1. /\ top \in 1..n /\ top \in Nat /\ 1..top \in SUBSET (1..n) /\ 1..top # {}
        /\ top \in 1..top /\ (1..top) \ {top} = 1..k
    BY <1>0, <1>5
  <2>2. Max(1..top) = top
    BY <2>1, MaxOfTop
  <2>3. g[1..top] = Report(g[1..k], list[top], user)
    BY <1>2, <2>1, <2>2 DEF IsFold, FoldStep
  <2>4. g[1..k] \in G
    BY <1>5
  <2>5. g[1..top] \in G
    BY <1>1, <2>1, <2>3, <2>4 DEF KeptByReports
  <2> QED BY <2>1, <2>5
<1> HIDE DEF H
<1>6. \A k \in 0..n : k \in H
  BY ONLY <1>0, <1>4, <1>5, StepInduction
<1>7. n \in H
  BY <1>0, <1>6
<1> QED BY <1>3, <1>7 DEF H

----------------------------------------------------------------------------
(* What a call of the controller does to its state. *)

ControllerState ==
    [assets : [Assets -> AssetData], index : [Assets -> [Users -> Nat]],
     unclaimed : [Users -> Nat], reverted : BOOLEAN]

\* No update is from the future, nobody is ahead of an index, and a contract
\* without a distribution has emitted nothing.
GoodAt(t, c) ==
    /\ c \in ControllerState
    /\ c.reverted = FALSE
    /\ \A a \in Assets : /\ c.assets[a].lastUpdateTimestamp <= t
                         /\ \A u \in Users : c.index[a][u] <= c.assets[a].index
    /\ \A s \in Strangers : /\ c.assets[s].emissionPerSecond = 0
                            /\ c.assets[s].index = 0

LEMMA GoodValues ==
    ASSUME NEW t, NEW c, GoodAt(t, c), NEW a \in Assets, NEW u \in Users
    PROVE  /\ c.assets[a] \in AssetData
           /\ c.assets[a].index \in Nat /\ c.assets[a].emissionPerSecond \in Nat
           /\ c.assets[a].lastUpdateTimestamp \in Nat /\ c.assets[a].lastUpdateTimestamp <= t
           /\ c.index[a] \in [Users -> Nat] /\ c.index[a][u] \in Nat
           /\ c.index[a][u] <= c.assets[a].index
           /\ c.unclaimed[u] \in Nat
  BY DEF GoodAt, ControllerState, AssetData

\* The state d comes from c by updating the distribution of the asset, told
\* total, and settling the user with it.
Settles(t, c, d, asset, user, bal, total) ==
    /\ d.assets \in [Assets -> AssetData] /\ d.index \in [Assets -> [Users -> Nat]]
    /\ d.unclaimed \in [Users -> Nat]
    /\ d.assets[asset].lastUpdateTimestamp = t
    /\ d.assets[asset].index = GetAssetIndex(c.assets[asset], total, t)
    /\ d.index[asset][user] = d.assets[asset].index
    /\ d.unclaimed[user] = c.unclaimed[user]
           + GetRewards(bal, d.assets[asset].index, c.index[asset][user])
    /\ \A a \in Assets \ {asset} : d.assets[a] = c.assets[a] /\ d.index[a] = c.index[a]
    /\ \A v \in Users \ {user} :
           d.index[asset][v] = c.index[asset][v] /\ d.unclaimed[v] = c.unclaimed[v]

LEMMA UpdateSettles ==
    ASSUME now \in Nat, NEW c, GoodAt(now, c), NEW asset \in Assets, NEW user \in Users,
           NEW bal \in Nat, NEW total \in Nat
    PROVE  /\ GoodAt(now, UpdateUserAsset(c, user, asset, bal, total))
           /\ Settles(now, c, UpdateUserAsset(c, user, asset, bal, total),
                      asset, user, bal, total)
<1> DEFINE d == UpdateUserAsset(c, user, asset, bal, total)
           old == c.assets[asset]
           new == UpdateAssetState(old, total, now)
           j == c.index[asset][user]
           accrued == GetRewards(bal, new.index, j)
<1>1. /\ old \in AssetData /\ old.lastUpdateTimestamp <= now /\ old.index \in Nat
      /\ j \in Nat /\ j <= old.index
  BY GoodValues
<1>2. /\ new \in AssetData /\ new.lastUpdateTimestamp = now
      /\ new.index = GetAssetIndex(old, total, now)
      /\ new.emissionPerSecond = old.emissionPerSecond
      /\ new.index \in Nat /\ old.index <= new.index
  <2> HIDE DEF old
  <2> QED BY <1>1, UpdateAssetStateType, IndexGrows
<1>3. accrued \in Nat /\ (bal = 0 => accrued = 0)
  <2> HIDE DEF old, new, j
  <2>1. j <= new.index
    BY <1>1, <1>2
  <2> QED BY <1>1, <1>2, <2>1, RewardsType, NoRewards
<1>4. /\ c.assets \in [Assets -> AssetData] /\ c.index \in [Assets -> [Users -> Nat]]
      /\ c.unclaimed \in [Users -> Nat] /\ c.reverted = FALSE
  BY DEF GoodAt, ControllerState
<1>5. d = [assets    |-> [c.assets EXCEPT ![asset] = new],
           index     |-> [c.index EXCEPT ![asset][user] = new.index],
           unclaimed |-> [c.unclaimed EXCEPT ![user] = @ + accrued],
           reverted  |-> FALSE]
  <2> DEFINE gain == IF bal # 0 THEN accrued ELSE 0
             behind == c.reverted \/ (bal # 0 /\ j > new.index)
  <2>1. d = [assets    |-> [c.assets EXCEPT ![asset] = new],
             index     |-> [c.index EXCEPT ![asset][user] = new.index],
             unclaimed |-> [c.unclaimed EXCEPT ![user] = @ + gain],
             reverted  |-> behind]
    BY Zenon DEF UpdateUserAsset
  <2>2. gain = accrued /\ behind = FALSE
    BY <1>1, <1>2, <1>3, <1>4
  <2> HIDE DEF d, new, accrued, j, old, gain, behind
  <2> QED BY <2>1, <2>2
<1> HIDE DEF d, new, accrued, j, old
<1>6. /\ d.assets = [c.assets EXCEPT ![asset] = new]
      /\ d.index = [c.index EXCEPT ![asset][user] = new.index]
      /\ d.unclaimed = [c.unclaimed EXCEPT ![user] = c.unclaimed[user] + accrued]
      /\ d.reverted = FALSE
  BY <1>5
<1>7. /\ d.assets \in [Assets -> AssetData] /\ d.index \in [Assets -> [Users -> Nat]]
      /\ d.unclaimed \in [Users -> Nat]
  BY <1>2, <1>3, <1>4, <1>6
<1>8. d \in ControllerState
  BY <1>5, <1>6, <1>7 DEF ControllerState
<1>9. /\ d.assets[asset] = new /\ d.index[asset][user] = new.index
      /\ d.unclaimed[user] = c.unclaimed[user] + accrued
      /\ \A a \in Assets \ {asset} : d.assets[a] = c.assets[a] /\ d.index[a] = c.index[a]
      /\ \A v \in Users \ {user} :
             d.index[asset][v] = c.index[asset][v] /\ d.unclaimed[v] = c.unclaimed[v]
  BY <1>4, <1>6
<1>10. Settles(now, c, d, asset, user, bal, total)
  BY <1>2, <1>7, <1>9 DEF Settles, accrued, old, j
<1>11. ASSUME NEW a \in Assets
       PROVE  /\ d.assets[a].lastUpdateTimestamp <= now
              /\ \A u \in Users : d.index[a][u] <= d.assets[a].index
  <2>1. CASE a = asset
    <3>1. ASSUME NEW u \in Users PROVE d.index[a][u] <= d.assets[a].index
      <4>1. c.index[asset][u] \in Nat /\ c.index[asset][u] <= old.index
        BY GoodValues DEF old
      <4> QED BY <1>1, <1>2, <1>9, <2>1, <4>1
    <3> QED BY <1>2, <1>9, <2>1, <3>1
  <2>2. CASE a # asset
    BY <1>9, <2>2 DEF GoodAt
  <2> QED BY <2>1, <2>2
<1>12. ASSUME NEW s \in Strangers
       PROVE  d.assets[s].emissionPerSecond = 0 /\ d.assets[s].index = 0
  <2>1. s \in Assets /\ c.assets[s].emissionPerSecond = 0 /\ c.assets[s].index = 0
    BY DEF Assets, GoodAt
  <2>2. CASE s = asset
    <3>1. new.index = old.index
      BY <1>2, <2>1, <2>2 DEF GetAssetIndex, NothingToDistribute, old
    <3> QED BY <1>2, <1>9, <2>1, <2>2, <3>1 DEF old
  <2>3. CASE s # asset
    BY <1>9, <2>1, <2>3
  <2> QED BY <2>2, <2>3
<1>13. GoodAt(now, d)
  BY <1>6, <1>8, <1>11, <1>12 DEF GoodAt
<1> QED BY <1>10, <1>13 DEF d

----------------------------------------------------------------------------
(* The ledger of one token, without rounding and in units of 1 / Scale:    *)
(* what its holders earned up to the stored index, and what was emitted    *)
(* since and is in no index yet.                                           *)

LEMMA FiniteParties == IsFiniteSet(Users) /\ IsFiniteSet(PoolTokens)
  BY IncentivesAssumption

Positions(asset, bal, idx) == [u \in Users |-> bal[u] * (asset.index - idx[u])]

TokenOwed(asset, bal, idx, t) ==
    SumFunction(Positions(asset, bal, idx))
      + Scale * PendingOf(asset, SumFunction(bal), t)

LEMMA PositionsType ==
    ASSUME NEW asset \in AssetData, NEW bal \in [Users -> Nat], NEW idx \in [Users -> Nat]
    PROVE  /\ Positions(asset, bal, idx) \in [Users -> Int]
           /\ SumFunction(Positions(asset, bal, idx)) \in Int
           /\ SumFunction(bal) \in Nat
<1>1. asset.index \in Nat
  BY DEF AssetData
<1>2. Positions(asset, bal, idx) \in [Users -> Int]
  BY <1>1 DEF Positions
<1>3. SumFunction(bal) \in Nat
  BY SumOfNat, FiniteParties
<1> QED BY <1>2, <1>3, SumIsInt, FiniteParties

LEMMA TokenOwedType ==
    ASSUME NEW asset \in AssetData, NEW bal \in [Users -> Nat], NEW idx \in [Users -> Nat],
           NEW t \in Nat, asset.lastUpdateTimestamp <= t
    PROVE  TokenOwed(asset, bal, idx, t) \in Int
<1>1. PendingOf(asset, SumFunction(bal), t) \in Nat
  BY PendingOfType
<1>2. Scale * PendingOf(asset, SumFunction(bal), t) \in Int
  BY <1>1, DistributionAssumption
<1> QED BY <1>2, PositionsType DEF TokenOwed

\* The positions at index i, less what is taken from them, are what is left.
Leaves(i, bal, idx, bal2, idx2, taken) ==
    \A u \in Users : bal2[u] * (i - idx2[u]) + taken[u] <= bal[u] * (i - idx[u])

\* An update that is told no less than the supply only moves what is pending
\* into the index.  Whatever it then takes from a holder's position (taken)
\* leaves the ledger of the token.
LEMMA TokenUpdated ==
    ASSUME NEW t \in Nat, NEW old \in AssetData, NEW new \in AssetData,
           old.lastUpdateTimestamp <= t, new.lastUpdateTimestamp = t,
           NEW total \in Nat, new.index = GetAssetIndex(old, total, t),
           NEW bal \in [Users -> Nat], NEW bal2 \in [Users -> Nat],
           NEW idx \in [Users -> Nat], NEW idx2 \in [Users -> Nat],
           total = 0 \/ SumFunction(bal) <= total,
           NEW taken \in [Users -> Int], Leaves(new.index, bal, idx, bal2, idx2, taken)
    PROVE  TokenOwed(new, bal2, idx2, t) + SumFunction(taken) <= TokenOwed(old, bal, idx, t)
<1> USE FiniteParties
<1> DEFINE a == AdvanceOf(old, total, t)
           before == Positions(old, bal, idx)
           after == Positions(new, bal2, idx2)
           share == [u \in Users |-> a * bal[u]]
<1>1. /\ a \in Nat /\ a = new.index - old.index /\ new.index \in Nat /\ old.index \in Nat
  BY AdvanceOfType DEF AdvanceOf, AssetData
<1>2. /\ before \in [Users -> Int] /\ after \in [Users -> Int]
      /\ SumFunction(before) \in Int /\ SumFunction(after) \in Int
      /\ SumFunction(bal) \in Nat
  BY PositionsType
<1>3. share \in [Users -> Int] /\ \A u \in Users : share[u] = a * bal[u]
  <2> HIDE DEF a
  <2> QED BY <1>1
<1>4. ASSUME NEW u \in Users PROVE after[u] + taken[u] <= before[u] + share[u]
  <2>1. bal[u] \in Nat /\ idx[u] \in Nat
    OBVIOUS
  <2>2. after[u] = bal2[u] * (new.index - idx2[u]) /\ before[u] = bal[u] * (old.index - idx[u])
    BY DEF Positions
  <2>3. share[u] = bal[u] * (new.index - old.index)
    <3> HIDE DEF a, share
    <3> QED BY <1>1, <1>3, <2>1
  <2>4. bal[u] * (new.index - idx[u])
          = bal[u] * (old.index - idx[u]) + bal[u] * (new.index - old.index)
    BY <1>1, <2>1, SplitDifference
  <2>5. after[u] + taken[u] <= bal[u] * (new.index - idx[u])
    BY <2>2 DEF Leaves
  <2> QED BY <2>2, <2>3, <2>4, <2>5
<1> HIDE DEF before, after, share
<1>5. SumFunction(after) + SumFunction(taken) <= SumFunction(before) + SumFunction(share)
  BY <1>2, <1>3, <1>4, SumsOrder
<1>6. SumFunction(share) = a * SumFunction(bal)
  <2>1. bal \in [Users -> Int] /\ a \in Int
    BY <1>1
  <2> HIDE DEF a
  <2> QED BY ONLY IsFiniteSet(Users), <1>3, <2>1, SumFactor
<1> DEFINE pending == PendingOf(old, SumFunction(bal), t)
<1>7. a * SumFunction(bal) <= Scale * pending
  BY <1>2, AdvanceOfIsPending
<1>8. pending \in Nat /\ PendingOf(new, SumFunction(bal2), t) = 0
  BY PendingOfType, NothingPendingOf
<1>9. /\ TokenOwed(old, bal, idx, t) = SumFunction(before) + Scale * pending
       /\ TokenOwed(new, bal2, idx2, t) = SumFunction(after) + Scale * 0
  BY <1>8 DEF TokenOwed, before, after
<1>10. /\ SumFunction(taken) \in Int /\ SumFunction(share) \in Int
       /\ Scale * 0 = 0 /\ Scale * pending \in Int
  BY <1>3, <1>8, SumIsInt, DistributionAssumption
<1> HIDE DEF a, pending
<1>11. SumFunction(after) + SumFunction(taken) <= SumFunction(before) + Scale * pending
  <2> DEFINE x == SumFunction(after)
             y == SumFunction(taken)
             z == SumFunction(before)
             w == SumFunction(share)
             p == Scale * pending
  <2>1. x \in Int /\ y \in Int /\ z \in Int /\ w \in Int /\ p \in Int
    BY <1>2, <1>10
  <2>2. x + y <= z + w /\ w <= p
    BY <1>5, <1>6, <1>7
  <2> HIDE DEF x, y, z, w, p
  <2>3. x + y <= z + p
    BY <2>1, <2>2
  <2> QED BY <2>3 DEF x, y, z, p
<1> QED BY <1>2, <1>9, <1>10, <1>11

----------------------------------------------------------------------------
(* The ledger of all tokens. *)

Balances == [PoolTokens -> [Users -> Nat]]

TokensOwed(bal, t, c) ==
    [token \in PoolTokens |-> TokenOwed(c.assets[token], bal[token], c.index[token], t)]

LedgerOf(bal, t, c) ==
    SumFunction(TokensOwed(bal, t, c)) + Scale * SumFunction(c.unclaimed)

\* What moved from the positions to the rewards of the users.
Taken(before, after) == [u \in Users |-> Scale * (after[u] - before[u])]

LEMMA TakenSum ==
    ASSUME NEW f \in [Users -> Nat], NEW g \in [Users -> Nat]
    PROVE  /\ Taken(f, g) \in [Users -> Int]
           /\ Scale * SumFunction(f) \in Int /\ Scale * SumFunction(g) \in Int
           /\ Scale * SumFunction(g) = Scale * SumFunction(f) + SumFunction(Taken(f, g))
<1> DEFINE fs == [u \in Users |-> Scale * f[u]]
           gs == [u \in Users |-> Scale * g[u]]
           h == Taken(f, g)
<1>1. Scale \in Int
  BY DistributionAssumption
<1>2. /\ fs \in [Users -> Int] /\ gs \in [Users -> Int] /\ h \in [Users -> Int]
      /\ f \in [Users -> Int] /\ g \in [Users -> Int]
      /\ \A u \in Users : fs[u] = Scale * f[u]
      /\ \A u \in Users : gs[u] = Scale * g[u]
  BY <1>1 DEF Taken
<1>3. \A u \in Users : gs[u] = fs[u] + h[u]
  BY <1>1 DEF Taken
<1> HIDE DEF fs, gs, h
<1>4. SumFunction(gs) = SumFunction(fs) + SumFunction(h)
  BY <1>2, <1>3, SumOfSums, FiniteParties
<1>5. SumFunction(fs) = Scale * SumFunction(f) /\ SumFunction(gs) = Scale * SumFunction(g)
  BY ONLY <1>1, <1>2, SumFactor, FiniteParties
<1>6. SumFunction(f) \in Nat /\ SumFunction(g) \in Nat
  BY SumOfNat, FiniteParties
<1> QED BY <1>1, <1>2, <1>4, <1>5, <1>6 DEF h

LEMMA TokensOwedType ==
    ASSUME NEW t \in Nat, NEW c, GoodAt(t, c), NEW bal \in Balances
    PROVE  /\ TokensOwed(bal, t, c) \in [PoolTokens -> Int]
           /\ SumFunction(TokensOwed(bal, t, c)) \in Int
           /\ LedgerOf(bal, t, c) \in Int
<1>1. ASSUME NEW token \in PoolTokens
      PROVE  TokenOwed(c.assets[token], bal[token], c.index[token], t) \in Int
  <2>1. /\ c.assets[token] \in AssetData /\ c.index[token] \in [Users -> Nat]
        /\ bal[token] \in [Users -> Nat] /\ c.assets[token].lastUpdateTimestamp <= t
    BY DEF GoodAt, ControllerState, Balances, Assets
  <2> QED BY <2>1, TokenOwedType
<1>2. TokensOwed(bal, t, c) \in [PoolTokens -> Int]
  BY <1>1 DEF TokensOwed
<1>3. SumFunction(TokensOwed(bal, t, c)) \in Int
  BY <1>2, SumIsInt, FiniteParties
<1>4. c.unclaimed \in [Users -> Nat]
  BY DEF GoodAt, ControllerState
<1>5. Scale * SumFunction(c.unclaimed) \in Int
  BY <1>4, TakenSum
<1> QED BY <1>2, <1>3, <1>5 DEF LedgerOf

\* A step concerns the distribution of one token only.
OnlyChanges(token, c, bal, d, bal2) ==
    \A other \in PoolTokens \ {token} :
        /\ d.assets[other] = c.assets[other] /\ d.index[other] = c.index[other]
        /\ bal2[other] = bal[other]

\* A step of one token that updates it and pays its holders no more than their
\* positions does not increase the ledger.
LEMMA LedgerStep ==
    ASSUME NEW t \in Nat, NEW c, GoodAt(t, c), NEW d, GoodAt(t, d),
           NEW bal \in Balances, NEW bal2 \in Balances,
           NEW token \in PoolTokens, OnlyChanges(token, c, bal, d, bal2),
           NEW total \in Nat, total = 0 \/ SumFunction(bal[token]) <= total,
           d.assets[token].lastUpdateTimestamp = t,
           d.assets[token].index = GetAssetIndex(c.assets[token], total, t),
           Leaves(d.assets[token].index, bal[token], c.index[token],
                  bal2[token], d.index[token], Taken(c.unclaimed, d.unclaimed))
    PROVE  LedgerOf(bal2, t, d) <= LedgerOf(bal, t, c)
<1> DEFINE f == TokensOwed(bal, t, c)
           g == TokensOwed(bal2, t, d)
           taken == Taken(c.unclaimed, d.unclaimed)
           r == Scale * SumFunction(c.unclaimed)
           s == Scale * SumFunction(d.unclaimed)
<1>1. f \in [PoolTokens -> Int] /\ g \in [PoolTokens -> Int]
      /\ SumFunction(f) \in Int /\ SumFunction(g) \in Int
  BY TokensOwedType
<1>2. taken \in [Users -> Int] /\ r \in Int /\ s \in Int /\ s = r + SumFunction(taken)
  BY TakenSum DEF GoodAt, ControllerState
<1>3. \A other \in PoolTokens \ {token} : g[other] = f[other]
  BY DEF OnlyChanges, TokensOwed
<1>4. g[token] + SumFunction(taken) <= f[token]
  <2>1. /\ c.assets[token] \in AssetData /\ c.assets[token].lastUpdateTimestamp <= t
        /\ d.assets[token] \in AssetData
        /\ c.index[token] \in [Users -> Nat] /\ d.index[token] \in [Users -> Nat]
        /\ bal[token] \in [Users -> Nat] /\ bal2[token] \in [Users -> Nat]
    BY DEF GoodAt, ControllerState, Balances, Assets
  <2>2. TokenOwed(d.assets[token], bal2[token], d.index[token], t) + SumFunction(taken)
          <= TokenOwed(c.assets[token], bal[token], c.index[token], t)
    BY <1>2, <2>1, TokenUpdated
  <2> QED BY <2>2 DEF TokensOwed
<1>5. LedgerOf(bal, t, c) = SumFunction(f) + r /\ LedgerOf(bal2, t, d) = SumFunction(g) + s
  BY DEF LedgerOf
<1>6. SumFunction(taken) \in Int
  BY <1>2, SumIsInt, FiniteParties
<1> HIDE DEF f, g, taken, r, s
<1>7. SumFunction(g) = SumFunction(f) + g[token] - f[token]
  BY <1>1, <1>3, SumUpdate, FiniteParties
<1>8. f[token] \in Int /\ g[token] \in Int
  BY <1>1
<1> QED BY <1>1, <1>2, <1>4, <1>5, <1>6, <1>7, <1>8

----------------------------------------------------------------------------
(* What a user can claim over all tokens: RewardsBalance, for any state of *)
(* the controller, balances and time.                                      *)

EarnedOver(bal, t, c, u) ==
    [token \in PoolTokens |->
        GetRewards(bal[token][u], GetAssetIndex(c.assets[token], SumFunction(bal[token]), t),
                   c.index[token][u])]

ClaimableOf(bal, t, c, u) == c.unclaimed[u] + SumFunction(EarnedOver(bal, t, c, u))

LEMMA RewardsBalanceIs ==
    ASSUME NEW u \in Users
    PROVE  RewardsBalance(u) = ClaimableOf(poolBalances, now, Controller, u)
  BY DEF RewardsBalance, ClaimableOf, EarnedOver, Controller, PoolSupply

LEMMA EarnedOverType ==
    ASSUME NEW t \in Nat, NEW c, GoodAt(t, c), NEW bal \in Balances, NEW u \in Users
    PROVE  /\ EarnedOver(bal, t, c, u) \in [PoolTokens -> Int]
           /\ SumFunction(EarnedOver(bal, t, c, u)) \in Int
           /\ ClaimableOf(bal, t, c, u) \in Int
<1>1. ASSUME NEW token \in PoolTokens
      PROVE  GetRewards(bal[token][u],
                        GetAssetIndex(c.assets[token], SumFunction(bal[token]), t),
                        c.index[token][u]) \in Int
  <2>1. /\ c.assets[token] \in AssetData /\ c.assets[token].lastUpdateTimestamp <= t
        /\ c.index[token][u] \in Nat
    BY GoodValues DEF Assets
  <2>2. bal[token] \in [Users -> Nat] /\ bal[token][u] \in Nat
    BY DEF Balances
  <2>3. SumFunction(bal[token]) \in Nat
    BY <2>2, SumOfNat, FiniteParties
  <2>4. GetAssetIndex(c.assets[token], SumFunction(bal[token]), t) \in Nat
    BY <2>1, <2>3, IndexGrows
  <2> QED BY <2>1, <2>2, <2>4, RewardsRounded
<1>2. EarnedOver(bal, t, c, u) \in [PoolTokens -> Int]
  BY <1>1 DEF EarnedOver
<1>3. SumFunction(EarnedOver(bal, t, c, u)) \in Int
  BY <1>2, SumIsInt, FiniteParties
<1>4. c.unclaimed[u] \in Nat
  BY DEF GoodAt, ControllerState
<1> QED BY <1>2, <1>3, <1>4 DEF ClaimableOf

\* A step of one token keeps what a user can claim, if it does so for what the
\* user earned with that token at the index of now.
LEMMA ClaimableStep ==
    ASSUME NEW t \in Nat, NEW c, GoodAt(t, c), NEW d, GoodAt(t, d),
           NEW bal \in Balances, NEW bal2 \in Balances,
           NEW token \in PoolTokens, OnlyChanges(token, c, bal, d, bal2),
           d.assets[token].lastUpdateTimestamp = t,
           d.assets[token].index = GetAssetIndex(c.assets[token], SumFunction(bal[token]), t),
           NEW u \in Users,
           d.unclaimed[u] + GetRewards(bal2[token][u], d.assets[token].index,
                                       d.index[token][u])
             = c.unclaimed[u] + GetRewards(bal[token][u], d.assets[token].index,
                                           c.index[token][u])
    PROVE  ClaimableOf(bal2, t, d, u) = ClaimableOf(bal, t, c, u)
<1> DEFINE f == EarnedOver(bal, t, c, u)
           g == EarnedOver(bal2, t, d, u)
<1>1. f \in [PoolTokens -> Int] /\ g \in [PoolTokens -> Int]
      /\ SumFunction(f) \in Int /\ SumFunction(g) \in Int
  BY EarnedOverType
<1>2. \A other \in PoolTokens \ {token} : g[other] = f[other]
  BY DEF OnlyChanges, EarnedOver
<1>3. GetAssetIndex(d.assets[token], SumFunction(bal2[token]), t) = d.assets[token].index
  <2>1. d.assets[token] \in AssetData /\ bal2[token] \in [Users -> Nat]
    BY DEF GoodAt, ControllerState, Balances, Assets
  <2>2. SumFunction(bal2[token]) \in Nat
    BY <2>1, SumOfNat, FiniteParties
  <2> QED BY <2>1, <2>2, IndexOfUpdated
<1>4. d.unclaimed[u] + g[token] = c.unclaimed[u] + f[token]
  BY <1>3 DEF EarnedOver
<1>5. /\ ClaimableOf(bal, t, c, u) = c.unclaimed[u] + SumFunction(f)
      /\ ClaimableOf(bal2, t, d, u) = d.unclaimed[u] + SumFunction(g)
  BY DEF ClaimableOf
<1>6. c.unclaimed[u] \in Nat /\ d.unclaimed[u] \in Nat
  BY DEF GoodAt, ControllerState
<1> HIDE DEF f, g
<1>7. SumFunction(g) = SumFunction(f) + g[token] - f[token]
  BY <1>1, <1>2, SumUpdate, FiniteParties
<1>8. f[token] \in Int /\ g[token] \in Int
  BY <1>1
<1> QED BY <1>1, <1>4, <1>5, <1>6, <1>7, <1>8

----------------------------------------------------------------------------
(* Reports. *)

\* The balances after a report differ for its token only, and there only for
\* users the report or an earlier one in the same second has settled.
ChangesSettled(c, token, user, bal, bal2) ==
    /\ \A other \in PoolTokens \ {token} : bal2[other] = bal[other]
    /\ \A u \in Users \ {user} :
          \/ bal2[token][u] = bal[token][u]
          \/ /\ c.assets[token].lastUpdateTimestamp = now
             /\ c.index[token][u] = c.assets[token].index

\* A report pays the user what was earned and nothing more, so that the ledger
\* does not grow and nobody's claimable rewards change, even though the
\* balances do right after it.
LEMMA ReportKeeps ==
    ASSUME now \in Nat, poolBalances \in Balances, NEW c, GoodAt(now, c),
           NEW token \in PoolTokens, NEW user \in Users, NEW bal2 \in Balances,
           ChangesSettled(c, token, user, poolBalances, bal2)
    PROVE  /\ GoodAt(now, Report(c, token, user))
           /\ LedgerOf(bal2, now, Report(c, token, user)) <= LedgerOf(poolBalances, now, c)
           /\ \A u \in Users : ClaimableOf(bal2, now, Report(c, token, user), u)
                                 = ClaimableOf(poolBalances, now, c, u)
           /\ Report(c, token, user).assets[token].lastUpdateTimestamp = now
           /\ Report(c, token, user).index[token][user]
                = Report(c, token, user).assets[token].index
<1> DEFINE d == Report(c, token, user)
           bal == poolBalances
           total == SumFunction(bal[token])
           i == d.assets[token].index
<1>1. /\ bal[token] \in [Users -> Nat] /\ bal2[token] \in [Users -> Nat]
      /\ bal[token][user] \in Nat /\ token \in Assets
  BY DEF Balances, Assets
<1>2. total \in Nat
  BY <1>1, SumOfNat, FiniteParties
<1>3. d = UpdateUserAsset(c, user, token, bal[token][user], total)
  BY DEF Report, HandleAction, PoolSupply
<1>4. GoodAt(now, d) /\ Settles(now, c, d, token, user, bal[token][user], total)
  <2> HIDE DEF d, total
  <2> QED BY <1>1, <1>2, <1>3, UpdateSettles
<1> HIDE DEF d, total
<1>5. /\ d.assets[token].lastUpdateTimestamp = now
      /\ i = GetAssetIndex(c.assets[token], total, now)
      /\ d.index[token][user] = i
      /\ d.unclaimed[user] = c.unclaimed[user]
             + GetRewards(bal[token][user], i, c.index[token][user])
      /\ \A v \in Users \ {user} :
             d.index[token][v] = c.index[token][v] /\ d.unclaimed[v] = c.unclaimed[v]
  BY <1>4 DEF Settles
<1>6. OnlyChanges(token, c, bal, d, bal2)
  BY <1>4 DEF OnlyChanges, Settles, ChangesSettled, Assets
<1>7. i \in Nat
  BY <1>1, <1>4, GoodValues
<1>8. ASSUME NEW v \in Users \ {user}
      PROVE  bal2[token][v] = bal[token][v] \/ c.index[token][v] = i
  <2>1. CASE c.assets[token].lastUpdateTimestamp = now
             /\ c.index[token][v] = c.assets[token].index
    <3>1. i = c.assets[token].index
      BY <1>1, <1>2, <1>5, <2>1, IndexOfUpdated, GoodValues
    <3> QED BY <2>1, <3>1
  <2> QED BY <2>1 DEF ChangesSettled
<1>9. ASSUME NEW v \in Users
      PROVE  /\ bal[token][v] \in Nat /\ bal2[token][v] \in Nat
             /\ c.index[token][v] \in Nat /\ d.index[token][v] \in Nat
             /\ c.unclaimed[v] \in Nat /\ d.unclaimed[v] \in Nat
  BY <1>1, <1>4, GoodValues
<1> HIDE DEF i
<1>10. Leaves(i, bal[token], c.index[token], bal2[token], d.index[token],
              Taken(c.unclaimed, d.unclaimed))
  <2> SUFFICES ASSUME NEW v \in Users
               PROVE  bal2[token][v] * (i - d.index[token][v])
                        + Scale * (d.unclaimed[v] - c.unclaimed[v])
                        <= bal[token][v] * (i - c.index[token][v])
    BY DEF Leaves, Taken
  <2> DEFINE b == bal[token][v]
             b2 == bal2[token][v]
             j == c.index[token][v]
             w == c.unclaimed[v]
             w2 == d.unclaimed[v]
             j2 == d.index[token][v]
  <2>1. /\ b \in Nat /\ b2 \in Nat /\ j \in Nat /\ j2 \in Nat /\ w \in Nat /\ w2 \in Nat
        /\ Scale \in Nat
    BY <1>9, DistributionAssumption
  <2>2. CASE v = user
    <3> DEFINE r == GetRewards(b, i, j)
    <3>1. j2 = i /\ w2 = w + r
      BY <1>5, <2>2
    <3>2. r \in Int /\ Scale * r <= b * (i - j)
      BY <1>7, <2>1, RewardsRounded
    <3> HIDE DEF b, b2, j, w, w2, j2, r
    <3>3. b2 * (i - j2) = 0 /\ w2 - w = r
      BY <1>7, <2>1, <3>1, <3>2
    <3>4. b2 * (i - j2) + Scale * (w2 - w) <= b * (i - j)
      <4>1. Scale * r \in Int
        BY <2>1, <3>2
      <4> QED BY <3>2, <3>3, <4>1
    <3> QED BY <3>4 DEF b, b2, j, w, w2, j2
  <2>3. CASE v # user
    <3>1. j2 = j /\ w2 = w
      BY <1>5, <2>3
    <3>2. b2 = b \/ j = i
      BY <1>8, <2>3
    <3> HIDE DEF b, b2, j, w, w2, j2
    <3>3. b2 * (i - j2) = b * (i - j) /\ b * (i - j) \in Int
      <4>1. CASE b2 = b
        BY <1>7, <2>1, <3>1, <4>1
      <4>2. CASE j = i
        BY <1>7, <2>1, <3>1, <4>2
      <4> QED BY <3>2, <4>1, <4>2
    <3>4. Scale * (w2 - w) = 0
      BY <2>1, <3>1
    <3>5. b2 * (i - j2) + Scale * (w2 - w) <= b * (i - j)
      BY <3>3, <3>4
    <3> QED BY <3>5 DEF b, b2, j, w, w2, j2
  <2> QED BY <2>2, <2>3
<1>11. ASSUME NEW v \in Users
       PROVE  d.unclaimed[v] + GetRewards(bal2[token][v], i, d.index[token][v])
                = c.unclaimed[v] + GetRewards(bal[token][v], i, c.index[token][v])
  <2>1. CASE v = user
    <3>1. GetRewards(bal2[token][v], i, d.index[token][v]) = 0
      BY <1>5, <1>7, <1>9, <2>1, NoRewards
    <3>2. GetRewards(bal[token][v], i, c.index[token][v]) \in Int
      BY <1>7, <1>9, RewardsRounded
    <3> QED BY <1>5, <1>9, <2>1, <3>1, <3>2
  <2>2. CASE v # user
    <3>1. d.index[token][v] = c.index[token][v] /\ d.unclaimed[v] = c.unclaimed[v]
      BY <1>5, <2>2
    <3>2. GetRewards(bal2[token][v], i, c.index[token][v])
            = GetRewards(bal[token][v], i, c.index[token][v])
      <4>1. CASE bal2[token][v] = bal[token][v]
        BY <4>1
      <4>2. CASE c.index[token][v] = i
        <5>1. /\ GetRewards(bal2[token][v], i, c.index[token][v]) = 0
              /\ GetRewards(bal[token][v], i, c.index[token][v]) = 0
          BY <1>7, <1>9, <4>2, NoRewards
        <5> QED BY <5>1
      <4> QED BY <1>8, <2>2, <4>1, <4>2
    <3> QED BY <3>1, <3>2
  <2> QED BY <2>1, <2>2
<1>12. LedgerOf(bal2, now, d) <= LedgerOf(bal, now, c)
  BY <1>2, <1>4, <1>5, <1>6, <1>10, LedgerStep DEF total, i
<1>13. ASSUME NEW u \in Users
       PROVE  ClaimableOf(bal2, now, d, u) = ClaimableOf(bal, now, c, u)
  BY <1>4, <1>5, <1>6, <1>11, ClaimableStep DEF total, i
<1> QED BY <1>4, <1>5, <1>12, <1>13 DEF d, i

----------------------------------------------------------------------------
(* Transactions of one second. *)

ControllerInv == TypeOK /\ GoodAt(now, Controller)

\* The inductive form of Solvent.
Owed ==
    ~underquoted =>
        LedgerOf(poolBalances, now, Controller) + Scale * claimed <= Scale * emitted

\* The state c with balances bal2 owes no more than the present one, and the
\* same to each user.
Kept(c, bal2) ==
    /\ GoodAt(now, c)
    /\ LedgerOf(bal2, now, c) <= LedgerOf(poolBalances, now, Controller)
    /\ \A u \in Users : ClaimableOf(bal2, now, c, u)
                          = ClaimableOf(poolBalances, now, Controller, u)

LEMMA NowKept == ControllerInv => Kept(Controller, poolBalances)
<1> SUFFICES ASSUME ControllerInv PROVE Kept(Controller, poolBalances)
  OBVIOUS
<1>1. LedgerOf(poolBalances, now, Controller) \in Int
  BY TokensOwedType DEF ControllerInv, TypeOK, Balances
<1> QED BY <1>1 DEF Kept, ControllerInv

LEMMA ReportKept ==
    ASSUME ControllerInv, NEW c, Kept(c, poolBalances), NEW token \in PoolTokens,
           NEW user \in Users, NEW bal2 \in Balances,
           ChangesSettled(c, token, user, poolBalances, bal2)
    PROVE  /\ Kept(Report(c, token, user), bal2)
           /\ Report(c, token, user).assets[token].lastUpdateTimestamp = now
           /\ Report(c, token, user).index[token][user]
                = Report(c, token, user).assets[token].index
<1> DEFINE d == Report(c, token, user)
<1>1. now \in Nat /\ poolBalances \in Balances /\ GoodAt(now, c) /\ GoodAt(now, Controller)
  BY DEF ControllerInv, TypeOK, Kept, Balances
<1>2. /\ GoodAt(now, d)
      /\ LedgerOf(bal2, now, d) <= LedgerOf(poolBalances, now, c)
      /\ \A u \in Users : ClaimableOf(bal2, now, d, u) = ClaimableOf(poolBalances, now, c, u)
      /\ d.assets[token].lastUpdateTimestamp = now
      /\ d.index[token][user] = d.assets[token].index
  BY <1>1, ReportKeeps
<1> HIDE DEF d
<1>3. /\ LedgerOf(bal2, now, d) \in Int /\ LedgerOf(poolBalances, now, c) \in Int
      /\ LedgerOf(poolBalances, now, Controller) \in Int
  BY <1>1, <1>2, TokensOwedType
<1>4. LedgerOf(bal2, now, d) <= LedgerOf(poolBalances, now, Controller)
  BY <1>2, <1>3 DEF Kept
<1>5. Kept(d, bal2)
  BY <1>2, <1>4 DEF Kept
<1> QED BY <1>2, <1>5 DEF d

LEMMA SameBalancesSettled ==
    ASSUME NEW c, NEW token, NEW user
    PROVE  ChangesSettled(c, token, user, poolBalances, poolBalances)
  BY DEF ChangesSettled

\* A claim settles the user with every token of the list, in whatever order
\* and however often it names them.
LEMMA ClaimKept ==
    ASSUME ControllerInv, NEW list \in Seq(PoolTokens), NEW user \in Users
    PROVE  Kept(ClaimOver(list, user), poolBalances)
<1> DEFINE G == {c \in ControllerState : Kept(c, poolBalances)}
<1>1. poolBalances \in Balances
  BY DEF ControllerInv, TypeOK, Balances
<1>2. Controller \in G
  BY NowKept DEF ControllerInv, GoodAt
<1>3. ASSUME NEW token \in PoolTokens, NEW c \in G PROVE Report(c, token, user) \in G
  <2>1. Kept(Report(c, token, user), poolBalances)
    BY <1>1, SameBalancesSettled, ReportKept
  <2> QED BY <2>1 DEF Kept, GoodAt
<1>4. KeptByReports(G, user)
  <2> HIDE DEF G
  <2> QED BY <1>3 DEF KeptByReports
<1> HIDE DEF G
<1>5. ClaimOver(list, user) \in G
  BY <1>2, <1>4, ClaimStaysIn
<1> QED BY <1>5 DEF G

LEMMA BecomeIs ==
    ASSUME NEW c, GoodAt(now, c), Become(c)
    PROVE  Controller' = c
<1>1. c = [assets |-> c.assets, index |-> c.index, unclaimed |-> c.unclaimed,
           reverted |-> c.reverted]
  BY DEF GoodAt, ControllerState
<1>2. c.reverted = FALSE
  BY DEF GoodAt
<1> QED BY <1>1, <1>2 DEF Become, Controller

\* What the lending pool's operations and a stranger's calls leave.
KeepsAll ==
    /\ Controller' \in ControllerState /\ poolBalances' \in Balances
    /\ Kept(Controller', poolBalances')
    /\ UNCHANGED <<now, tokenVars, emitted, claimed, underquoted>>

LEMMA MintKeeps ==
    ASSUME ControllerInv, NEW token \in PoolTokens, NEW user \in Users,
           PoolMint(token, user) \/ PoolBurn(token, user)
    PROVE  KeepsAll
<1> DEFINE d == Report(Controller, token, user)
<1>1. /\ Become(d) /\ UNCHANGED <<now, tokenVars, emitted, claimed, underquoted>>
  BY DEF PoolMint, PoolBurn
<1>2. poolBalances \in Balances
  BY DEF ControllerInv, TypeOK, Balances
<1>3. /\ poolBalances' \in Balances
      /\ ChangesSettled(Controller, token, user, poolBalances, poolBalances')
  <2>1. poolBalances[token][user] \in Nat
    BY <1>2 DEF Balances
  <2>2. PICK n \in Nat : poolBalances' = [poolBalances EXCEPT ![token][user] = n]
    <3> DEFINE b == poolBalances[token][user]
               n == IF PoolMint(token, user) THEN b + 1 ELSE b - 1
    <3>1. n \in Nat
      BY <2>1 DEF PoolBurn
    <3>2. poolBalances' = [poolBalances EXCEPT ![token][user] = n]
      BY DEF PoolMint, PoolBurn
    <3> HIDE DEF n
    <3> QED BY <3>1, <3>2
  <2> QED BY <1>2, <2>2 DEF Balances, ChangesSettled
<1>4. Kept(d, poolBalances')
  BY <1>3, NowKept, ReportKept
<1> HIDE DEF d
<1>5. Controller' = d
  BY <1>1, <1>4, BecomeIs DEF Kept
<1> QED BY <1>1, <1>3, <1>4, <1>5 DEF KeepsAll, Kept, GoodAt

\* The two accounts of a transfer are settled before the balances move.
LEMMA TransferKeeps ==
    ASSUME ControllerInv, NEW token \in PoolTokens, NEW from \in Users, NEW to \in Users,
           PoolTransfer(token, from, to)
    PROVE  KeepsAll
<1> DEFINE c == Report(Controller, token, from)
           d == Report(c, token, to)
<1>1. /\ Become(d) /\ UNCHANGED <<now, tokenVars, emitted, claimed, underquoted>>
      /\ from # to /\ poolBalances[token][from] > 0
      /\ poolBalances' = [poolBalances EXCEPT ![token][from] = @ - 1, ![token][to] = @ + 1]
  BY DEF PoolTransfer
<1>2. poolBalances \in Balances
  BY DEF ControllerInv, TypeOK, Balances
<1>3. /\ Kept(c, poolBalances)
      /\ c.assets[token].lastUpdateTimestamp = now
      /\ c.index[token][from] = c.assets[token].index
  BY <1>2, NowKept, ReportKept, SameBalancesSettled
<1> HIDE DEF c
<1>4. /\ poolBalances' \in Balances
      /\ \A other \in PoolTokens \ {token} : poolBalances'[other] = poolBalances[other]
      /\ \A u \in Users \ {from, to} : poolBalances'[token][u] = poolBalances[token][u]
  <2>1. poolBalances[token][from] \in Nat /\ poolBalances[token][to] \in Nat
    BY <1>2 DEF Balances
  <2> QED BY <1>1, <1>2, <2>1 DEF Balances
<1>5. ChangesSettled(c, token, to, poolBalances, poolBalances')
  BY <1>3, <1>4 DEF ChangesSettled
<1>6. Kept(d, poolBalances')
  BY <1>3, <1>4, <1>5, ReportKept
<1> HIDE DEF d
<1>7. Controller' = d
  BY <1>1, <1>6, BecomeIs DEF Kept
<1> QED BY <1>1, <1>4, <1>6, <1>7 DEF KeepsAll, Kept, GoodAt

\* A contract without a distribution earns nobody anything.
LEMMA StrangerKeeps ==
    ASSUME ControllerInv, NEW s \in Strangers, NEW user \in Users, NEW bal \in Nat,
           NEW total \in Nat, StrangerCalls(s, user, bal, total)
    PROVE  KeepsAll
<1> DEFINE c == Controller
           d == UpdateUserAsset(Controller, user, s, bal, total)
<1>1. /\ Become(d)
      /\ UNCHANGED <<now, poolBalances, tokenVars, emitted, claimed, underquoted>>
  BY DEF StrangerCalls, HandleAction
<1>2. now \in Nat /\ poolBalances \in Balances /\ GoodAt(now, c) /\ s \in Assets
  BY DEF ControllerInv, TypeOK, Balances, Assets
<1>3. GoodAt(now, d) /\ Settles(now, c, d, s, user, bal, total)
  BY <1>2, UpdateSettles
<1> HIDE DEF c, d
<1>4. /\ c.assets[s].index = 0 /\ d.assets[s].index = 0 /\ c.index[s][user] \in Nat
      /\ c.index[s][user] <= c.assets[s].index /\ c.unclaimed[user] \in Nat
  BY <1>2, <1>3, GoodValues DEF GoodAt
<1>5. d.unclaimed = c.unclaimed
  <2>1. GetRewards(bal, d.assets[s].index, c.index[s][user]) = 0
    <3>1. c.index[s][user] = 0
      BY <1>4
    <3> QED BY <1>4, <3>1, NoRewards
  <2>2. d.unclaimed[user] = c.unclaimed[user]
    BY <1>3, <1>4, <2>1 DEF Settles
  <2>3. d.unclaimed \in [Users -> Nat] /\ c.unclaimed \in [Users -> Nat]
    BY <1>2, <1>3 DEF GoodAt, ControllerState
  <2> QED BY <1>3, <2>2, <2>3 DEF Settles
<1>6. ASSUME NEW token \in PoolTokens
      PROVE  d.assets[token] = c.assets[token] /\ d.index[token] = c.index[token]
  <2>1. token \in Assets \ {s}
    BY IncentivesAssumption DEF Assets
  <2> QED BY <1>3, <2>1 DEF Settles
<1>7. /\ LedgerOf(poolBalances, now, d) = LedgerOf(poolBalances, now, c)
      /\ \A u \in Users : ClaimableOf(poolBalances, now, d, u)
                            = ClaimableOf(poolBalances, now, c, u)
  BY <1>5, <1>6 DEF LedgerOf, TokensOwed, ClaimableOf, EarnedOver
<1>8. Kept(d, poolBalances)
  <2>1. LedgerOf(poolBalances, now, c) \in Int
    BY <1>2, TokensOwedType
  <2> QED BY <1>3, <1>7, <2>1 DEF Kept, c
<1>9. Controller' = d
  BY <1>1, <1>3, BecomeIs
<1>10. poolBalances' = poolBalances
  BY <1>1
<1> QED BY <1>1, <1>2, <1>3, <1>8, <1>9, <1>10 DEF KeepsAll, GoodAt

\* Taking n from the rewards of the user takes it from the ledger.
LEMMA Withdrawn ==
    ASSUME NEW t \in Nat, NEW c, GoodAt(t, c), NEW bal \in Balances, NEW user \in Users,
           NEW n \in Nat, n <= c.unclaimed[user],
           NEW d, d = [c EXCEPT !.unclaimed[user] = c.unclaimed[user] - n]
    PROVE  /\ GoodAt(t, d)
           /\ LedgerOf(bal, t, d) + Scale * n = LedgerOf(bal, t, c)
           /\ \A u \in Users : ClaimableOf(bal, t, d, u)
                                 = ClaimableOf(bal, t, c, u) - (IF u = user THEN n ELSE 0)
<1> DEFINE left == [c.unclaimed EXCEPT ![user] = c.unclaimed[user] - n]
<1>1. /\ c \in ControllerState /\ c.unclaimed \in [Users -> Nat] /\ c.unclaimed[user] \in Nat
      /\ c.unclaimed \in [Users -> Int]
  BY DEF GoodAt, ControllerState
<1>2. /\ left \in [Users -> Nat] /\ left \in [Users -> Int]
      /\ left[user] = c.unclaimed[user] - n
      /\ \A u \in Users \ {user} : left[u] = c.unclaimed[u]
  BY <1>1
<1> HIDE DEF left
<1>3. /\ d.assets = c.assets /\ d.index = c.index /\ d.reverted = c.reverted
      /\ d.unclaimed = left /\ d \in ControllerState
  <2>1. d = [assets |-> c.assets, index |-> c.index, unclaimed |-> left,
             reverted |-> c.reverted]
    BY <1>1 DEF ControllerState, left
  <2>2. /\ c.assets \in [Assets -> AssetData] /\ c.index \in [Assets -> [Users -> Nat]]
        /\ c.reverted \in BOOLEAN
    BY <1>1 DEF ControllerState
  <2>3. /\ d.assets = c.assets /\ d.index = c.index /\ d.reverted = c.reverted
        /\ d.unclaimed = left
    BY ONLY <2>1
  <2>4. d \in ControllerState
    BY ONLY <1>2, <2>1, <2>2 DEF ControllerState
  <2> QED BY <2>3, <2>4
<1>4. GoodAt(t, d)
  BY <1>3 DEF GoodAt
<1>5. SumFunction(left) = SumFunction(c.unclaimed) - n
  <2>1. SumFunction(left) = SumFunction(c.unclaimed) + left[user] - c.unclaimed[user]
    BY ONLY FiniteParties, user \in Users, <1>1, <1>2, SumUpdate
  <2>2. SumFunction(c.unclaimed) \in Nat
    BY <1>1, SumOfNat, FiniteParties
  <2> QED BY <1>1, <1>2, <2>1, <2>2
<1>6. LedgerOf(bal, t, d) + Scale * n = LedgerOf(bal, t, c)
  <2> DEFINE owed == SumFunction(TokensOwed(bal, t, c))
             r == SumFunction(c.unclaimed)
  <2>1. owed \in Int /\ r \in Nat /\ Scale \in Nat
    BY <1>1, TokensOwedType, SumOfNat, FiniteParties, DistributionAssumption
  <2>2. LedgerOf(bal, t, c) = owed + Scale * r /\ LedgerOf(bal, t, d) = owed + Scale * (r - n)
    BY <1>3, <1>5 DEF LedgerOf, TokensOwed
  <2> HIDE DEF owed, r
  <2>3. Scale * (r - n) = Scale * r - Scale * n /\ Scale * r \in Int /\ Scale * n \in Int
    BY <2>1
  <2> QED BY <2>1, <2>2, <2>3
<1>7. ASSUME NEW u \in Users
      PROVE  ClaimableOf(bal, t, d, u)
               = ClaimableOf(bal, t, c, u) - (IF u = user THEN n ELSE 0)
  <2> DEFINE earned == SumFunction(EarnedOver(bal, t, c, u))
  <2>1. earned \in Int /\ c.unclaimed[u] \in Nat
    BY <1>1, EarnedOverType
  <2>2. /\ ClaimableOf(bal, t, c, u) = c.unclaimed[u] + earned
        /\ ClaimableOf(bal, t, d, u) = left[u] + earned
    <3>1. EarnedOver(bal, t, d, u) = EarnedOver(bal, t, c, u)
      BY ONLY <1>3 DEF EarnedOver
    <3> QED BY ONLY <1>3, <3>1 DEF ClaimableOf
  <2> HIDE DEF earned
  <2> QED BY <1>2, <2>1, <2>2
<1> QED BY <1>4, <1>6, <1>7

\* The user is paid from what the reports of the claim settled.
ClaimTakes(user, n) ==
    /\ claimed' = claimed + n
    /\ GoodAt(now, Controller')
    /\ LedgerOf(poolBalances, now, Controller') + Scale * n
         <= LedgerOf(poolBalances, now, Controller)
    /\ \A u \in Users :
          ClaimableOf(poolBalances, now, Controller', u)
            = ClaimableOf(poolBalances, now, Controller, u) - (IF u = user THEN n ELSE 0)

\* The amount n is paid from the vault, with the bonus if it is staked.
PaysOut(n, to, stake) ==
    IF n = 0 THEN UNCHANGED tokenVars
    ELSE Pay(IF stake THEN WithBonus(n) ELSE n, to, stake)

LEMMA ClaimEffect ==
    ASSUME ControllerInv, NEW user \in Users, NEW list \in Seq(PoolTokens),
           NEW amount \in Nat, NEW to, NEW stake,
           ClaimRewards(user, list, amount, to, stake)
    PROVE  \E n \in Nat : ClaimTakes(user, n) /\ PaysOut(n, to, stake)
<1> DEFINE c == ClaimOver(list, user)
           unclaimed == c.unclaimed[user]
           n == AmountToClaim(amount, unclaimed)
           d == [c EXCEPT !.unclaimed[user] = unclaimed - n]
<1>1. Become(d) /\ claimed' = claimed + n /\ PaysOut(n, to, stake)
  BY Zenon DEF ClaimRewards, PaysOut
<1>2. Kept(c, poolBalances) /\ now \in Nat /\ poolBalances \in Balances
  BY ClaimKept DEF ControllerInv, TypeOK, Balances
<1> HIDE DEF c
<1>3. unclaimed \in Nat
  BY <1>2 DEF Kept, GoodAt, ControllerState
<1>4. n \in Nat /\ n <= unclaimed
  BY <1>3 DEF AmountToClaim, Earlier
<1> HIDE DEF n
<1>5. /\ GoodAt(now, d)
      /\ LedgerOf(poolBalances, now, d) + Scale * n = LedgerOf(poolBalances, now, c)
      /\ \A u \in Users : ClaimableOf(poolBalances, now, d, u)
             = ClaimableOf(poolBalances, now, c, u) - (IF u = user THEN n ELSE 0)
  <2>1. GoodAt(now, c)
    BY <1>2 DEF Kept
  <2> HIDE DEF d
  <2>2. d = [c EXCEPT !.unclaimed[user] = c.unclaimed[user] - n]
    BY DEF d
  <2> QED BY <1>2, <1>4, <2>1, <2>2, Withdrawn
<1> HIDE DEF d
<1>6. Controller' = d
  BY <1>1, <1>5, BecomeIs
<1>7. ClaimTakes(user, n)
  BY <1>1, <1>2, <1>5, <1>6 DEF ClaimTakes, Kept
<1> QED BY <1>1, <1>4, <1>7

----------------------------------------------------------------------------
(* configureAssets and the passing of time. *)

\* configureAssets updates the index with what it is told: with no less than
\* the supply the ledger does not grow, with the supply nobody's rewards change.
LEMMA ConfigureEffect ==
    ASSUME ControllerInv, NEW token \in PoolTokens, NEW emission \in Nat, NEW total \in Nat,
           ConfigureAssets(token, emission, total)
    PROVE  /\ GoodAt(now, Controller')
           /\ total = 0 \/ PoolSupply(token) <= total =>
                LedgerOf(poolBalances, now, Controller')
                  <= LedgerOf(poolBalances, now, Controller)
           /\ total = PoolSupply(token) =>
                \A u \in Users : ClaimableOf(poolBalances, now, Controller', u)
                                   = ClaimableOf(poolBalances, now, Controller, u)
<1> DEFINE c == Controller
           d == Controller'
           bal == poolBalances
           old == assetData[token]
           new == [UpdateAssetState(old, total, now) EXCEPT !.emissionPerSecond = emission]
<1>1. /\ now \in Nat /\ poolBalances \in Balances /\ GoodAt(now, c) /\ token \in Assets
      /\ token \notin Strangers /\ assetData \in [Assets -> AssetData]
      /\ poolBalances[token] \in [Users -> Nat]
  BY IncentivesAssumption DEF ControllerInv, TypeOK, Balances, Assets
<1>2. /\ old \in AssetData /\ old.lastUpdateTimestamp <= now /\ old.index \in Nat
      /\ old = c.assets[token]
  BY <1>1 DEF GoodAt, AssetData, Controller
<1>3. /\ new \in AssetData /\ new.lastUpdateTimestamp = now
      /\ new.index = GetAssetIndex(old, total, now)
      /\ new.index \in Nat /\ old.index <= new.index
  <2> DEFINE updated == UpdateAssetState(old, total, now)
  <2>1. /\ updated \in AssetData /\ updated.lastUpdateTimestamp = now
        /\ updated.index = GetAssetIndex(old, total, now)
        /\ updated.index \in Nat /\ old.index <= updated.index
    <3>1. old \in AssetData /\ old.lastUpdateTimestamp <= now /\ now \in Nat
      BY <1>1, <1>2
    <3> HIDE DEF old
    <3>2. /\ updated \in AssetData /\ updated.lastUpdateTimestamp = now
          /\ updated.index = GetAssetIndex(old, total, now)
      BY ONLY <3>1, total \in Nat, UpdateAssetStateType DEF updated
    <3>3. /\ GetAssetIndex(old, total, now) \in Nat
          /\ old.index <= GetAssetIndex(old, total, now)
      BY ONLY <3>1, total \in Nat, IndexGrows
    <3> HIDE DEF updated
    <3> QED BY <3>2, <3>3
  <2> HIDE DEF updated, old
  <2>2. new = [updated EXCEPT !.emissionPerSecond = emission]
    BY DEF updated
  <2> HIDE DEF new
  <2> QED BY <2>1, <2>2 DEF AssetData
<1>4. /\ assetData' = [assetData EXCEPT ![token] = new]
      /\ userIndex' = userIndex /\ usersUnclaimedRewards' = usersUnclaimedRewards
  BY DEF ConfigureAssets
<1> HIDE DEF new, old
<1>5. d = [assets |-> [assetData EXCEPT ![token] = new], index |-> userIndex,
           unclaimed |-> usersUnclaimedRewards, reverted |-> FALSE]
  BY <1>4 DEF Controller
<1>6. c = [assets |-> assetData, index |-> userIndex,
           unclaimed |-> usersUnclaimedRewards, reverted |-> FALSE]
  BY DEF Controller
<1> HIDE DEF c, d
<1>7. /\ d.assets[token] = new
      /\ \A a \in Assets \ {token} : d.assets[a] = c.assets[a]
      /\ d.index = c.index /\ d.unclaimed = c.unclaimed /\ d.reverted = FALSE
      /\ d.assets \in [Assets -> AssetData]
  BY ONLY <1>1, <1>3, <1>5, <1>6
<1>8. d \in ControllerState
  <2>1. /\ c.index \in [Assets -> [Users -> Nat]] /\ c.unclaimed \in [Users -> Nat]
    BY <1>1 DEF GoodAt, ControllerState
  <2>2. d = [assets |-> d.assets, index |-> c.index, unclaimed |-> c.unclaimed,
             reverted |-> FALSE]
    BY ONLY <1>5, <1>6
  <2> QED BY ONLY <1>7, <2>1, <2>2 DEF ControllerState
<1>9. GoodAt(now, d)
  <2>1. ASSUME NEW a \in Assets
        PROVE  /\ d.assets[a].lastUpdateTimestamp <= now
               /\ \A u \in Users : d.index[a][u] <= d.assets[a].index
    <3>1. CASE a = token
      <4>1. ASSUME NEW u \in Users PROVE d.index[a][u] <= d.assets[a].index
        <5>1. c.index[token][u] \in Nat /\ c.index[token][u] <= old.index
          BY <1>1, <1>2, GoodValues
        <5> QED BY <1>2, <1>3, <1>7, <3>1, <5>1
      <4> QED BY <1>1, <1>3, <1>7, <3>1, <4>1
    <3>2. CASE a # token
      BY <1>1, <1>7, <3>2 DEF GoodAt
    <3> QED BY <3>1, <3>2
  <2>2. ASSUME NEW s \in Strangers
        PROVE  d.assets[s].emissionPerSecond = 0 /\ d.assets[s].index = 0
    <3>1. s \in Assets \ {token}
      BY <1>1 DEF Assets
    <3> QED BY <1>1, <1>7, <3>1 DEF GoodAt
  <2> QED BY <1>7, <1>8, <2>1, <2>2 DEF GoodAt
<1>10. OnlyChanges(token, c, bal, d, bal)
  BY <1>7 DEF OnlyChanges, Assets
<1>11. ASSUME total = 0 \/ PoolSupply(token) <= total
       PROVE  LedgerOf(bal, now, d) <= LedgerOf(bal, now, c)
  <2> DEFINE i == d.assets[token].index
  <2>1. i \in Nat /\ i = GetAssetIndex(c.assets[token], total, now)
    BY <1>2, <1>3, <1>7
  <2>2. Leaves(i, bal[token], c.index[token], bal[token], d.index[token],
               Taken(c.unclaimed, d.unclaimed))
    <3> SUFFICES ASSUME NEW u \in Users
                 PROVE  bal[token][u] * (i - c.index[token][u])
                          + Scale * (c.unclaimed[u] - c.unclaimed[u])
                          <= bal[token][u] * (i - c.index[token][u])
      BY <1>7 DEF Leaves, Taken
    <3>1. /\ bal[token][u] \in Nat /\ c.index[token][u] \in Nat /\ c.unclaimed[u] \in Nat
          /\ Scale \in Nat
      BY <1>1, GoodValues, DistributionAssumption
    <3> HIDE DEF i
    <3>2. bal[token][u] * (i - c.index[token][u]) \in Int
          /\ Scale * (c.unclaimed[u] - c.unclaimed[u]) = 0
      BY <2>1, <3>1
    <3> QED BY <3>2
  <2>3. total = 0 \/ SumFunction(bal[token]) <= total
    BY <1>11 DEF PoolSupply
  <2>4. d.assets[token].lastUpdateTimestamp = now
    BY <1>3, <1>7
  <2> QED BY <1>1, <1>9, <1>10, <2>1, <2>2, <2>3, <2>4, LedgerStep
<1>12. ASSUME total = PoolSupply(token), NEW u \in Users
       PROVE  ClaimableOf(bal, now, d, u) = ClaimableOf(bal, now, c, u)
  <2>1. /\ d.assets[token].lastUpdateTimestamp = now
        /\ d.assets[token].index
             = GetAssetIndex(c.assets[token], SumFunction(bal[token]), now)
    BY <1>2, <1>3, <1>7, <1>12 DEF PoolSupply
  <2>2. d.unclaimed[u] = c.unclaimed[u] /\ d.index[token][u] = c.index[token][u]
    BY <1>7
  <2> QED BY <1>1, <1>9, <1>10, <2>1, <2>2, ClaimableStep
<1> QED BY <1>9, <1>11, <1>12 DEF c, d

\* A second adds no more to the ledger than it emits, and lowers nothing.
LEMMA TickEffect ==
    ASSUME ControllerInv, Tick
    PROVE  /\ Controller' = Controller /\ GoodAt(now + 1, Controller)
           /\ emitted' \in Nat
           /\ LedgerOf(poolBalances, now + 1, Controller) + Scale * emitted
                <= LedgerOf(poolBalances, now, Controller) + Scale * emitted'
           /\ \A u \in Users : ClaimableOf(poolBalances, now, Controller, u)
                                 <= ClaimableOf(poolBalances, now + 1, Controller, u)
<1> DEFINE c == Controller
           e == [token \in PoolTokens |->
                   IF PoolSupply(token) > 0 /\ now < DISTRIBUTION_END
                   THEN assetData[token].emissionPerSecond ELSE 0]
           se == [token \in PoolTokens |-> Scale * e[token]]
           z == [token \in PoolTokens |-> 0]
           f == TokensOwed(poolBalances, now, c)
           g == TokensOwed(poolBalances, now + 1, c)
<1>1. /\ Controller' = c /\ emitted' = emitted + SumFunction(e)
  BY DEF Tick, Controller, controllerVars
<1>2. /\ now \in Nat /\ now + 1 \in Nat /\ poolBalances \in Balances /\ GoodAt(now, c)
      /\ emitted \in Nat
  BY DEF ControllerInv, TypeOK, Balances
<1>3. ASSUME NEW token \in PoolTokens
      PROVE  /\ c.assets[token] \in AssetData /\ c.assets[token].lastUpdateTimestamp <= now
             /\ c.index[token] \in [Users -> Nat] /\ poolBalances[token] \in [Users -> Nat]
             /\ PoolSupply(token) \in Nat
             /\ e[token] = IF PoolSupply(token) > 0 /\ now < DISTRIBUTION_END
                           THEN c.assets[token].emissionPerSecond ELSE 0
             /\ e[token] \in Nat
  <2>1. /\ c.assets[token] \in AssetData /\ c.assets[token].lastUpdateTimestamp <= now
        /\ c.index[token] \in [Users -> Nat] /\ poolBalances[token] \in [Users -> Nat]
    BY <1>2 DEF GoodAt, ControllerState, Balances, Assets
  <2>2. PoolSupply(token) \in Nat
    BY <2>1, SumOfNat, FiniteParties DEF PoolSupply
  <2>3. e[token] = IF PoolSupply(token) > 0 /\ now < DISTRIBUTION_END
                   THEN c.assets[token].emissionPerSecond ELSE 0
    BY DEF Controller
  <2> QED BY <2>1, <2>2, <2>3 DEF AssetData
<1> HIDE DEF c
<1>4. GoodAt(now + 1, c)
  <2>1. ASSUME NEW a \in Assets PROVE c.assets[a].lastUpdateTimestamp <= now + 1
    <3>1. c.assets[a].lastUpdateTimestamp \in Nat /\ c.assets[a].lastUpdateTimestamp <= now
      BY <1>2 DEF GoodAt, ControllerState, AssetData
    <3> QED BY <1>2, <3>1
  <2> QED BY <1>2, <2>1 DEF GoodAt
<1>5. /\ f \in [PoolTokens -> Int] /\ g \in [PoolTokens -> Int]
      /\ SumFunction(f) \in Int /\ SumFunction(g) \in Int
  BY <1>2, <1>4, TokensOwedType
<1>6. /\ e \in [PoolTokens -> Nat] /\ e \in [PoolTokens -> Int]
      /\ z \in [PoolTokens -> Int] /\ \A token \in PoolTokens : z[token] = 0
  BY <1>3
<1> HIDE DEF e
<1>7. /\ se \in [PoolTokens -> Int] /\ \A token \in PoolTokens : se[token] = Scale * e[token]
  BY <1>6, DistributionAssumption
<1>8. ASSUME NEW token \in PoolTokens PROVE g[token] + z[token] <= f[token] + se[token]
  <2> DEFINE s == SumFunction(Positions(c.assets[token], poolBalances[token], c.index[token]))
             p == PendingOf(c.assets[token], PoolSupply(token), now)
             q == PendingOf(c.assets[token], PoolSupply(token), now + 1)
             r == e[token]
  <2>1. f[token] = s + Scale * p /\ g[token] = s + Scale * q
    BY DEF TokensOwed, TokenOwed, PoolSupply
  <2>2. s \in Int
    BY <1>3, PositionsType
  <2>3. p \in Nat /\ q \in Nat
    <3>1. c.assets[token].lastUpdateTimestamp <= now + 1
      BY <1>2, <1>3 DEF AssetData
    <3> QED BY <1>2, <1>3, <3>1, PendingOfType
  <2>4. q <= p + r /\ r \in Nat
    BY <1>2, <1>3, PendingOfNextSecond
  <2> HIDE DEF s, p, q, r
  <2>5. Scale * q + Scale * 0 <= Scale * p + Scale * r
    BY <2>3, <2>4, ScaledOrder, DistributionAssumption
  <2>6. Scale * q \in Int /\ Scale * p \in Int /\ Scale * r \in Int /\ Scale * 0 = 0
    BY <2>3, <2>4, DistributionAssumption
  <2>7. g[token] <= f[token] + Scale * r
    BY <2>1, <2>2, <2>5, <2>6
  <2>8. g[token] + z[token] = g[token] /\ se[token] = Scale * r
    BY <1>5, <1>6, <1>7 DEF r
  <2> QED BY <2>7, <2>8
<1> HIDE DEF f, g, z, se
<1>9. SumFunction(g) + SumFunction(z) <= SumFunction(f) + SumFunction(se)
  BY <1>5, <1>6, <1>7, <1>8, SumsOrder, FiniteParties
<1>10. SumFunction(z) = 0 /\ SumFunction(se) = Scale * SumFunction(e)
       /\ SumFunction(e) \in Nat
  <2>1. Scale \in Int
    BY DistributionAssumption
  <2>2. SumFunction(se) = Scale * SumFunction(e)
    <3>1. e \in [PoolTokens -> Int]
      BY <1>6
    <3> QED BY ONLY <1>7, <2>1, <3>1, SumFactor, FiniteParties
  <2>3. SumFunction(z) = 0
    BY <1>6, SumZero, FiniteParties
  <2> QED BY <1>6, <2>2, <2>3, SumOfNat, FiniteParties
<1>11. LedgerOf(poolBalances, now + 1, c) + Scale * emitted
         <= LedgerOf(poolBalances, now, c) + Scale * emitted'
  <2> DEFINE r == Scale * SumFunction(c.unclaimed)
             se2 == SumFunction(e)
             sf == SumFunction(f)
             sg == SumFunction(g)
  <2>1. r \in Int
    BY <1>2, TakenSum DEF GoodAt, ControllerState
  <2>2. /\ LedgerOf(poolBalances, now, c) = sf + r
        /\ LedgerOf(poolBalances, now + 1, c) = sg + r
    BY DEF LedgerOf, f, g
  <2>3. sg <= sf + Scale * se2 /\ sg \in Int /\ sf \in Int /\ se2 \in Nat
    BY <1>5, <1>9, <1>10
  <2>4. emitted' = emitted + se2
    BY <1>1
  <2> HIDE DEF r, se2, sf, sg
  <2>5. /\ Scale * (emitted + se2) = Scale * emitted + Scale * se2
        /\ Scale * emitted \in Int /\ Scale * se2 \in Int
    BY <1>2, <2>3, DistributionAssumption
  <2> QED BY <2>1, <2>2, <2>3, <2>4, <2>5
<1>12. ASSUME NEW u \in Users
       PROVE  ClaimableOf(poolBalances, now, c, u) <= ClaimableOf(poolBalances, now + 1, c, u)
  <2> DEFINE x == EarnedOver(poolBalances, now, c, u)
             y == EarnedOver(poolBalances, now + 1, c, u)
  <2>1. /\ x \in [PoolTokens -> Int] /\ y \in [PoolTokens -> Int]
        /\ SumFunction(x) \in Int /\ SumFunction(y) \in Int
    BY <1>2, <1>4, EarnedOverType
  <2>2. ASSUME NEW token \in PoolTokens PROVE x[token] <= y[token]
    <3> DEFINE a == c.assets[token]
               total == SumFunction(poolBalances[token])
               i == GetAssetIndex(a, total, now)
               k == GetAssetIndex(a, total, now + 1)
    <3>1. /\ a \in AssetData /\ a.lastUpdateTimestamp <= now /\ total \in Nat
          /\ c.index[token][u] \in Nat /\ poolBalances[token][u] \in Nat
      BY <1>3 DEF PoolSupply
    <3>2. a.lastUpdateTimestamp <= now + 1
      BY <1>2, <3>1 DEF AssetData
    <3>3. i \in Nat /\ k \in Nat /\ i <= k
      <4> HIDE DEF a, total
      <4> QED BY <1>2, <3>1, <3>2, IndexGrows, IndexGrowsInTime
    <3>4. /\ x[token] = GetRewards(poolBalances[token][u], i, c.index[token][u])
          /\ y[token] = GetRewards(poolBalances[token][u], k, c.index[token][u])
      BY DEF EarnedOver
    <3> HIDE DEF i, k, x, y
    <3> QED BY <3>1, <3>3, <3>4, RewardsGrow
  <2>3. /\ ClaimableOf(poolBalances, now, c, u) = c.unclaimed[u] + SumFunction(x)
        /\ ClaimableOf(poolBalances, now + 1, c, u) = c.unclaimed[u] + SumFunction(y)
    BY DEF ClaimableOf
  <2>4. c.unclaimed[u] \in Nat
    BY <1>2 DEF GoodAt, ControllerState
  <2> HIDE DEF x, y
  <2>5. SumFunction(x) <= SumFunction(y)
    BY <2>1, <2>2, SumOrder, FiniteParties
  <2> QED BY <2>1, <2>3, <2>4, <2>5
<1>13. emitted' \in Nat
  BY <1>1, <1>2, <1>10
<1> QED BY <1>1, <1>4, <1>11, <1>12, <1>13 DEF c

----------------------------------------------------------------------------
(* The steps of the specification, by what they do to the rewards. *)

ClaimStep ==
    \E user \in Users, to \in Holders, stake \in BOOLEAN, n \in Nat :
        /\ ClaimTakes(user, n) /\ PaysOut(n, to, stake)
        /\ UNCHANGED <<now, poolBalances, emitted, underquoted>>

ConfigureStep ==
    \E token \in PoolTokens, emission \in Emissions, total \in Quotes :
        ConfigureAssets(token, emission, total)

LEMMA StepKinds ==
    ASSUME ControllerInv, [Next]_vars
    PROVE  KeepsAll \/ ClaimStep \/ ConfigureStep \/ Tick \/ UNCHANGED vars
<1>1. ASSUME NEW token \in PoolTokens, NEW u \in Users,
             PoolMint(token, u) \/ PoolBurn(token, u)
      PROVE  KeepsAll
  BY <1>1, MintKeeps
<1>2. ASSUME NEW token \in PoolTokens, NEW from \in Users, NEW to \in Users,
             PoolTransfer(token, from, to)
      PROVE  KeepsAll
  BY <1>2, TransferKeeps
<1>3. ASSUME NEW s \in Strangers, NEW u \in Users, NEW balance \in StrangerBalances,
             NEW total \in StrangerBalances, StrangerCalls(s, u, balance, total)
      PROVE  KeepsAll
  <2>1. balance \in Nat /\ total \in Nat
    BY IncentivesAssumption
  <2> QED BY <1>3, <2>1, StrangerKeeps
<1>4. ASSUME NEW u \in Users, NEW to \in Holders, NEW list \in ClaimLists,
             NEW amount \in ClaimAmounts, NEW stake \in BOOLEAN,
             ClaimRewards(u, list, amount, to, stake)
      PROVE  ClaimStep
  <2>1. list \in Seq(PoolTokens) /\ amount \in Nat
    BY IncentivesAssumption
  <2>2. PICK n \in Nat : ClaimTakes(u, n) /\ PaysOut(n, to, stake)
    BY <1>4, <2>1, ClaimEffect
  <2>3. UNCHANGED <<now, poolBalances, emitted, underquoted>>
    BY <1>4 DEF ClaimRewards
  <2> QED BY <2>2, <2>3 DEF ClaimStep
<1>5. CASE \E token \in PoolTokens, emission \in Emissions, total \in Quotes :
              ConfigureAssets(token, emission, total)
  BY <1>5 DEF ConfigureStep
<1> QED BY <1>1, <1>2, <1>3, <1>4, <1>5 DEF Next

----------------------------------------------------------------------------
(* Types, and what the vault pays. *)

LEMMA BonusType ==
    ASSUME NEW n \in Nat
    PROVE  /\ WithBonus(n) \in Nat /\ n <= WithBonus(n)
           /\ 100 * WithBonus(n) <= n * (100 + EXTRA_PSM_REWARD)
<1> DEFINE b == n * EXTRA_PSM_REWARD
           q == b \div 100
<1>1. EXTRA_PSM_REWARD \in Nat /\ b \in Nat
  BY IncentivesAssumption, ProductNat
<1>2. n * (100 + EXTRA_PSM_REWARD) = 100 * n + b
  BY <1>1
<1>3. WithBonus(n) = n + q
  BY DEF WithBonus
<1> HIDE DEF b
<1>4. q \in Nat /\ 100 * q <= b
  BY <1>1, QuotientNat, QuotientTimes
<1> HIDE DEF q
<1> QED BY <1>1, <1>2, <1>3, <1>4

\* For n, of which k does not come back to the vault, the vault loses p, of
\* which m becomes the principal of an account and g was claimed for the PSM.
PaidOut(n, k, p, m, g, to) ==
    /\ k <= p /\ 100 * p <= k * (100 + EXTRA_PSM_REWARD)
    /\ funds' \in [Holders -> Nat] /\ staked' \in [Holders -> Nat] /\ paidTo' \in [Holders -> Nat]
    /\ funds'["REWARDS_VAULT"] = funds["REWARDS_VAULT"] - p
    /\ paidTo'["REWARDS_VAULT"] = paidTo["REWARDS_VAULT"] + n - k
    /\ funds'["PSM"] = funds["PSM"] + m + g
    /\ paidTo'["PSM"] = paidTo["PSM"] + g
    /\ staked' = [staked EXCEPT ![to] = staked[to] + m]

LEMMA PaidNothing ==
    ASSUME TypeOK, NEW to \in Holders, UNCHANGED tokenVars
    PROVE  PaidOut(0, 0, 0, 0, 0, to)
<1>1. /\ funds \in [Holders -> Nat] /\ staked \in [Holders -> Nat] /\ paidTo \in [Holders -> Nat]
      /\ "REWARDS_VAULT" \in Holders /\ "PSM" \in Holders /\ EXTRA_PSM_REWARD \in Nat
  BY IncentivesAssumption DEF TypeOK, Holders
<1>2. funds' = funds /\ staked' = staked /\ paidTo' = paidTo
  BY DEF tokenVars
<1>3. [staked EXCEPT ![to] = staked[to] + 0] = staked
  BY <1>1
<1>4. 0 <= 0 * (100 + EXTRA_PSM_REWARD)
  BY <1>1
<1> QED BY <1>1, <1>2, <1>3, <1>4 DEF PaidOut

LEMMA PaidStaked ==
    ASSUME TypeOK, NEW n \in Nat, NEW to \in Holders, Pay(WithBonus(n), to, TRUE)
    PROVE  PaidOut(n, n, WithBonus(n), WithBonus(n), 0, to)
<1> DEFINE p == WithBonus(n)
<1>1. /\ funds \in [Holders -> Nat] /\ staked \in [Holders -> Nat] /\ paidTo \in [Holders -> Nat]
      /\ "REWARDS_VAULT" \in Holders /\ "PSM" \in Holders
  BY DEF TypeOK, Holders
<1>2. p \in Nat /\ n <= p /\ 100 * p <= n * (100 + EXTRA_PSM_REWARD)
  BY BonusType
<1>3. /\ funds["REWARDS_VAULT"] >= p
      /\ funds' = [funds EXCEPT !["REWARDS_VAULT"] = funds["REWARDS_VAULT"] - p,
                                !["PSM"] = funds["PSM"] + p]
      /\ staked' = [staked EXCEPT ![to] = staked[to] + p]
      /\ paidTo' = paidTo
  BY <1>1 DEF Pay
<1> HIDE DEF p
<1>4. /\ funds' \in [Holders -> Nat] /\ staked' \in [Holders -> Nat]
      /\ funds'["REWARDS_VAULT"] = funds["REWARDS_VAULT"] - p
      /\ funds'["PSM"] = funds["PSM"] + p
  BY <1>1, <1>2, <1>3
<1> QED BY <1>1, <1>2, <1>3, <1>4 DEF PaidOut, p

\* What is claimed for the vault comes back to it.
LEMMA PaidUnstaked ==
    ASSUME TypeOK, NEW n \in Nat, NEW to \in Holders, Pay(n, to, FALSE)
    PROVE  PaidOut(n, IF to = "REWARDS_VAULT" THEN 0 ELSE n,
                   IF to = "REWARDS_VAULT" THEN 0 ELSE n, 0, IF to = "PSM" THEN n ELSE 0, to)
<1> DEFINE k == IF to = "REWARDS_VAULT" THEN 0 ELSE n
           g == IF to = "PSM" THEN n ELSE 0
<1>1. /\ funds \in [Holders -> Nat] /\ staked \in [Holders -> Nat] /\ paidTo \in [Holders -> Nat]
      /\ "REWARDS_VAULT" \in Holders /\ "PSM" \in Holders /\ EXTRA_PSM_REWARD \in Nat
      /\ funds[to] \in Nat /\ paidTo[to] \in Nat /\ funds["REWARDS_VAULT"] \in Nat
  BY IncentivesAssumption DEF TypeOK, Holders
<1>2. k \in Nat /\ g \in Nat /\ k <= n /\ 100 * k <= k * (100 + EXTRA_PSM_REWARD)
  <2>1. k \in Nat /\ g \in Nat /\ k <= n
    OBVIOUS
  <2> HIDE DEF k
  <2>2. k * (100 + EXTRA_PSM_REWARD) = 100 * k + k * EXTRA_PSM_REWARD
        /\ k * EXTRA_PSM_REWARD \in Nat
    BY <1>1, <2>1, ProductNat
  <2> QED BY <2>1, <2>2
<1> DEFINE left == [funds EXCEPT !["REWARDS_VAULT"] = funds["REWARDS_VAULT"] - n]
<1>3. /\ funds["REWARDS_VAULT"] >= n
      /\ funds' = [left EXCEPT ![to] = left[to] + n]
      /\ staked' = staked
      /\ paidTo' = [paidTo EXCEPT ![to] = paidTo[to] + n]
  BY <1>1 DEF Pay
<1>4. /\ left \in [Holders -> Nat]
      /\ left["REWARDS_VAULT"] = funds["REWARDS_VAULT"] - n
      /\ left["PSM"] = funds["PSM"]
  BY <1>1, <1>3
<1> HIDE DEF left
<1>5. /\ funds' \in [Holders -> Nat] /\ staked' \in [Holders -> Nat] /\ paidTo' \in [Holders -> Nat]
      /\ funds'["REWARDS_VAULT"] = funds["REWARDS_VAULT"] - k
      /\ paidTo'["REWARDS_VAULT"] = paidTo["REWARDS_VAULT"] + n - k
      /\ funds'["PSM"] = funds["PSM"] + g
      /\ paidTo'["PSM"] = paidTo["PSM"] + g
  BY <1>1, <1>3, <1>4
<1>6. [staked EXCEPT ![to] = staked[to] + 0] = staked
  BY <1>1
<1> HIDE DEF k, g
<1>7. PaidOut(n, k, k, 0, g, to)
  BY <1>1, <1>2, <1>3, <1>5, <1>6 DEF PaidOut
<1> QED BY <1>7 DEF k, g

LEMMA PaysOutType ==
    ASSUME TypeOK, NEW n \in Nat, NEW to \in Holders, NEW stake \in BOOLEAN, PaysOut(n, to, stake)
    PROVE  \E k, p, m, g \in Nat : PaidOut(n, k, p, m, g, to)
<1>1. CASE n = 0
  <2>1. PaidOut(0, 0, 0, 0, 0, to)
    BY <1>1, PaidNothing DEF PaysOut
  <2> QED BY <1>1, <2>1
<1>2. CASE n # 0 /\ stake
  <2>1. Pay(WithBonus(n), to, TRUE)
    BY <1>2 DEF PaysOut
  <2>2. PaidOut(n, n, WithBonus(n), WithBonus(n), 0, to) /\ WithBonus(n) \in Nat
    BY <2>1, PaidStaked, BonusType
  <2> QED BY <2>2
<1>3. CASE n # 0 /\ ~stake
  <2>1. Pay(n, to, FALSE)
    BY <1>3 DEF PaysOut
  <2> QED BY <2>1, PaidUnstaked
<1> QED BY <1>1, <1>2, <1>3

----------------------------------------------------------------------------
(* The invariants and the theorems. *)

LEMMA ControllerType ==
    ASSUME GoodAt(now', Controller')
    PROVE  /\ assetData' \in [Assets -> AssetData] /\ userIndex' \in [Assets -> [Users -> Nat]]
           /\ usersUnclaimedRewards' \in [Users -> Nat]
<1> DEFINE d == Controller'
<1>1. assetData' = d.assets /\ userIndex' = d.index /\ usersUnclaimedRewards' = d.unclaimed
  BY DEF Controller
<1> HIDE DEF d
<1>2. d \in ControllerState
  BY DEF GoodAt, d
<1> QED BY <1>1, <1>2 DEF ControllerState

LEMMA InitController == Init => ControllerInv
<1> SUFFICES ASSUME Init PROVE ControllerInv
  OBVIOUS
<1>1. TypeOK
  <2>1. funds \in [Holders -> Nat] /\ staked \in [Holders -> Nat] /\ paidTo \in [Holders -> Nat]
    BY IncentivesAssumption DEF Init, Holders
  <2> QED BY <2>1, IncentivesAssumption DEF Init, TypeOK, AssetData
<1>2. GoodAt(now, Controller)
  <2>1. Controller \in ControllerState
    BY <1>1 DEF TypeOK, Controller, ControllerState
  <2>2. ASSUME NEW a \in Assets
        PROVE  /\ assetData[a].lastUpdateTimestamp = 0 /\ assetData[a].index = 0
               /\ assetData[a].emissionPerSecond = 0
               /\ \A u \in Users : userIndex[a][u] = 0
    BY DEF Init
  <2>3. now \in Nat
    BY <1>1 DEF TypeOK
  <2>4. \A s \in Strangers : s \in Assets
    BY DEF Assets
  <2> QED BY <2>1, <2>2, <2>3, <2>4 DEF GoodAt, Controller
<1> QED BY <1>1, <1>2 DEF ControllerInv

LEMMA NextController == ControllerInv /\ [Next]_vars => ControllerInv'
<1> SUFFICES ASSUME ControllerInv, [Next]_vars PROVE ControllerInv'
  OBVIOUS
<1>1. TypeOK /\ now \in Nat /\ claimed \in Nat /\ emitted \in Nat
  BY DEF ControllerInv, TypeOK
<1>2. CASE KeepsAll
  <2>1. /\ GoodAt(now, Controller') /\ now' = now /\ UNCHANGED <<funds, staked, paidTo>>
        /\ emitted' = emitted /\ claimed' = claimed /\ underquoted' = underquoted
        /\ poolBalances' \in Balances
    BY <1>2 DEF KeepsAll, Kept, tokenVars
  <2>2. GoodAt(now', Controller')
    BY <2>1
  <2>3. TypeOK'
    BY <1>1, <2>1, <2>2, ControllerType DEF TypeOK, Balances
  <2> QED BY <2>2, <2>3 DEF ControllerInv
<1>3. CASE ClaimStep
  <2>1. PICK user \in Users, to \in Holders, stake \in BOOLEAN, n \in Nat :
           /\ ClaimTakes(user, n) /\ PaysOut(n, to, stake)
           /\ UNCHANGED <<now, poolBalances, emitted, underquoted>>
    BY <1>3 DEF ClaimStep
  <2>2. PICK k \in Nat, p \in Nat, m \in Nat, g \in Nat : PaidOut(n, k, p, m, g, to)
    BY <1>1, <2>1, PaysOutType
  <2>3. GoodAt(now', Controller') /\ claimed' = claimed + n
    BY <2>1 DEF ClaimTakes
  <2>4. funds' \in [Holders -> Nat] /\ staked' \in [Holders -> Nat] /\ paidTo' \in [Holders -> Nat]
    BY <2>2 DEF PaidOut
  <2>5. TypeOK'
    BY <1>1, <2>1, <2>3, <2>4, ControllerType DEF TypeOK
  <2> QED BY <2>3, <2>5 DEF ControllerInv
<1>4. CASE ConfigureStep
  <2>1. PICK token \in PoolTokens, emission \in Emissions, total \in Quotes :
           ConfigureAssets(token, emission, total)
    BY <1>4 DEF ConfigureStep
  <2>2. emission \in Nat /\ total \in Nat
    BY IncentivesAssumption
  <2>3. now' = now /\ GoodAt(now, Controller')
    BY <2>1, <2>2, ConfigureEffect DEF ConfigureAssets
  <2>4. GoodAt(now', Controller')
    BY <2>3
  <2>5. underquoted' \in BOOLEAN
    BY <2>1 DEF ConfigureAssets
  <2>6. UNCHANGED <<now, poolBalances, funds, staked, paidTo, emitted, claimed>>
    BY <2>1 DEF ConfigureAssets, tokenVars
  <2>7. TypeOK'
    BY <1>1, <2>4, <2>5, <2>6, ControllerType DEF TypeOK
  <2> QED BY <2>4, <2>7 DEF ControllerInv
<1>5. CASE Tick
  <2>1. /\ now' = now + 1 /\ UNCHANGED <<poolBalances, funds, staked, paidTo, claimed, underquoted>>
    BY <1>5 DEF Tick, tokenVars
  <2>2. GoodAt(now', Controller') /\ emitted' \in Nat
    BY <1>5, <2>1, TickEffect
  <2>3. TypeOK'
    BY <1>1, <2>1, <2>2, ControllerType DEF TypeOK
  <2> QED BY <2>2, <2>3 DEF ControllerInv
<1>6. CASE UNCHANGED vars
  BY <1>6 DEF vars, controllerVars, tokenVars, ControllerInv, TypeOK, Controller
<1> QED BY <1>2, <1>3, <1>4, <1>5, <1>6, StepKinds

\* Every variable has its type, no index is from the future or behind one of
\* its users, and a contract without a distribution has none.
THEOREM ControllerInvariant == Spec => []ControllerInv
  BY InitController, NextController, PTL DEF Spec

\* Every variable keeps its type: no balance, index or reward goes below zero.
THEOREM IncentivesTypes == Spec => []TypeOK
<1>1. ControllerInv => TypeOK
  BY DEF ControllerInv
<1> QED BY <1>1, ControllerInvariant, PTL

\* No operation of the lending pool and no claim is ever reverted by the
\* controller's subtraction of indexes, whatever happened before.
THEOREM IncentivesNeverRevert == Spec => []NeverReverts
<1>1. ControllerInv => NeverReverts
  <2> SUFFICES ASSUME ControllerInv, NEW u \in Users
               PROVE  /\ \A token \in PoolTokens : ~Report(Controller, token, u).reverted
                      /\ \A list \in ClaimLists : ~ClaimOver(list, u).reverted
    BY DEF NeverReverts
  <2>1. ASSUME NEW token \in PoolTokens PROVE ~Report(Controller, token, u).reverted
    <3>1. poolBalances \in Balances
      BY DEF ControllerInv, TypeOK, Balances
    <3>2. Kept(Report(Controller, token, u), poolBalances)
      BY <3>1, NowKept, SameBalancesSettled, ReportKept
    <3> QED BY <3>2 DEF Kept, GoodAt
  <2>2. ASSUME NEW list \in ClaimLists PROVE ~ClaimOver(list, u).reverted
    <3>1. list \in Seq(PoolTokens)
      BY IncentivesAssumption
    <3>2. Kept(ClaimOver(list, u), poolBalances)
      BY <3>1, ClaimKept
    <3> QED BY <3>2 DEF Kept, GoodAt
  <2> QED BY <2>1, <2>2
<1> QED BY <1>1, ControllerInvariant, PTL

LEMMA FiniteHolders == IsFiniteSet(Holders)
<1>1. Holders = (({} \cup {"REWARDS_VAULT"}) \cup {"PSM"}) \cup {"others"}
  BY DEF Holders
<1> QED BY ONLY <1>1, FS_EmptySet, FS_AddElement

LEMMA NextPayments == ControllerInv /\ PaymentsAddUp /\ [Next]_vars => PaymentsAddUp'
<1> SUFFICES ASSUME ControllerInv, PaymentsAddUp, [Next]_vars PROVE PaymentsAddUp'
  OBVIOUS
<1>1. CASE UNCHANGED <<funds, staked, paidTo, claimed>>
  BY <1>1 DEF PaymentsAddUp
<1>2. CASE ClaimStep
  <2>1. PICK user \in Users, to \in Holders, stake \in BOOLEAN, n \in Nat :
           ClaimTakes(user, n) /\ PaysOut(n, to, stake)
    BY <1>2 DEF ClaimStep
  <2>2. PICK k \in Nat, p \in Nat, m \in Nat, g \in Nat : PaidOut(n, k, p, m, g, to)
    BY <2>1, PaysOutType DEF ControllerInv
  <2> DEFINE paid == VaultFunds - funds["REWARDS_VAULT"]
             next == VaultFunds - funds'["REWARDS_VAULT"]
             kept == claimed - paidTo["REWARDS_VAULT"]
             then == claimed' - paidTo'["REWARDS_VAULT"]
             e == 100 + EXTRA_PSM_REWARD
  <2>3. /\ claimed \in Nat /\ funds["REWARDS_VAULT"] \in Nat /\ funds["PSM"] \in Nat
        /\ paidTo["REWARDS_VAULT"] \in Nat /\ paidTo["PSM"] \in Nat
        /\ VaultFunds \in Nat /\ EXTRA_PSM_REWARD \in Nat /\ staked \in [Holders -> Nat]
    BY IncentivesAssumption DEF ControllerInv, TypeOK, Holders
  <2>4. next = paid + p /\ then = kept + k
    BY <2>1, <2>2, <2>3 DEF ClaimTakes, PaidOut
  <2>5. paid \in Int /\ kept \in Int /\ e \in Nat /\ kept <= paid /\ 100 * paid <= kept * e
        /\ k <= p /\ 100 * p <= k * e
    BY <2>2, <2>3 DEF PaymentsAddUp, PaidOut
  <2> HIDE DEF paid, next, kept, then, e
  <2>6. then <= next /\ 100 * next <= then * e
    <3>1. (kept + k) * e = kept * e + k * e /\ kept * e \in Int /\ k * e \in Int
      BY <2>5
    <3> QED BY <2>4, <2>5, <3>1
  <2>7. funds'["PSM"] = SumFunction(staked') + paidTo'["PSM"]
    <3>1. /\ staked' = [staked EXCEPT ![to] = staked[to] + m]
          /\ funds'["PSM"] = funds["PSM"] + m + g /\ paidTo'["PSM"] = paidTo["PSM"] + g
          /\ staked' \in [Holders -> Nat]
      BY <2>2 DEF PaidOut
    <3>2. /\ staked \in [Holders -> Int] /\ staked' \in [Holders -> Int]
          /\ staked'[to] = staked[to] + m /\ staked[to] \in Int
          /\ \A y \in Holders \ {to} : staked'[y] = staked[y]
      BY <2>3, <3>1
    <3>3. SumFunction(staked') = SumFunction(staked) + staked'[to] - staked[to]
      BY <3>2, SumUpdate, FiniteHolders
    <3>4. SumFunction(staked) \in Int /\ funds["PSM"] = SumFunction(staked) + paidTo["PSM"]
      BY <3>2, SumIsInt, FiniteHolders DEF PaymentsAddUp
    <3> QED BY <2>3, <3>1, <3>2, <3>3, <3>4
  <2> QED BY <2>6, <2>7 DEF PaymentsAddUp, next, then, e
<1>3. KeepsAll \/ ConfigureStep \/ Tick \/ UNCHANGED vars => UNCHANGED <<funds, staked, paidTo, claimed>>
  BY DEF KeepsAll, ConfigureStep, ConfigureAssets, Tick, vars, tokenVars
<1> QED BY <1>1, <1>2, <1>3, StepKinds

\* Over any number of claims, whoever they name, the vault pays what is claimed
\* and at most the bonus on top, not counting what is claimed for the vault; what
\* the PSM holds is somebody's principal, or was claimed for the PSM itself.
THEOREM IncentivesPaymentsAddUp == Spec => []PaymentsAddUp
<1>1. Init => PaymentsAddUp
  <2> SUFFICES ASSUME Init PROVE PaymentsAddUp
    OBVIOUS
  <2>1. /\ funds["REWARDS_VAULT"] = VaultFunds /\ funds["PSM"] = 0 /\ claimed = 0
        /\ paidTo["REWARDS_VAULT"] = 0 /\ paidTo["PSM"] = 0
    BY DEF Init, Holders
  <2>2. staked \in [Holders -> Int] /\ \A h \in Holders : staked[h] = 0
    BY DEF Init
  <2>3. SumFunction(staked) = 0
    BY <2>2, SumZero, FiniteHolders
  <2> QED BY <2>1, <2>3, IncentivesAssumption DEF PaymentsAddUp
<1> QED BY <1>1, NextPayments, ControllerInvariant, PTL DEF Spec

----------------------------------------------------------------------------
(* Solvency. *)

LEMMA InitOwed == Init => Owed
<1> SUFFICES ASSUME Init
             PROVE  LedgerOf(poolBalances, now, Controller) + Scale * claimed <= Scale * emitted
  BY DEF Owed
<1> DEFINE c == Controller
<1>1. ASSUME NEW token \in PoolTokens
      PROVE  TokenOwed(c.assets[token], poolBalances[token], c.index[token], now) = 0
  <2> DEFINE asset == c.assets[token]
             bal == poolBalances[token]
             idx == c.index[token]
  <2>1. /\ asset = [emissionPerSecond |-> 0, lastUpdateTimestamp |-> 0, index |-> 0]
        /\ bal \in [Users -> Int] /\ \A u \in Users : bal[u] = 0
        /\ \A u \in Users : idx[u] = 0
    BY DEF Init, Controller, Assets
  <2> HIDE DEF asset, bal, idx
  <2>2. SumFunction(bal) = 0
    BY <2>1, SumZero, FiniteParties
  <2>3. PendingOf(asset, SumFunction(bal), now) = 0
    BY <2>2 DEF PendingOf
  <2>4. /\ Positions(asset, bal, idx) \in [Users -> Int]
        /\ \A u \in Users : Positions(asset, bal, idx)[u] = 0
    BY <2>1 DEF Positions
  <2>5. SumFunction(Positions(asset, bal, idx)) = 0
    BY <2>4, SumZero, FiniteParties
  <2> QED BY <2>3, <2>5, DistributionAssumption DEF TokenOwed, asset, bal, idx
<1>2. SumFunction(TokensOwed(poolBalances, now, c)) = 0
  <2>1. /\ TokensOwed(poolBalances, now, c) \in [PoolTokens -> Int]
        /\ \A token \in PoolTokens : TokensOwed(poolBalances, now, c)[token] = 0
    BY <1>1 DEF TokensOwed
  <2> QED BY <2>1, SumZero, FiniteParties
<1>3. SumFunction(c.unclaimed) = 0
  <2>1. c.unclaimed \in [Users -> Int] /\ \A u \in Users : c.unclaimed[u] = 0
    BY DEF Init, Controller
  <2> QED BY <2>1, SumZero, FiniteParties
<1>4. claimed = 0 /\ emitted = 0
  BY DEF Init
<1> QED BY <1>2, <1>3, <1>4, DistributionAssumption DEF LedgerOf

LEMMA NextOwed == ControllerInv /\ Owed /\ [Next]_vars => Owed'
<1> SUFFICES ASSUME ControllerInv, Owed, [Next]_vars, ~underquoted'
             PROVE  LedgerOf(poolBalances', now', Controller') + Scale * claimed'
                      <= Scale * emitted'
  BY DEF Owed
<1> DEFINE before == LedgerOf(poolBalances, now, Controller)
           after == LedgerOf(poolBalances', now', Controller')
<1>1. /\ now \in Nat /\ claimed \in Nat /\ emitted \in Nat /\ poolBalances \in Balances
      /\ GoodAt(now, Controller) /\ Scale \in Nat
      /\ Scale * claimed \in Int /\ Scale * emitted \in Int
  BY DistributionAssumption DEF ControllerInv, TypeOK, Balances
<1>2. before \in Int
  BY <1>1, TokensOwedType
<1>3. ControllerInv'
  BY NextController
<1>4. after \in Int
  <2>1. now' \in Nat /\ poolBalances' \in Balances /\ GoodAt(now', Controller')
    BY <1>3 DEF ControllerInv, TypeOK, Balances
  <2> QED BY <2>1, TokensOwedType
<1>5. ~underquoted => before + Scale * claimed <= Scale * emitted
  BY DEF Owed
<1>6. CASE KeepsAll
  <2>1. /\ after <= before
        /\ claimed' = claimed /\ emitted' = emitted /\ underquoted' = underquoted
    BY <1>6 DEF KeepsAll, Kept
  <2> HIDE DEF before, after
  <2> QED BY <1>1, <1>2, <1>4, <1>5, <2>1 DEF after
<1>7. CASE ClaimStep
  <2>1. PICK user \in Users, to \in Holders, stake \in BOOLEAN, n \in Nat :
           /\ ClaimTakes(user, n)
           /\ UNCHANGED <<now, poolBalances, emitted, underquoted>>
    BY <1>7 DEF ClaimStep
  <2>2. /\ after + Scale * n <= before /\ claimed' = claimed + n
        /\ emitted' = emitted /\ underquoted' = underquoted
    BY <2>1 DEF ClaimTakes
  <2> HIDE DEF before, after
  <2>3. Scale * (claimed + n) = Scale * claimed + Scale * n /\ Scale * n \in Int
    BY <1>1
  <2> QED BY <1>1, <1>2, <1>4, <1>5, <2>2, <2>3 DEF after
<1>8. CASE ConfigureStep
  <2>1. PICK token \in PoolTokens, emission \in Emissions, total \in Quotes :
           ConfigureAssets(token, emission, total)
    BY <1>8 DEF ConfigureStep
  <2>2. emission \in Nat /\ total \in Nat
    BY IncentivesAssumption
  <2>3. /\ ~underquoted /\ ~(0 < total /\ total < PoolSupply(token))
        /\ UNCHANGED <<now, poolBalances, emitted, claimed>>
    BY Zenon, <2>1 DEF ConfigureAssets
  <2>4. PoolSupply(token) \in Nat
    BY <1>1, SumOfNat, FiniteParties DEF PoolSupply, Balances
  <2>5. total = 0 \/ PoolSupply(token) <= total
    BY <2>2, <2>3, <2>4
  <2>6. after <= before
    BY <2>1, <2>2, <2>3, <2>5, ConfigureEffect
  <2> HIDE DEF before, after
  <2> QED BY <1>1, <1>2, <1>4, <1>5, <2>3, <2>6 DEF after
<1>9. CASE Tick
  <2>1. /\ now' = now + 1 /\ UNCHANGED <<poolBalances, claimed, underquoted>>
    BY <1>9 DEF Tick
  <2>2. after + Scale * emitted <= before + Scale * emitted' /\ emitted' \in Nat
    BY <1>9, <2>1, TickEffect
  <2>3. Scale * emitted' \in Int
    BY <1>1, <2>2
  <2> HIDE DEF before, after
  <2> QED BY <1>1, <1>2, <1>4, <1>5, <2>1, <2>2, <2>3 DEF after
<1>10. CASE UNCHANGED vars
  <2>1. /\ after = before /\ claimed' = claimed /\ emitted' = emitted
        /\ underquoted' = underquoted
    BY <1>10 DEF vars, controllerVars, Controller
  <2> QED BY <1>5, <2>1
<1> QED BY <1>6, <1>7, <1>8, <1>9, <1>10, StepKinds

\* Earned by u with the token up to the index of time t, times Scale.
Accrued(bal, t, c, token, u) ==
    bal[token][u] * (GetAssetIndex(c.assets[token], SumFunction(bal[token]), t)
                       - c.index[token][u])

\* The ledger of a token covers what its holders have earned up to now.
LEMMA TokenBacked ==
    ASSUME NEW t \in Nat, NEW c, GoodAt(t, c), NEW bal \in Balances, NEW token \in PoolTokens
    PROVE  /\ [u \in Users |-> Accrued(bal, t, c, token, u)] \in [Users -> Int]
           /\ SumFunction([u \in Users |-> Accrued(bal, t, c, token, u)])
                <= TokensOwed(bal, t, c)[token]
<1> DEFINE old == c.assets[token]
           b == bal[token]
           idx == c.index[token]
           total == SumFunction(b)
           new == UpdateAssetState(old, total, t)
           settled == [u \in Users |-> new.index]
           taken == [u \in Users |-> Accrued(bal, t, c, token, u)]
<1>1. /\ old \in AssetData /\ old.lastUpdateTimestamp <= t
      /\ b \in [Users -> Nat] /\ idx \in [Users -> Nat]
  BY DEF GoodAt, ControllerState, Balances, Assets
<1>2. total \in Nat
  BY <1>1, SumOfNat, FiniteParties
<1>3. taken = [u \in Users |-> b[u] * (GetAssetIndex(old, total, t) - idx[u])]
  BY DEF Accrued
<1>4. TokensOwed(bal, t, c)[token] = TokenOwed(old, b, idx, t)
  BY DEF TokensOwed
<1> HIDE DEF old, b, idx, total, taken
<1>5. /\ new \in AssetData /\ new.lastUpdateTimestamp = t
      /\ new.index = GetAssetIndex(old, total, t) /\ new.index \in Nat
  BY <1>1, <1>2, UpdateAssetStateType, IndexGrows
<1> HIDE DEF new
<1>6. settled \in [Users -> Nat] /\ \A u \in Users : settled[u] = new.index
  BY <1>5
<1> HIDE DEF settled
<1>7. /\ taken \in [Users -> Int]
      /\ \A u \in Users : taken[u] = b[u] * (new.index - idx[u])
  BY <1>1, <1>3, <1>5
<1>8. /\ Positions(new, b, settled) \in [Users -> Int]
      /\ \A u \in Users : Positions(new, b, settled)[u] = 0
  BY <1>1, <1>5, <1>6 DEF Positions
<1>9. Leaves(new.index, b, idx, b, settled, taken)
  <2> SUFFICES ASSUME NEW u \in Users
               PROVE  b[u] * (new.index - settled[u]) + taken[u] <= b[u] * (new.index - idx[u])
    BY DEF Leaves
  <2>1. b[u] \in Nat /\ idx[u] \in Nat /\ taken[u] \in Int
    BY <1>1, <1>7
  <2>2. b[u] * (new.index - settled[u]) = 0
    BY <1>5, <1>6, <2>1
  <2>3. taken[u] = b[u] * (new.index - idx[u])
    BY <1>7
  <2> QED BY <2>1, <2>2, <2>3
<1>10. TokenOwed(new, b, settled, t) + SumFunction(taken) <= TokenOwed(old, b, idx, t)
  <2>1. total = 0 \/ SumFunction(b) <= total
    BY <1>2 DEF total
  <2> QED BY <1>1, <1>2, <1>5, <1>6, <1>7, <1>9, <2>1, TokenUpdated
<1>11. TokenOwed(new, b, settled, t) = 0
  <2>1. SumFunction(Positions(new, b, settled)) = 0
    BY <1>8, SumZero, FiniteParties
  <2>2. PendingOf(new, SumFunction(b), t) = 0
    BY <1>5, NothingPendingOf
  <2> QED BY <2>1, <2>2, DistributionAssumption DEF TokenOwed
<1>12. SumFunction(taken) \in Int
  BY <1>7, SumIsInt, FiniteParties
<1>13. SumFunction(taken) <= TokensOwed(bal, t, c)[token]
  BY <1>4, <1>10, <1>11, <1>12
<1> QED BY <1>7, <1>13 DEF taken

\* What a user earned with all tokens, rounded down token by token.
LEMMA EarnedRounded ==
    ASSUME NEW t \in Nat, NEW c, GoodAt(t, c), NEW bal \in Balances, NEW u \in Users,
           NEW row \in [PoolTokens -> Int],
           \A token \in PoolTokens : row[token] = Accrued(bal, t, c, token, u)
    PROVE  Scale * SumFunction(EarnedOver(bal, t, c, u)) <= SumFunction(row)
<1> DEFINE e == EarnedOver(bal, t, c, u)
           h == [token \in PoolTokens |-> Scale * e[token]]
<1>1. e \in [PoolTokens -> Int]
  BY EarnedOverType
<1>2. ASSUME NEW token \in PoolTokens PROVE Scale * e[token] <= row[token]
  <2> DEFINE i == GetAssetIndex(c.assets[token], SumFunction(bal[token]), t)
             b == bal[token][u]
             j == c.index[token][u]
  <2>1. /\ c.assets[token] \in AssetData /\ c.assets[token].lastUpdateTimestamp <= t
        /\ j \in Nat /\ bal[token] \in [Users -> Nat] /\ b \in Nat
    BY DEF GoodAt, ControllerState, Balances, Assets
  <2>2. SumFunction(bal[token]) \in Nat
    BY <2>1, SumOfNat, FiniteParties
  <2>3. i \in Nat
    BY <2>1, <2>2, IndexGrows
  <2>4. e[token] = GetRewards(b, i, j) /\ row[token] = b * (i - j)
    BY DEF EarnedOver, Accrued
  <2> HIDE DEF b, i, j
  <2> QED BY <2>1, <2>3, <2>4, RewardsRounded
<1> HIDE DEF e
<1>3. /\ h \in [PoolTokens -> Int] /\ Scale \in Int
      /\ \A token \in PoolTokens : h[token] = Scale * e[token]
      /\ \A token \in PoolTokens : h[token] <= row[token]
  BY <1>1, <1>2, DistributionAssumption
<1> HIDE DEF h
<1>4. SumFunction(h) <= SumFunction(row)
  BY ONLY row \in [PoolTokens -> Int], <1>3, SumOrder, FiniteParties
<1>5. SumFunction(h) = Scale * SumFunction(e)
  BY ONLY <1>1, <1>3, SumFactor, FiniteParties
<1> QED BY <1>4, <1>5 DEF e

\* The sums of all users over all tokens are those of all tokens over all
\* users, which the ledger covers.
LEMMA LedgerCovers ==
    ASSUME NEW t \in Nat, NEW c, GoodAt(t, c), NEW bal \in Balances
    PROVE  /\ SumFunction([u \in Users |-> ClaimableOf(bal, t, c, u)]) \in Int
           /\ Scale * SumFunction([u \in Users |-> ClaimableOf(bal, t, c, u)])
                <= LedgerOf(bal, t, c)
<1> DEFINE byUser == [u \in Users |->
                        [token \in PoolTokens |-> Accrued(bal, t, c, token, u)]]
           byToken == [token \in PoolTokens |->
                        [u \in Users |-> Accrued(bal, t, c, token, u)]]
           rows == [u \in Users |-> SumFunction(byUser[u])]
           columns == [token \in PoolTokens |-> SumFunction(byToken[token])]
           owed == TokensOwed(bal, t, c)
           claims == [u \in Users |-> ClaimableOf(bal, t, c, u)]
           scaled == [u \in Users |-> Scale * claims[u]]
           stored == [u \in Users |-> Scale * c.unclaimed[u]]
           z == [u \in Users |-> 0]
<1>1. ASSUME NEW token \in PoolTokens
      PROVE  /\ byToken[token] \in [Users -> Int]
             /\ SumFunction(byToken[token]) <= owed[token]
  BY TokenBacked
<1>2. ASSUME NEW token \in PoolTokens, NEW u \in Users
      PROVE  /\ byToken[token][u] = Accrued(bal, t, c, token, u)
             /\ byUser[u][token] = Accrued(bal, t, c, token, u)
             /\ Accrued(bal, t, c, token, u) \in Int
  <2>1. byToken[token][u] = Accrued(bal, t, c, token, u)
    OBVIOUS
  <2>2. byToken[token][u] \in Int
    BY <1>1
  <2> QED BY <2>1, <2>2
<1>3. Transposed(byUser, byToken, Users, PoolTokens)
  <2>1. byToken \in [PoolTokens -> [Users -> Int]]
    BY <1>1
  <2>2. byUser \in [Users -> [PoolTokens -> Int]]
    BY <1>2
  <2> HIDE DEF byUser, byToken
  <2> QED BY <1>2, <2>1, <2>2 DEF Transposed
<1> HIDE DEF byUser, byToken
<1>4. ASSUME NEW u \in Users
      PROVE  /\ byUser[u] \in [PoolTokens -> Int]
             /\ Scale * SumFunction(EarnedOver(bal, t, c, u)) <= rows[u]
             /\ rows[u] \in Int
  <2>1. byUser[u] \in [PoolTokens -> Int]
    BY <1>3 DEF Transposed
  <2>2. \A token \in PoolTokens : byUser[u][token] = Accrued(bal, t, c, token, u)
    BY <1>2
  <2>3. SumFunction(byUser[u]) \in Int
    BY <2>1, SumIsInt, FiniteParties
  <2> QED BY <2>1, <2>2, <2>3, EarnedRounded
<1>5. /\ rows \in [Users -> Int] /\ columns \in [PoolTokens -> Int]
      /\ \A u \in Users : rows[u] = SumFunction(byUser[u])
      /\ \A token \in PoolTokens : columns[token] = SumFunction(byToken[token])
  BY <1>1, <1>4, SumIsInt, FiniteParties
<1>6. owed \in [PoolTokens -> Int] /\ SumFunction(owed) \in Int
  BY TokensOwedType
<1>7. \A token \in PoolTokens : columns[token] <= owed[token]
  BY <1>1, <1>5
<1> HIDE DEF rows, columns, owed
<1>8. SumFunction(rows) = SumFunction(columns)
  BY ONLY <1>3, <1>5, SumSwap, FiniteParties
<1>9. SumFunction(columns) <= SumFunction(owed)
  BY ONLY <1>5, <1>6, <1>7, SumOrder, FiniteParties
<1>10. /\ claims \in [Users -> Int] /\ \A u \in Users : claims[u] = ClaimableOf(bal, t, c, u)
  BY EarnedOverType
<1> HIDE DEF claims
<1>11. c.unclaimed \in [Users -> Nat] /\ c.unclaimed \in [Users -> Int] /\ Scale \in Int
       /\ \A u \in Users : c.unclaimed[u] \in Nat
  BY DistributionAssumption DEF GoodAt, ControllerState
<1>12. /\ scaled \in [Users -> Int] /\ \A u \in Users : scaled[u] = Scale * claims[u]
       /\ stored \in [Users -> Int] /\ \A u \in Users : stored[u] = Scale * c.unclaimed[u]
       /\ z \in [Users -> Int] /\ \A u \in Users : z[u] = 0
  BY <1>10, <1>11
<1>13. ASSUME NEW u \in Users PROVE scaled[u] + z[u] <= stored[u] + rows[u]
  <2> DEFINE e == SumFunction(EarnedOver(bal, t, c, u))
             w == c.unclaimed[u]
  <2>1. e \in Int /\ w \in Int
    BY <1>11, EarnedOverType
  <2>2. claims[u] = w + e
    BY <1>10 DEF ClaimableOf
  <2>3. Scale * e <= rows[u] /\ rows[u] \in Int /\ stored[u] = Scale * w
        /\ scaled[u] = Scale * claims[u] /\ z[u] = 0
    BY <1>4, <1>12
  <2> HIDE DEF e, w
  <2>4. Scale * (w + e) = Scale * w + Scale * e /\ Scale * w \in Int /\ Scale * e \in Int
    BY <1>11, <2>1
  <2> QED BY <2>2, <2>3, <2>4
<1> HIDE DEF scaled, stored, z
<1>14. SumFunction(scaled) + SumFunction(z) <= SumFunction(stored) + SumFunction(rows)
  BY ONLY <1>5, <1>12, <1>13, SumsOrder, FiniteParties
<1>15. SumFunction(z) = 0
  BY ONLY <1>12, SumZero, FiniteParties
<1>16. SumFunction(scaled) = Scale * SumFunction(claims)
  BY ONLY <1>10, <1>11, <1>12, SumFactor, FiniteParties
<1>17. SumFunction(stored) = Scale * SumFunction(c.unclaimed)
  BY ONLY <1>11, <1>12, SumFactor, FiniteParties
<1>18. /\ SumFunction(claims) \in Int /\ SumFunction(rows) \in Int
       /\ SumFunction(scaled) \in Int /\ SumFunction(stored) \in Int
  BY ONLY <1>5, <1>10, <1>12, SumIsInt, FiniteParties
<1>19. LedgerOf(bal, t, c) = SumFunction(owed) + SumFunction(stored)
  BY <1>17 DEF LedgerOf, owed
<1>20. SumFunction(scaled) <= LedgerOf(bal, t, c)
  <2> DEFINE a == SumFunction(scaled)
             b == SumFunction(stored)
             r == SumFunction(rows)
             o == SumFunction(owed)
  <2>1. a + 0 <= b + r /\ r <= o /\ a \in Int /\ b \in Int /\ r \in Int /\ o \in Int
    BY <1>6, <1>8, <1>9, <1>14, <1>15, <1>18
  <2> HIDE DEF a, b, r, o
  <2>2. a <= o + b
    BY <2>1
  <2> QED BY <1>19, <2>2 DEF a, b, o
<1> QED BY <1>16, <1>18, <1>20 DEF claims

\* What all users can claim over all tokens, with what they claimed, never
\* exceeds what the distributions emitted, unless a supply was misquoted.
THEOREM IncentivesSolvent == Spec => []Solvent
<1>1. ControllerInv /\ Owed => Solvent
  <2> SUFFICES ASSUME ControllerInv, Owed, ~underquoted
               PROVE  SumFunction([u \in Users |-> RewardsBalance(u)]) + claimed <= emitted
    BY DEF Solvent
  <2> DEFINE sum == SumFunction([u \in Users |-> RewardsBalance(u)])
             owed == LedgerOf(poolBalances, now, Controller)
  <2>1. /\ now \in Nat /\ poolBalances \in Balances /\ GoodAt(now, Controller)
        /\ claimed \in Nat /\ emitted \in Nat /\ Scale \in Nat \ {0}
    BY DistributionAssumption DEF ControllerInv, TypeOK, Balances
  <2>2. [u \in Users |-> RewardsBalance(u)]
          = [u \in Users |-> ClaimableOf(poolBalances, now, Controller, u)]
    BY RewardsBalanceIs
  <2>3. sum \in Int /\ Scale * sum <= owed
    BY <2>1, <2>2, LedgerCovers
  <2>4. owed + Scale * claimed <= Scale * emitted /\ owed \in Int
    BY <2>1, TokensOwedType DEF Owed
  <2> HIDE DEF sum, owed
  <2>5. /\ Scale * (sum + claimed) = Scale * sum + Scale * claimed
        /\ Scale * sum \in Int /\ Scale * claimed \in Int /\ Scale * emitted \in Int
    BY <2>1, <2>3
  <2>6. Scale * (sum + claimed) <= Scale * emitted
    BY <2>3, <2>4, <2>5
  <2>7. sum + claimed <= emitted
    BY <2>1, <2>3, <2>6
  <2> QED BY <2>7 DEF sum
<1>2. Spec => []Owed
  BY InitOwed, NextOwed, ControllerInvariant, PTL DEF Spec
<1> QED BY <1>1, <1>2, ControllerInvariant, PTL

----------------------------------------------------------------------------
(* Rewards only move by a claim. *)

LEMMA NextRewardsBalanceIs ==
    ASSUME NEW u \in Users
    PROVE  RewardsBalance(u)' = ClaimableOf(poolBalances', now', Controller', u)
  BY DEF RewardsBalance, ClaimableOf, EarnedOver, Controller, PoolSupply

\* Within a second rewards change by a claim alone, for the claimer and by the
\* amount claimed; time never lowers them.
THEOREM IncentivesOnlyMoveByClaim == Spec => RewardsOnlyMoveByClaim
<1>1. ControllerInv /\ [Next]_vars =>
        [ \/ IF now' = now
             THEN \E payee \in Users : \A u \in Users :
                     RewardsBalance(u)' =
                         RewardsBalance(u) - (IF u = payee THEN claimed' - claimed ELSE 0)
             ELSE \A u \in Users : RewardsBalance(u)' >= RewardsBalance(u)
          \/ Misquote ]_vars
  <2> SUFFICES ASSUME ControllerInv, [Next]_vars, ~UNCHANGED vars, ~Misquote
               PROVE  IF now' = now
                      THEN \E payee \in Users : \A u \in Users :
                              RewardsBalance(u)' = RewardsBalance(u)
                                  - (IF u = payee THEN claimed' - claimed ELSE 0)
                      ELSE \A u \in Users : RewardsBalance(u)' >= RewardsBalance(u)
    OBVIOUS
  <2> DEFINE Old(u) == ClaimableOf(poolBalances, now, Controller, u)
             New(u) == ClaimableOf(poolBalances', now', Controller', u)
  <2>1. \A u \in Users : RewardsBalance(u)' = New(u) /\ RewardsBalance(u) = Old(u)
    BY RewardsBalanceIs, NextRewardsBalanceIs
  <2>2. \A u \in Users : Old(u) \in Int
    BY EarnedOverType DEF ControllerInv, TypeOK, Balances
  <2>3. claimed \in Nat /\ now \in Nat
    BY DEF ControllerInv, TypeOK
  <2>4. PICK anyone \in Users : TRUE
    BY IncentivesAssumption
  <2>5. CASE now' = now /\ claimed' = claimed /\ \A u \in Users : New(u) = Old(u)
    <3> HIDE DEF Old, New
    <3>1. \A u \in Users : RewardsBalance(u)' =
             RewardsBalance(u) - (IF u = anyone THEN claimed' - claimed ELSE 0)
      BY <2>1, <2>2, <2>3, <2>5
    <3> QED BY <2>5, <3>1
  <2>6. CASE KeepsAll
    <3>1. now' = now /\ claimed' = claimed /\ \A u \in Users : New(u) = Old(u)
      BY <2>6 DEF KeepsAll, Kept
    <3> QED BY <2>5, <3>1
  <2>7. CASE ClaimStep
    <3>1. PICK user \in Users, n \in Nat :
             ClaimTakes(user, n) /\ UNCHANGED <<now, poolBalances>>
      BY <2>7 DEF ClaimStep
    <3>2. /\ claimed' = claimed + n /\ now' = now
          /\ \A u \in Users : New(u) = Old(u) - (IF u = user THEN n ELSE 0)
      BY <3>1 DEF ClaimTakes
    <3> HIDE DEF Old, New
    <3>3. claimed' - claimed = n
      BY <2>3, <3>2
    <3>4. \A u \in Users : RewardsBalance(u)' =
             RewardsBalance(u) - (IF u = user THEN claimed' - claimed ELSE 0)
      BY <2>1, <3>2, <3>3
    <3> QED BY <3>2, <3>4
  <2>8. CASE ConfigureStep
    <3>1. PICK token \in PoolTokens, emission \in Emissions, total \in Quotes :
             ConfigureAssets(token, emission, total)
      BY <2>8 DEF ConfigureStep
    <3>2. total = PoolSupply(token)
      BY <3>1 DEF Misquote
    <3>3. emission \in Nat /\ total \in Nat
      BY IncentivesAssumption
    <3>4. UNCHANGED <<now, poolBalances, claimed>>
      BY <3>1 DEF ConfigureAssets
    <3>5. \A u \in Users : New(u) = Old(u)
      BY <3>1, <3>2, <3>3, <3>4, ConfigureEffect
    <3> QED BY <2>5, <3>4, <3>5
  <2>9. CASE Tick
    <3>1. now' = now + 1 /\ now' # now /\ poolBalances' = poolBalances
      BY <2>3, <2>9 DEF Tick
    <3>2. \A u \in Users : Old(u) <= New(u)
      BY <2>9, <3>1, TickEffect
    <3>3. \A u \in Users : New(u) \in Int
      <4>1. ControllerInv'
        BY NextController
      <4> QED BY <4>1, EarnedOverType DEF ControllerInv, TypeOK, Balances
    <3> HIDE DEF Old, New
    <3> QED BY <2>1, <2>2, <3>1, <3>2, <3>3
  <2> QED BY <2>6, <2>7, <2>8, <2>9, StepKinds
<1> QED BY <1>1, ControllerInvariant, PTL DEF Spec, RewardsOnlyMoveByClaim

=============================================================================
