-------------------------- MODULE StakedTokenProofs --------------------------
(***************************************************************************)
(* Theorems about StakedToken, for every set of users, every amount,       *)
(* emission, quote, cooldown and window.                                   *)
(***************************************************************************)
EXTENDS StakedToken, SumLemmas, DistributionLemmas, TLAPS

----------------------------------------------------------------------------
(* The operators of the model. *)

\* The recipient's next cooldown is 0 or between its present one and now.
LEMMA NextCooldownBounds ==
    ASSUME NEW from \in Nat, NEW amount \in Nat, NEW to, NEW toBalance \in Nat,
           now \in Nat, stakersCooldowns[to] \in Nat,
           from <= now, stakersCooldowns[to] <= now,
           AverageIsDefined(from, amount, to, toBalance)
    PROVE  LET next == GetNextCooldownTimestamp(from, amount, to, toBalance) IN
           /\ next \in Nat
           /\ next # 0 => /\ stakersCooldowns[to] # 0
                          /\ stakersCooldowns[to] <= next
                          /\ next <= now
<1> DEFINE c == stakersCooldowns[to]
           s == EffectiveSender(from)
<1>1. s \in Nat /\ s <= now
  BY DEF EffectiveSender
<1>2. MinimalValidCooldownTimestamp \in Int
  BY StakedTokenAssumption DEF MinimalValidCooldownTimestamp
<1>3. CASE c = 0 \/ MinimalValidCooldownTimestamp > c \/ s < c
  BY <1>1, <1>2, <1>3 DEF GetNextCooldownTimestamp
<1>4. CASE ~(c = 0 \/ MinimalValidCooldownTimestamp > c \/ s < c)
  <2>1. GetNextCooldownTimestamp(from, amount, to, toBalance)
          = WeightedAverage(amount, s, toBalance, c)
    BY <1>1, <1>2, <1>4 DEF GetNextCooldownTimestamp
  <2>2. amount + toBalance \in Nat \ {0}
    BY <1>1, <1>2, <1>4 DEF AverageIsDefined
  <2>3. c <= s /\ c \in Nat /\ c # 0
    BY <1>1, <1>4
  <2> HIDE DEF c, s
  <2>4. /\ amount * s \in Nat
        /\ toBalance * c \in Nat
        /\ amount * c <= amount * s
        /\ amount * s <= amount * now
        /\ toBalance * c <= toBalance * now
    BY <1>1, <2>3, ProductNat, ProductMonotone
  <2>5. /\ c * (amount + toBalance) = amount * c + toBalance * c
        /\ now * (amount + toBalance) = amount * now + toBalance * now
    BY <2>3
  <2>6. /\ c * (amount + toBalance) <= amount * s + toBalance * c
        /\ amount * s + toBalance * c <= now * (amount + toBalance)
        /\ amount * s + toBalance * c \in Nat
    BY <2>3, <2>4, <2>5, ProductNat
  <2>7. /\ c <= (amount * s + toBalance * c) \div (amount + toBalance)
        /\ (amount * s + toBalance * c) \div (amount + toBalance) <= now
        /\ (amount * s + toBalance * c) \div (amount + toBalance) \in Nat
    BY <2>2, <2>3, <2>6, QuotientBounds, QuotientNat
  <2> QED BY <2>1, <2>3, <2>7 DEF WeightedAverage, c
<1> QED BY <1>3, <1>4

----------------------------------------------------------------------------
(* Type correctness and cooldowns: the inductive invariant. *)

\* The type invariant is not inductive: that an index and a timestamp stay
\* natural rests on the update lying in the past, and that an average is
\* defined and not above now on what cooldowns can be.
ClockInv ==
    /\ TypeOK
    /\ GENESIS <= now
    /\ assetData.lastUpdateTimestamp <= now
    /\ CooldownImpliesBalance
    /\ CooldownIsOwn

LEMMA ConstantsType ==
    /\ Callers \subseteq Users
    /\ Users \subseteq Holders
    /\ SELF \in Holders /\ REWARDS_VAULT \in Holders
    /\ STAKED_TOKEN \in Tokens /\ REWARD_TOKEN \in Tokens
  BY DEF Callers, Holders, Tokens

LEMMA MoveFundsType ==
    ASSUME funds \in [Tokens -> [Holders -> Nat]],
           NEW token \in Tokens, NEW from \in Holders, NEW to \in Holders,
           NEW amount \in Nat, MoveFunds(token, from, to, amount)
    PROVE  funds' \in [Tokens -> [Holders -> Nat]]
<1> DEFINE moved == [funds[token] EXCEPT ![from] = @ - amount, ![to] = @ + amount]
<1>1. funds[token][from] >= amount /\ funds' = [funds EXCEPT ![token] = moved]
  BY DEF MoveFunds
<1>2. moved \in [Holders -> Nat]
  BY <1>1
<1> HIDE DEF moved
<1> QED BY <1>1, <1>2

LEMMA SettlingType ==
    ASSUME ClockInv, NEW us \in SUBSET Users, UpdateUsersAsset(us)
    PROVE  /\ assetData' \in AssetData
           /\ assetData'.lastUpdateTimestamp = now
           /\ userIndex' \in [Users -> Nat]
           /\ \A u \in us : UnclaimedRewards(u) \in Nat
<1>1. /\ assetData \in AssetData /\ totalSupply \in Nat /\ now \in Nat
      /\ assetData.lastUpdateTimestamp <= now
  BY DEF ClockInv, TypeOK
<1>2. CurrentIndex \in Nat
  BY <1>1, IndexGrows DEF CurrentIndex
<1>3. assetData' \in AssetData /\ assetData'.lastUpdateTimestamp = now
  BY <1>1, UpdateAssetStateType DEF UpdateUsersAsset
<1>4. userIndex' \in [Users -> Nat]
  BY <1>2 DEF UpdateUsersAsset, ClockInv, TypeOK
<1>5. ASSUME NEW u \in us PROVE UnclaimedRewards(u) \in Nat
  <2>1. balances[u] \in Nat /\ userIndex[u] \in Nat /\ stakerRewardsToClaim[u] \in Nat
    BY DEF ClockInv, TypeOK
  <2>2. balances[u] # 0 => userIndex[u] <= CurrentIndex
    BY DEF UpdateUsersAsset
  <2>3. AccruedRewards(u) \in Nat
    BY <1>2, <2>1, <2>2, RewardsType DEF AccruedRewards
  <2> QED BY <2>1, <2>3 DEF UnclaimedRewards
<1> QED BY <1>3, <1>4, <1>5

LEMMA SettlingStoredType ==
    ASSUME ClockInv, NEW us \in SUBSET Users, UpdateCurrentUnclaimedRewards(us)
    PROVE  /\ assetData' \in AssetData
           /\ assetData'.lastUpdateTimestamp = now
           /\ userIndex' \in [Users -> Nat]
           /\ stakerRewardsToClaim' \in [Users -> Nat]
  BY SettlingType DEF UpdateCurrentUnclaimedRewards, ClockInv, TypeOK

LEMMA InitClockInv == Init => ClockInv
<1> SUFFICES ASSUME Init PROVE ClockInv
  OBVIOUS
<1>1. funds \in [Tokens -> [Holders -> Nat]]
  BY StakedTokenAssumption DEF Init
<1>2. TypeOK
  BY <1>1, StakedTokenAssumption DEF Init, TypeOK, AssetData
<1> QED
  BY <1>2, StakedTokenAssumption
  DEF Init, ClockInv, CooldownImpliesBalance, CooldownIsOwn

LEMMA StakeClockInv ==
    ASSUME ClockInv, NEW sender \in Callers, NEW onBehalfOf \in Users, NEW amount \in Nat,
           Stake(sender, onBehalfOf, amount)
    PROVE  ClockInv'
<1> DEFINE next == GetNextCooldownTimestamp(0, amount, onBehalfOf, balances[onBehalfOf])
<1> USE ConstantsType DEF ClockInv, TypeOK
<1>1. /\ assetData' \in AssetData /\ assetData'.lastUpdateTimestamp = now
      /\ userIndex' \in [Users -> Nat] /\ stakerRewardsToClaim' \in [Users -> Nat]
  BY SettlingStoredType DEF Stake
<1>2. funds' \in [Tokens -> [Holders -> Nat]]
  BY MoveFundsType DEF Stake
<1>3. balances' = [balances EXCEPT ![onBehalfOf] = @ + amount]
      /\ totalSupply' = totalSupply + amount /\ amount # 0
  BY DEF Stake, Mint
<1>4. UNCHANGED <<now, emitted, paid, activatedAt, underquoted>>
  BY DEF Stake, historyVars
<1>5. stakersCooldowns' = [stakersCooldowns EXCEPT ![onBehalfOf] = next]
  BY DEF Stake
<1>6. /\ next \in Nat
      /\ next # 0 => /\ stakersCooldowns[onBehalfOf] # 0
                     /\ stakersCooldowns[onBehalfOf] <= next /\ next <= now
  <2>1. AverageIsDefined(0, amount, onBehalfOf, balances[onBehalfOf])
    BY DEF Stake
  <2>2. stakersCooldowns[onBehalfOf] <= now
    BY DEF CooldownIsOwn
  <2> QED BY <2>1, <2>2, NextCooldownBounds
<1> HIDE DEF next
<1>7. TypeOK'
  BY <1>1, <1>2, <1>3, <1>4, <1>5, <1>6
<1>8. CooldownImpliesBalance'
  BY <1>3, <1>5, <1>6 DEF CooldownImpliesBalance
<1>9. CooldownIsOwn'
  BY <1>4, <1>5, <1>6 DEF CooldownIsOwn
<1> QED BY <1>1, <1>4, <1>7, <1>8, <1>9

LEMMA RedeemClockInv ==
    ASSUME ClockInv, NEW sender \in Callers, NEW to \in Holders, NEW amount \in Nat,
           Redeem(sender, to, amount)
    PROVE  ClockInv'
<1> DEFINE out == AmountToRedeem(sender, amount)
           next == CooldownAfterRedeem(sender, out)
<1> USE ConstantsType DEF ClockInv, TypeOK
<1>1. /\ assetData' \in AssetData /\ assetData'.lastUpdateTimestamp = now
      /\ userIndex' \in [Users -> Nat] /\ stakerRewardsToClaim' \in [Users -> Nat]
  BY SettlingStoredType DEF Redeem
<1>2. out \in Nat /\ out <= balances[sender] /\ out <= totalSupply
  BY DEF Redeem, AmountToRedeem, Burn
<1>3. /\ balances' = [balances EXCEPT ![sender] = @ - out]
      /\ totalSupply' = totalSupply - out
      /\ stakersCooldowns' = [stakersCooldowns EXCEPT ![sender] = next]
      /\ MoveFunds(STAKED_TOKEN, SELF, to, out)
      /\ UNCHANGED <<now, emitted, paid, activatedAt, underquoted>>
  BY DEF Redeem, Burn, historyVars
<1>4. next = IF balances[sender] - out = 0 THEN 0 ELSE stakersCooldowns[sender]
  BY DEF CooldownAfterRedeem
<1> HIDE DEF out, next
<1>5. funds' \in [Tokens -> [Holders -> Nat]]
  BY <1>2, <1>3, MoveFundsType
<1>6. TypeOK'
  BY <1>1, <1>2, <1>3, <1>4, <1>5
<1>7. CooldownImpliesBalance'
  BY <1>2, <1>3, <1>4 DEF CooldownImpliesBalance
<1>8. CooldownIsOwn'
  BY <1>3, <1>4 DEF CooldownIsOwn
<1> QED BY <1>1, <1>3, <1>6, <1>7, <1>8

LEMMA CooldownClockInv ==
    ASSUME ClockInv, NEW sender \in Callers, Cooldown(sender)
    PROVE  ClockInv'
<1> USE ConstantsType, StakedTokenAssumption DEF ClockInv, TypeOK, Cooldown
<1>1. TypeOK'
  OBVIOUS
<1>2. CooldownImpliesBalance'
  BY DEF CooldownImpliesBalance
<1>3. CooldownIsOwn'
  BY DEF CooldownIsOwn
<1> QED BY <1>1, <1>2, <1>3

LEMMA ClaimClockInv ==
    ASSUME ClockInv, NEW sender \in Callers, NEW to \in Holders, NEW amount \in Nat,
           ClaimRewards(sender, to, amount)
    PROVE  ClockInv'
<1> DEFINE total == UnclaimedRewards(sender)
           out == IF amount = MAX_UINT THEN total ELSE amount
<1> USE ConstantsType DEF ClockInv, TypeOK
<1>1. /\ assetData' \in AssetData /\ assetData'.lastUpdateTimestamp = now
      /\ userIndex' \in [Users -> Nat] /\ total \in Nat
  BY SettlingType DEF ClaimRewards
<1>2. /\ total >= out
      /\ stakerRewardsToClaim' = [stakerRewardsToClaim EXCEPT ![sender] = total - out]
      /\ MoveFunds(REWARD_TOKEN, REWARDS_VAULT, to, out)
      /\ paid' = paid + out
      /\ UNCHANGED <<now, balances, totalSupply, stakersCooldowns, emitted,
                     activatedAt, underquoted>>
  BY DEF ClaimRewards
<1>3. out \in Nat
  BY <1>1
<1> HIDE DEF total, out
<1>4. funds' \in [Tokens -> [Holders -> Nat]]
  BY <1>2, <1>3, MoveFundsType
<1>5. TypeOK'
  BY <1>1, <1>2, <1>3, <1>4
<1>6. CooldownImpliesBalance' /\ CooldownIsOwn'
  BY <1>2 DEF CooldownImpliesBalance, CooldownIsOwn
<1> QED BY <1>1, <1>2, <1>5, <1>6

LEMMA TransferClockInv ==
    ASSUME ClockInv, NEW from \in Callers, NEW to \in Users, NEW amount \in Nat,
           Transfer(from, to, amount)
    PROVE  ClockInv'
<1> DEFINE next == GetNextCooldownTimestamp(stakersCooldowns[from], amount, to, balances[to])
           left == CooldownAfterSending(from, amount)
<1> USE ConstantsType DEF ClockInv, TypeOK
<1>1. /\ assetData' \in AssetData /\ assetData'.lastUpdateTimestamp = now
      /\ userIndex' \in [Users -> Nat] /\ stakerRewardsToClaim' \in [Users -> Nat]
  <2>1. SettledByTransfer(from, to) \in SUBSET Users
    BY DEF SettledByTransfer
  <2> QED BY <2>1, SettlingStoredType DEF Transfer
<1>2. /\ balances[from] >= amount
      /\ balances' = [balances EXCEPT ![from] = @ - amount, ![to] = @ + amount]
      /\ UNCHANGED <<totalSupply, now, funds, emitted, paid, activatedAt, underquoted>>
  BY DEF Transfer, MoveBalance, historyVars
<1>3. CASE from = to
  <2>1. UNCHANGED <<stakersCooldowns, balances>>
    <3>1. UNCHANGED stakersCooldowns
      BY <1>3 DEF Transfer
    <3>2. balances' \in [Users -> Nat] /\ \A u \in Users : balances'[u] = balances[u]
      BY <1>2, <1>3
    <3>3. balances' = balances
      BY <3>2
    <3> QED BY <3>1, <3>3
  <2>2. TypeOK' /\ CooldownImpliesBalance' /\ CooldownIsOwn'
    BY <1>1, <1>2, <2>1 DEF CooldownImpliesBalance, CooldownIsOwn
  <2> QED BY <1>1, <1>2, <2>2
<1>4. CASE from # to
  <2>1. stakersCooldowns' = [stakersCooldowns EXCEPT ![to] = next, ![from] = left]
    BY <1>4 DEF Transfer
  <2>2. /\ next \in Nat
        /\ next # 0 => /\ stakersCooldowns[to] # 0
                       /\ stakersCooldowns[to] <= next /\ next <= now
    <3>1. AverageIsDefined(stakersCooldowns[from], amount, to, balances[to])
      BY <1>4 DEF Transfer
    <3>2. stakersCooldowns[to] <= now /\ stakersCooldowns[from] <= now
      BY DEF CooldownIsOwn
    <3> QED BY <3>1, <3>2, NextCooldownBounds
  <2>3. left = IF balances[from] = amount /\ stakersCooldowns[from] # 0
               THEN 0 ELSE stakersCooldowns[from]
    BY DEF CooldownAfterSending
  <2> HIDE DEF next, left
  <2>4. TypeOK'
    BY <1>1, <1>2, <1>4, <2>1, <2>2, <2>3
  <2>5. CooldownImpliesBalance'
    BY <1>2, <1>4, <2>1, <2>2, <2>3 DEF CooldownImpliesBalance
  <2>6. CooldownIsOwn'
    BY <1>2, <1>4, <2>1, <2>2, <2>3 DEF CooldownIsOwn
  <2> QED BY <1>1, <1>2, <2>4, <2>5, <2>6
<1> QED BY <1>3, <1>4

LEMMA ConfigureClockInv ==
    ASSUME ClockInv, NEW emission \in Nat, NEW total \in Nat, ConfigureAssets(emission, total)
    PROVE  ClockInv'
<1> USE DEF ClockInv, TypeOK
<1> DEFINE updated == UpdateAssetState(assetData, total, now)
<1>1. updated \in AssetData /\ updated.lastUpdateTimestamp = now
  BY UpdateAssetStateType
<1>2. assetData' = [updated EXCEPT !.emissionPerSecond = emission]
  BY DEF ConfigureAssets
<1> HIDE DEF updated
<1>3. assetData' \in AssetData /\ assetData'.lastUpdateTimestamp = now
  BY <1>1, <1>2 DEF AssetData
<1>4. /\ UNCHANGED <<now, funds, balances, totalSupply, userIndex, stakerRewardsToClaim,
                      stakersCooldowns, emitted, paid, activatedAt>>
      /\ underquoted' \in BOOLEAN
  BY DEF ConfigureAssets
<1> QED BY <1>3, <1>4 DEF CooldownImpliesBalance, CooldownIsOwn

LEMMA TickClockInv ==
    ASSUME ClockInv, Tick
    PROVE  ClockInv'
<1> USE StakedTokenAssumption DEF ClockInv, TypeOK, Tick
<1>1. TypeOK'
  BY DEF AssetData
<1>2. CooldownImpliesBalance' /\ CooldownIsOwn'
  BY DEF CooldownImpliesBalance, CooldownIsOwn
<1> QED BY <1>1, <1>2 DEF AssetData

LEMMA NextClockInv == ClockInv /\ [Next]_vars => ClockInv'
<1> SUFFICES ASSUME ClockInv, [Next]_vars PROVE ClockInv'
  OBVIOUS
<1> USE StakedTokenAssumption, ConstantsType
<1>1. ASSUME NEW sender \in Callers, NEW u \in Users, NEW amount \in Amounts,
             Stake(sender, u, amount)
      PROVE  ClockInv'
  BY <1>1, StakeClockInv
<1>2. ASSUME NEW sender \in Callers, NEW to \in Recipients, NEW amount \in Amounts,
             Redeem(sender, to, amount)
      PROVE  ClockInv'
  BY <1>2, RedeemClockInv
<1>3. ASSUME NEW sender \in Callers, Cooldown(sender)
      PROVE  ClockInv'
  BY <1>3, CooldownClockInv
<1>4. ASSUME NEW sender \in Callers, NEW to \in Recipients,
             NEW amount \in Amounts \cup {0, MAX_UINT}, ClaimRewards(sender, to, amount)
      PROVE  ClockInv'
  BY <1>4, ClaimClockInv
<1>5. ASSUME NEW from \in Callers, NEW to \in Users, NEW amount \in Amounts \cup {0},
             Transfer(from, to, amount)
      PROVE  ClockInv'
  BY <1>5, TransferClockInv
<1>6. ASSUME NEW emission \in Emissions, NEW total \in Quotes, ConfigureAssets(emission, total)
      PROVE  ClockInv'
  BY <1>6, ConfigureClockInv
<1>7. CASE Tick
  BY <1>7, TickClockInv
<1>8. CASE UNCHANGED vars
  BY <1>8 DEF ClockInv, TypeOK, CooldownImpliesBalance, CooldownIsOwn,
              vars, ledgerVars, historyVars
<1> QED BY <1>1, <1>2, <1>3, <1>4, <1>5, <1>6, <1>7, <1>8 DEF Next

THEOREM ClockInvariant == Spec => []ClockInv
  BY InitClockInv, NextClockInv, PTL DEF Spec

\* Every variable keeps its type, in every instance.
THEOREM TypeCorrect == Spec => []TypeOK
<1>1. ClockInv => TypeOK
  BY DEF ClockInv
<1> QED BY <1>1, ClockInvariant, PTL

\* A cooldown runs only for an account that stakes.
THEOREM CooldownNeedsBalance == Spec => []CooldownImpliesBalance
<1>1. ClockInv => CooldownImpliesBalance
  BY DEF ClockInv
<1> QED BY <1>1, ClockInvariant, PTL

\* A running cooldown is never earlier than its owner's own cooldown() nor in
\* the future, whatever others stake for it or send to it.
THEOREM CooldownOwn == Spec => []CooldownIsOwn
<1>1. ClockInv => CooldownIsOwn
  BY DEF ClockInv
<1> QED BY <1>1, ClockInvariant, PTL

----------------------------------------------------------------------------
(* Redeems wait for the owner's own cooldown. *)

LEMMA RedeemServesCooldown ==
    ASSUME ClockInv, NEW sender \in Callers, NEW to \in Holders, NEW amount \in Nat,
           Redeem(sender, to, amount)
    PROVE  OwnCooldownServed
<1> USE ConstantsType, StakedTokenAssumption DEF ClockInv, TypeOK
<1> DEFINE out == AmountToRedeem(sender, amount)
<1>1. /\ balances' = [balances EXCEPT ![sender] = @ - out]
      /\ totalSupply' = totalSupply - out
      /\ InUnstakeWindow(sender)
  BY DEF Redeem, Burn
<1>2. out \in Nat
  BY DEF AmountToRedeem
<1> HIDE DEF out
<1>3. balances'[sender] = balances[sender] - (totalSupply - totalSupply')
  BY <1>1, <1>2
<1>4. stakersCooldowns[sender] # 0
  BY <1>1 DEF InUnstakeWindow
<1>5. activatedAt[sender] # 0 /\ activatedAt[sender] <= stakersCooldowns[sender]
  BY <1>4 DEF CooldownIsOwn
<1>6. now > activatedAt[sender] + COOLDOWN_SECONDS
  BY <1>1, <1>5 DEF InUnstakeWindow
<1> QED BY <1>3, <1>5, <1>6 DEF OwnCooldownServed

LEMMA NextOwnCooldownServed ==
    ASSUME ClockInv, [Next]_vars
    PROVE  OwnCooldownServed
<1> USE ConstantsType, StakedTokenAssumption
<1>1. totalSupply \in Nat
  BY DEF ClockInv, TypeOK
<1>2. ASSUME NEW sender \in Callers, NEW to \in Recipients, NEW amount \in Amounts,
             Redeem(sender, to, amount)
      PROVE  OwnCooldownServed
  BY <1>2, RedeemServesCooldown
<1>3. ASSUME NEW sender \in Callers, NEW u \in Users, NEW amount \in Amounts,
             Stake(sender, u, amount)
      PROVE  totalSupply' >= totalSupply
  BY <1>1, <1>3 DEF Stake, Mint
<1>4. ASSUME NEW sender \in Callers, Cooldown(sender)
      PROVE  totalSupply' = totalSupply
  BY <1>4 DEF Cooldown
<1>5. ASSUME NEW sender \in Callers, NEW to \in Recipients,
             NEW amount \in Amounts \cup {0, MAX_UINT}, ClaimRewards(sender, to, amount)
      PROVE  totalSupply' = totalSupply
  BY <1>5 DEF ClaimRewards
<1>6. ASSUME NEW from \in Callers, NEW to \in Users, NEW amount \in Amounts \cup {0},
             Transfer(from, to, amount)
      PROVE  totalSupply' = totalSupply
  BY <1>6 DEF Transfer, MoveBalance
<1>7. ASSUME NEW emission \in Emissions, NEW total \in Quotes, ConfigureAssets(emission, total)
      PROVE  totalSupply' = totalSupply
  BY <1>7 DEF ConfigureAssets
<1>8. CASE Tick
  BY <1>1, <1>8 DEF Tick, OwnCooldownServed
<1>9. CASE UNCHANGED vars
  BY <1>1, <1>9 DEF vars, ledgerVars, OwnCooldownServed
<1>10. totalSupply' >= totalSupply => OwnCooldownServed
  <2>1. SUFFICES ASSUME totalSupply' >= totalSupply, totalSupply' < totalSupply PROVE FALSE
    BY DEF OwnCooldownServed
  <2>2. totalSupply' \in Nat
    BY NextClockInv DEF ClockInv, TypeOK
  <2> QED BY <1>1, <2>1, <2>2
<1> QED BY <1>1, <1>2, <1>3, <1>4, <1>5, <1>6, <1>7, <1>8, <1>9, <1>10 DEF Next

\* Stake leaves only more than COOLDOWN_SECONDS after its owner called
\* cooldown(), whatever the owner and others did in between.
THEOREM RedeemWaits == Spec => RedeemAfterOwnCooldown
<1>1. ClockInv /\ [Next]_vars => [OwnCooldownServed]_vars
  BY NextOwnCooldownServed
<1> QED BY <1>1, ClockInvariant, PTL DEF Spec, RedeemAfterOwnCooldown

----------------------------------------------------------------------------
(* Principal. *)

\* What a transfer of underlying tokens does to the contract's own holding.
LEMMA MoveFundsOfSelf ==
    ASSUME funds \in [Tokens -> [Holders -> Nat]],
           NEW token \in Tokens, NEW from \in Holders, NEW to \in Holders,
           NEW amount \in Nat, MoveFunds(token, from, to, amount)
    PROVE  /\ from # SELF => funds'[STAKED_TOKEN][SELF] >= funds[STAKED_TOKEN][SELF]
           /\ from # SELF /\ to = SELF /\ token = STAKED_TOKEN =>
                 funds'[STAKED_TOKEN][SELF] = funds[STAKED_TOKEN][SELF] + amount
           /\ funds'[STAKED_TOKEN][SELF] >= funds[STAKED_TOKEN][SELF] - amount
<1> USE ConstantsType
<1> DEFINE moved == [funds[token] EXCEPT ![from] = @ - amount, ![to] = @ + amount]
<1>1. funds[token][from] >= amount /\ funds' = [funds EXCEPT ![token] = moved]
  BY DEF MoveFunds
<1>2. /\ from # SELF => moved[SELF] >= funds[token][SELF]
      /\ from # SELF /\ to = SELF => moved[SELF] = funds[token][SELF] + amount
      /\ moved[SELF] >= funds[token][SELF] - amount
  BY <1>1
<1> HIDE DEF moved
<1> QED BY <1>1, <1>2

LEMMA InitBacked == Init => Backed
<1> SUFFICES ASSUME Init PROVE Backed
  OBVIOUS
<1>1. SumFunction(balances) = 0
  BY SumZero, StakedTokenAssumption DEF Init
<1>2. funds[STAKED_TOKEN][SELF] = 0
  BY StakedTokenAssumption, ConstantsType DEF Init
<1> QED BY <1>1, <1>2 DEF Init, Backed

LEMMA NextBacked ==
    ASSUME ClockInv, Backed, [Next]_vars
    PROVE  Backed'
<1> USE ConstantsType, StakedTokenAssumption
<1>1. /\ balances \in [Users -> Int] /\ funds \in [Tokens -> [Holders -> Nat]]
      /\ totalSupply = SumFunction(balances) /\ totalSupply \in Nat
      /\ funds[STAKED_TOKEN][SELF] >= totalSupply
      /\ funds[STAKED_TOKEN][SELF] \in Nat
  BY DEF ClockInv, TypeOK, Backed
<1>2. ASSUME NEW sender \in Callers, NEW u \in Users, NEW amount \in Amounts,
             Stake(sender, u, amount)
      PROVE  Backed'
  <2>1. /\ balances' = [balances EXCEPT ![u] = @ + amount]
        /\ totalSupply' = totalSupply + amount
        /\ MoveFunds(STAKED_TOKEN, sender, SELF, amount)
    BY <1>2 DEF Stake, Mint
  <2>2. balances' \in [Users -> Int] /\ balances'[u] = balances[u] + amount
        /\ \A v \in Users \ {u} : balances'[v] = balances[v]
    BY <1>1, <2>1
  <2>3. SumFunction(balances') = SumFunction(balances) + balances'[u] - balances[u]
    BY <1>1, <2>2, SumUpdate
  <2>4. sender # SELF
    BY DEF Callers
  <2>5. funds'[STAKED_TOKEN][SELF] = funds[STAKED_TOKEN][SELF] + amount
    BY <1>1, <2>1, <2>4, MoveFundsOfSelf
  <2>6. balances[u] \in Int /\ amount \in Nat
    BY <1>1
  <2>7. totalSupply' = SumFunction(balances')
    BY <1>1, <2>1, <2>2, <2>3, <2>6
  <2>8. funds'[STAKED_TOKEN][SELF] >= totalSupply'
    BY <1>1, <2>1, <2>5, <2>6
  <2> QED BY <2>7, <2>8 DEF Backed
<1>3. ASSUME NEW sender \in Callers, NEW to \in Recipients, NEW amount \in Amounts,
             Redeem(sender, to, amount)
      PROVE  Backed'
  <2> DEFINE out == AmountToRedeem(sender, amount)
  <2>1. /\ balances' = [balances EXCEPT ![sender] = @ - out]
        /\ totalSupply' = totalSupply - out
        /\ MoveFunds(STAKED_TOKEN, SELF, to, out)
    BY <1>3 DEF Redeem, Burn
  <2>2. out \in Nat
    BY <1>1 DEF AmountToRedeem, ClockInv, TypeOK
  <2> HIDE DEF out
  <2>3. balances' \in [Users -> Int] /\ balances'[sender] = balances[sender] - out
        /\ \A v \in Users \ {sender} : balances'[v] = balances[v]
    BY <1>1, <2>1, <2>2
  <2>4. SumFunction(balances') = SumFunction(balances) + balances'[sender] - balances[sender]
    BY <1>1, <2>3, SumUpdate
  <2>5. funds'[STAKED_TOKEN][SELF] >= funds[STAKED_TOKEN][SELF] - out
    BY <1>1, <2>1, <2>2, MoveFundsOfSelf
  <2>6. funds'[STAKED_TOKEN][SELF] \in Nat
    BY <1>1, <2>1, <2>2, MoveFundsType
  <2>7. balances[sender] \in Int
    BY <1>1
  <2>8. totalSupply' = SumFunction(balances')
    BY <1>1, <2>1, <2>2, <2>3, <2>4, <2>7
  <2>9. funds'[STAKED_TOKEN][SELF] >= totalSupply'
    BY <1>1, <2>1, <2>2, <2>5, <2>6
  <2> QED BY <2>8, <2>9 DEF Backed
<1>4. ASSUME NEW sender \in Callers, Cooldown(sender)
      PROVE  Backed'
  BY <1>4 DEF Cooldown, Backed
<1>5. ASSUME NEW sender \in Callers, NEW to \in Recipients,
             NEW amount \in Amounts \cup {0, MAX_UINT}, ClaimRewards(sender, to, amount)
      PROVE  Backed'
  <2> DEFINE out == IF amount = MAX_UINT THEN UnclaimedRewards(sender) ELSE amount
  <2>1. /\ UNCHANGED <<balances, totalSupply>>
        /\ MoveFunds(REWARD_TOKEN, REWARDS_VAULT, to, out)
        /\ UpdateUsersAsset({sender})
    BY <1>5 DEF ClaimRewards
  <2>2. out \in Nat
    BY <2>1, SettlingType
  <2> HIDE DEF out
  <2>3. funds'[STAKED_TOKEN][SELF] >= funds[STAKED_TOKEN][SELF]
    BY <1>1, <2>1, <2>2, MoveFundsOfSelf
  <2>4. funds'[STAKED_TOKEN][SELF] \in Nat
    BY <1>1, <2>1, <2>2, MoveFundsType
  <2> QED BY <1>1, <2>1, <2>3, <2>4 DEF Backed
<1>6. ASSUME NEW from \in Callers, NEW to \in Users, NEW amount \in Amounts \cup {0},
             Transfer(from, to, amount)
      PROVE  Backed'
  <2> DEFINE mid == [balances EXCEPT ![from] = @ - amount]
  <2>1. /\ balances' = [balances EXCEPT ![from] = @ - amount, ![to] = @ + amount]
        /\ UNCHANGED <<totalSupply, funds>>
    BY <1>6 DEF Transfer, MoveBalance
  <2>2. /\ amount \in Nat
        /\ mid \in [Users -> Int] /\ mid[from] = balances[from] - amount
        /\ \A v \in Users \ {from} : mid[v] = balances[v]
    BY <1>1
  <2>3. /\ balances' \in [Users -> Int] /\ balances'[to] = mid[to] + amount
        /\ \A v \in Users \ {to} : balances'[v] = mid[v]
    BY <1>1, <2>1, <2>2
  <2> HIDE DEF mid
  <2>4. SumFunction(mid) = SumFunction(balances) + mid[from] - balances[from]
    BY <1>1, <2>2, SumUpdate
  <2>5. SumFunction(balances') = SumFunction(mid) + balances'[to] - mid[to]
    BY <2>2, <2>3, SumUpdate
  <2>6. balances[from] \in Int /\ mid[to] \in Int
    BY <1>1, <2>2
  <2>7. SumFunction(balances') = SumFunction(balances)
    <3>1. SumFunction(mid) = totalSupply - amount
      BY <1>1, <2>2, <2>4, <2>6
    <3>2. SumFunction(balances') = SumFunction(mid) + amount
      BY <1>1, <2>2, <2>3, <2>5, <2>6, <3>1
    <3> QED BY <1>1, <2>2, <3>1, <3>2
  <2> QED BY <1>1, <2>1, <2>7 DEF Backed
<1>7. ASSUME NEW emission \in Emissions, NEW total \in Quotes, ConfigureAssets(emission, total)
      PROVE  Backed'
  BY <1>7 DEF ConfigureAssets, Backed
<1>8. CASE Tick
  BY <1>8 DEF Tick, Backed
<1>9. CASE UNCHANGED vars
  BY <1>9 DEF Backed, vars, ledgerVars
<1> QED BY <1>2, <1>3, <1>4, <1>5, <1>6, <1>7, <1>8, <1>9 DEF Next

\* The contract always holds what the balances add up to.
THEOREM PrincipalBacked == Spec => []Backed
  BY InitBacked, NextBacked, ClockInvariant, PTL DEF Spec

----------------------------------------------------------------------------
(* Nothing keeps a staker in. *)

\* No account's index is past that of the distribution: the subtraction in
\* every update of rewards goes through.
IndexInv == \A u \in Users : userIndex[u] <= assetData.index

LEMMA SettlingIndexInv ==
    ASSUME ClockInv, IndexInv, NEW us \in SUBSET Users, UpdateUsersAsset(us)
    PROVE  IndexInv'
<1>1. /\ assetData \in AssetData /\ totalSupply \in Nat /\ now \in Nat
      /\ assetData.lastUpdateTimestamp <= now /\ assetData.index \in Nat
      /\ userIndex \in [Users -> Nat]
  BY DEF ClockInv, TypeOK, AssetData
<1>2. CurrentIndex \in Nat /\ assetData.index <= CurrentIndex
  BY <1>1, IndexGrows DEF CurrentIndex
<1>3. assetData'.index = CurrentIndex
  BY <1>1, UpdateAssetStateType DEF UpdateUsersAsset, CurrentIndex
<1>4. \A u \in Users : userIndex'[u] = CurrentIndex \/ userIndex'[u] = userIndex[u]
  BY DEF UpdateUsersAsset
<1> QED BY <1>1, <1>2, <1>3, <1>4 DEF IndexInv

LEMMA InitIndexInv == Init => IndexInv
  BY DEF Init, IndexInv

LEMMA NextIndexInv ==
    ASSUME ClockInv, IndexInv, [Next]_vars
    PROVE  IndexInv'
<1> USE ConstantsType, StakedTokenAssumption
<1>1. ASSUME NEW sender \in Callers, NEW u \in Users, NEW amount \in Amounts,
             Stake(sender, u, amount)
      PROVE  IndexInv'
  BY <1>1, SettlingIndexInv DEF Stake, UpdateCurrentUnclaimedRewards
<1>2. ASSUME NEW sender \in Callers, NEW to \in Recipients, NEW amount \in Amounts,
             Redeem(sender, to, amount)
      PROVE  IndexInv'
  BY <1>2, SettlingIndexInv DEF Redeem, UpdateCurrentUnclaimedRewards
<1>3. ASSUME NEW sender \in Callers, Cooldown(sender) PROVE IndexInv'
  BY <1>3 DEF Cooldown, IndexInv
<1>4. ASSUME NEW sender \in Callers, NEW to \in Recipients,
             NEW amount \in Amounts \cup {0, MAX_UINT}, ClaimRewards(sender, to, amount)
      PROVE  IndexInv'
  BY <1>4, SettlingIndexInv DEF ClaimRewards
<1>5. ASSUME NEW from \in Callers, NEW to \in Users, NEW amount \in Amounts \cup {0},
             Transfer(from, to, amount)
      PROVE  IndexInv'
  <2>1. SettledByTransfer(from, to) \in SUBSET Users
    BY DEF SettledByTransfer
  <2> QED BY <1>5, <2>1, SettlingIndexInv DEF Transfer, UpdateCurrentUnclaimedRewards
<1>6. ASSUME NEW emission \in Emissions, NEW total \in Quotes, ConfigureAssets(emission, total)
      PROVE  IndexInv'
  <2>1. /\ assetData \in AssetData /\ total \in Nat /\ now \in Nat
        /\ assetData.lastUpdateTimestamp <= now
        /\ assetData.index \in Nat /\ userIndex \in [Users -> Nat]
    BY DEF ClockInv, TypeOK, AssetData
  <2> DEFINE index == GetAssetIndex(assetData, total, now)
             updated == UpdateAssetState(assetData, total, now)
  <2>2. index \in Nat /\ assetData.index <= index /\ updated \in AssetData /\ updated.index = index
    BY <2>1, IndexGrows, UpdateAssetStateType
  <2>3. assetData' = [updated EXCEPT !.emissionPerSecond = emission] /\ userIndex' = userIndex
    BY <1>6 DEF ConfigureAssets
  <2> HIDE DEF index, updated
  <2>4. assetData'.index = index
    BY <2>2, <2>3 DEF AssetData
  <2> QED BY <2>1, <2>2, <2>3, <2>4 DEF IndexInv
<1>7. CASE Tick
  BY <1>7 DEF Tick, IndexInv
<1>8. CASE UNCHANGED vars
  BY <1>8 DEF vars, ledgerVars, IndexInv
<1> QED BY <1>1, <1>2, <1>3, <1>4, <1>5, <1>6, <1>7, <1>8 DEF Next

\* What redeem asks of its sender's whole balance, once in the window.
RedeemPasses(u) ==
    /\ userIndex[u] <= CurrentIndex
    /\ totalSupply >= balances[u]
    /\ funds[STAKED_TOKEN][SELF] >= balances[u]

\* What a transfer of the whole balance asks.
TransferPasses(u, v) ==
    /\ \A w \in {u, v} : balances[w] # 0 => userIndex[w] <= CurrentIndex
    /\ u # v => AverageIsDefined(stakersCooldowns[u], balances[u], v, balances[v])

NothingLocksIn ==
    \A u \in Callers : balances[u] # 0 =>
        /\ RedeemPasses(u)
        /\ \A v \in Users : TransferPasses(u, v)

\* The two conditions are the whole guards: with them the action is a choice
\* of values for the next state.
LEMMA RedeemPassesIsGuard ==
    ASSUME ClockInv, NEW u \in Callers, balances[u] # 0
    PROVE  Redeem(u, u, balances[u]) <=>
             /\ InUnstakeWindow(u)
             /\ RedeemPasses(u)
             /\ assetData' = UpdateAssetState(assetData, totalSupply, now)
             /\ userIndex' = [v \in Users |-> IF v = u THEN CurrentIndex ELSE userIndex[v]]
             /\ stakerRewardsToClaim' =
                    [v \in Users |-> IF v = u THEN UnclaimedRewards(v)
                                              ELSE stakerRewardsToClaim[v]]
             /\ balances' = [balances EXCEPT ![u] = @ - balances[u]]
             /\ totalSupply' = totalSupply - balances[u]
             /\ stakersCooldowns' =
                    [stakersCooldowns EXCEPT ![u] = CooldownAfterRedeem(u, balances[u])]
             /\ funds' = [funds EXCEPT ![STAKED_TOKEN] =
                    [funds[STAKED_TOKEN] EXCEPT ![SELF] = @ - balances[u], ![u] = @ + balances[u]]]
             /\ UNCHANGED <<now, historyVars>>
<1>1. balances[u] \in Nat /\ AmountToRedeem(u, balances[u]) = balances[u]
  BY ConstantsType DEF AmountToRedeem, ClockInv, TypeOK
<1>2. balances[u] >= balances[u]
  BY <1>1
<1> HIDE DEF ClockInv
<1> QED BY <1>1, <1>2 DEF Redeem, RedeemPasses, UpdateCurrentUnclaimedRewards, UpdateUsersAsset,
                    Burn, MoveFunds

LEMMA TransferPassesIsGuard ==
    ASSUME ClockInv, NEW u \in Callers, NEW v \in Users
    PROVE  Transfer(u, v, balances[u]) <=>
             /\ TransferPasses(u, v)
             /\ assetData' = UpdateAssetState(assetData, totalSupply, now)
             /\ userIndex' = [w \in Users |-> IF w \in {u, v} THEN CurrentIndex ELSE userIndex[w]]
             /\ stakerRewardsToClaim' =
                    [w \in Users |-> IF w \in {u, v} THEN UnclaimedRewards(w)
                                                     ELSE stakerRewardsToClaim[w]]
             /\ stakersCooldowns' =
                    IF u = v THEN stakersCooldowns
                    ELSE [stakersCooldowns EXCEPT
                            ![v] = GetNextCooldownTimestamp(stakersCooldowns[u], balances[u],
                                                            v, balances[v]),
                            ![u] = CooldownAfterSending(u, balances[u])]
             /\ balances' = [balances EXCEPT ![u] = @ - balances[u], ![v] = @ + balances[u]]
             /\ UNCHANGED <<totalSupply, now, funds, historyVars>>
<1>1. balances[u] >= balances[u]
  BY ConstantsType DEF ClockInv, TypeOK
<1> QED BY <1>1 DEF Transfer, TransferPasses, UpdateCurrentUnclaimedRewards, UpdateUsersAsset,
                    SettledByTransfer, MoveBalance

LEMMA BackedLocksNobodyIn ==
    ASSUME ClockInv, IndexInv, Backed
    PROVE  NothingLocksIn
<1> SUFFICES ASSUME NEW u \in Callers, balances[u] # 0
             PROVE  RedeemPasses(u) /\ \A v \in Users : TransferPasses(u, v)
  BY DEF NothingLocksIn
<1>1. /\ u \in Users /\ balances \in [Users -> Nat] /\ userIndex \in [Users -> Nat]
      /\ assetData \in AssetData /\ totalSupply \in Nat /\ now \in Nat
      /\ assetData.lastUpdateTimestamp <= now /\ assetData.index \in Nat
      /\ funds[STAKED_TOKEN][SELF] \in Nat
  BY ConstantsType DEF ClockInv, TypeOK, AssetData
<1>2. CurrentIndex \in Nat /\ assetData.index <= CurrentIndex
  BY <1>1, IndexGrows DEF CurrentIndex
<1>3. \A w \in Users : userIndex[w] <= CurrentIndex
  BY <1>1, <1>2 DEF IndexInv
<1>4. balances[u] <= SumFunction(balances)
  BY <1>1, StakedTokenAssumption, SumOfNat
<1>5. RedeemPasses(u)
  BY <1>1, <1>3, <1>4 DEF RedeemPasses, Backed
<1>6. ASSUME NEW v \in Users PROVE TransferPasses(u, v)
  <2>1. balances[u] + balances[v] # 0
    BY <1>1
  <2> QED BY <1>1, <1>3, <2>1 DEF TransferPasses, AverageIsDefined
<1> QED BY <1>5, <1>6

\* In the unstake window the whole balance can be redeemed, and at any time it
\* can be transferred: nothing the code tests is in the way.
THEOREM StakersCanLeave == Spec => []NothingLocksIn
<1>1. Spec => []IndexInv
  BY InitIndexInv, NextIndexInv, ClockInvariant, PTL DEF Spec
<1> QED BY <1>1, BackedLocksNobodyIn, ClockInvariant, PrincipalBacked, PTL

----------------------------------------------------------------------------
(* No transaction creates waiting time. *)

\* Token-seconds of a balance b whose cooldown started at c.
Served(b, c, t) == IF c = 0 THEN 0 ELSE b * (t - c)

LEMMA ServedType ==
    ASSUME NEW b \in Nat, NEW c \in Nat, NEW t \in Nat, c <= t
    PROVE  Served(b, c, t) \in Nat
<1>1. t - c \in Nat
  OBVIOUS
<1> QED BY <1>1, ProductNat DEF Served

\* The average of two timestamps serves what the two parts served, but for
\* its rounding.
LEMMA AverageServes ==
    ASSUME NEW a \in Nat, NEW b \in Nat, NEW s \in Nat, NEW c \in Nat, NEW t \in Nat,
           a + b # 0
    PROVE  (b + a) * (t - WeightedAverage(a, s, b, c)) < a * (t - s) + b * (t - c) + (b + a)
<1> DEFINE n == a * s + b * c
           d == b + a
           q == n \div d
<1>1. n \in Nat /\ d \in Nat \ {0}
  BY ProductNat
<1>2. WeightedAverage(a, s, b, c) = q
  BY DEF WeightedAverage
<1>3. q \in Int /\ n < d * q + d
  <2> HIDE DEF n, d
  <2> QED BY <1>1
<1>4. d * t = a * t + b * t /\ a * (t - s) = a * t - a * s /\ b * (t - c) = b * t - b * c
  OBVIOUS
<1>5. d * (t - q) = d * t - d * q
  <2> HIDE DEF n, d, q
  <2> QED BY <1>1, <1>3
<1>6. a * t \in Int /\ b * t \in Int /\ a * s \in Int /\ b * c \in Int /\ d * q \in Int /\ d * t \in Int
  <2>1. a * t \in Int /\ b * t \in Int /\ a * s \in Int /\ b * c \in Int
    OBVIOUS
  <2> HIDE DEF n, d, q
  <2> QED BY <1>1, <1>3, <2>1
<1>7. n = a * s + b * c
  OBVIOUS
<1> HIDE DEF n, q
<1>8. d * (t - q) < a * (t - s) + b * (t - c) + d
  <2> HIDE DEF d
  <2> QED BY <1>1, <1>3, <1>4, <1>5, <1>6, <1>7
<1> QED BY <1>2, <1>8

\* What the recipient's tokens have served after amount of them arrived with
\* a cooldown of from.
LEMMA RecipientServes ==
    ASSUME ClockInv, NEW from \in Nat, from <= now, NEW amount \in Nat, NEW to \in Users,
           AverageIsDefined(from, amount, to, balances[to])
    PROVE  LET b == balances[to]
               after == Served(b + amount,
                               GetNextCooldownTimestamp(from, amount, to, b), now)
               most == amount * (now - EffectiveSender(from)) + Served(b, stakersCooldowns[to], now)
           IN  after <= most \/ after < most + (b + amount)
<1> DEFINE b == balances[to]
           c == stakersCooldowns[to]
           s == EffectiveSender(from)
           next == GetNextCooldownTimestamp(from, amount, to, b)
           most == amount * (now - s) + Served(b, c, now)
<1>1. /\ b \in Nat /\ c \in Nat /\ now \in Nat /\ c <= now
      /\ MinimalValidCooldownTimestamp \in Int
  BY StakedTokenAssumption DEF ClockInv, TypeOK, CooldownIsOwn, MinimalValidCooldownTimestamp
<1>2. s \in Nat /\ s <= now
  BY <1>1 DEF EffectiveSender
<1>3. amount * (now - s) \in Nat /\ Served(b, c, now) \in Nat
  <2>1. now - s \in Nat
    BY <1>1, <1>2
  <2> QED BY <1>1, <2>1, ServedType, ProductNat
<1>4. CASE c = 0 \/ MinimalValidCooldownTimestamp > c
  <2>1. next = 0
    BY <1>1, <1>4 DEF GetNextCooldownTimestamp
  <2>2. Served(b + amount, next, now) = 0
    BY <2>1 DEF Served
  <2> QED BY <1>3, <2>2
<1>5. CASE c # 0 /\ ~(MinimalValidCooldownTimestamp > c) /\ s < c
  <2>1. next = c
    BY <1>1, <1>2, <1>5 DEF GetNextCooldownTimestamp
  <2> HIDE DEF b, c, s, next
  <2>2. Served(b + amount, next, now) = (b + amount) * (now - c) /\ Served(b, c, now) = b * (now - c)
    BY <1>5, <2>1 DEF Served
  <2>3. (b + amount) * (now - c) = b * (now - c) + amount * (now - c)
    BY <1>1
  <2>4. now - c \in Nat /\ now - s \in Nat /\ now - c <= now - s
    BY <1>1, <1>2, <1>5
  <2>5. amount * (now - c) <= amount * (now - s) /\ amount * (now - c) \in Nat /\ b * (now - c) \in Nat
    BY <1>1, <2>4, ProductMonotone, ProductNat
  <2>6. Served(b + amount, next, now) <= most
    BY <1>3, <2>2, <2>3, <2>5
  <2> QED BY <2>6 DEF b, c, s, next
<1>6. CASE c # 0 /\ ~(MinimalValidCooldownTimestamp > c) /\ ~(s < c)
  <2>1. next = WeightedAverage(amount, s, b, c)
    BY <1>1, <1>2, <1>6 DEF GetNextCooldownTimestamp
  <2>2. amount + b # 0
    BY <1>6 DEF AverageIsDefined
  <2>3. next \in Nat /\ next <= now
    <3>1. stakersCooldowns[to] \in Nat /\ b \in Nat
      BY <1>1
    <3>2. next \in Nat /\ (next # 0 => next <= now)
      BY <1>1, <3>1, NextCooldownBounds
    <3> QED BY <1>1, <3>2
  <2> HIDE DEF b, c, s, next
  <2>4. (b + amount) * (now - next) < amount * (now - s) + b * (now - c) + (b + amount)
    BY <1>1, <1>2, <2>1, <2>2, AverageServes
  <2>5. Served(b, c, now) = b * (now - c)
    BY <1>6 DEF Served
  <2>6. Served(b + amount, next, now) = 0 \/ Served(b + amount, next, now) = (b + amount) * (now - next)
    BY DEF Served
  <2>7. Served(b + amount, next, now) <= most \/ Served(b + amount, next, now) < most + (b + amount)
    BY <1>3, <2>4, <2>5, <2>6
  <2> QED BY <2>7 DEF b, c, s, next
<1> QED BY <1>4, <1>5, <1>6

\* What the sender's tokens have served less once amount of them left.
LEMMA SenderServes ==
    ASSUME ClockInv, NEW from \in Users, NEW amount \in Nat, amount <= balances[from]
    PROVE  Served(balances[from] - amount, CooldownAfterSending(from, amount), now)
             + amount * (now - EffectiveSender(stakersCooldowns[from]))
             <= Served(balances[from], stakersCooldowns[from], now)
<1> DEFINE b == balances[from]
           c == stakersCooldowns[from]
           s == EffectiveSender(c)
           left == CooldownAfterSending(from, amount)
<1>1. /\ b \in Nat /\ c \in Nat /\ now \in Nat /\ c <= now /\ amount <= b
      /\ MinimalValidCooldownTimestamp \in Int /\ MinimalValidCooldownTimestamp > 0
  BY StakedTokenAssumption DEF ClockInv, TypeOK, CooldownIsOwn, MinimalValidCooldownTimestamp
<1>2. left = IF b = amount /\ c # 0 THEN 0 ELSE c
  BY DEF CooldownAfterSending
<1>3. s = now \/ (s = c /\ c # 0)
  BY <1>1 DEF EffectiveSender
<1>4. Served(b, c, now) \in Nat
  BY <1>1, ServedType
<1> HIDE DEF b, c, s, left
<1>5. CASE c = 0
  <2>1. Served(b, c, now) = 0 /\ Served(b - amount, left, now) = 0 /\ s = now
    BY <1>2, <1>3, <1>5 DEF Served
  <2>2. amount * (now - s) = 0
    BY <1>1, <2>1
  <2> QED BY <2>1, <2>2 DEF b, c, s, left
<1>6. CASE c # 0
  <2> DEFINE k == now - c
  <2>1. k \in Nat /\ Served(b, c, now) = b * k
    BY <1>1, <1>6 DEF Served
  <2>2. Served(b - amount, left, now) = (b - amount) * k
    <3>1. CASE b = amount
      BY <1>1, <1>2, <1>6, <2>1, <3>1 DEF Served
    <3>2. CASE b # amount
      BY <1>2, <1>6, <3>2 DEF Served
    <3> QED BY <3>1, <3>2
  <2>3. amount * (now - s) <= amount * k /\ amount * (now - s) \in Nat
    <3>1. now - s = 0 \/ now - s = k
      BY <1>1, <1>3
    <3> HIDE DEF k
    <3>2. now - s \in Nat /\ now - s <= k
      BY <2>1, <3>1
    <3> QED BY <2>1, <3>2, ProductMonotone, ProductNat
  <2> HIDE DEF k
  <2>4. (b - amount) * k + amount * k = b * k /\ (b - amount) * k \in Int /\ amount * k \in Int
    BY <1>1, <2>1
  <2>5. Served(b - amount, left, now) + amount * (now - s) <= Served(b, c, now)
    BY <1>4, <2>1, <2>2, <2>3, <2>4
  <2> QED BY <2>5 DEF b, c, s, left
<1> QED BY <1>5, <1>6

\* What the tokens of each account have served, now and after the step.
ServedNow == [u \in Users |-> Served(balances[u], stakersCooldowns[u], now)]

LEMMA WaitedIs ==
    ASSUME ClockInv
    PROVE  /\ Waited = SumFunction(ServedNow) /\ ServedNow \in [Users -> Nat]
           /\ SumFunction(ServedNow) \in Nat
<1>1. Waited = SumFunction(ServedNow)
  BY DEF Waited, ServedNow, Served
<1>2. ASSUME NEW u \in Users PROVE Served(balances[u], stakersCooldowns[u], now) \in Nat
  <2>1. /\ balances[u] \in Nat /\ stakersCooldowns[u] \in Nat /\ now \in Nat
        /\ stakersCooldowns[u] <= now
    BY DEF ClockInv, TypeOK, CooldownIsOwn
  <2> QED BY <2>1, ServedType
<1>3. ServedNow \in [Users -> Nat]
  BY <1>2 DEF ServedNow
<1> QED BY <1>1, <1>3, SumOfNat, StakedTokenAssumption

LEMMA NextWaitedIs ==
    ASSUME ClockInv'
    PROVE  /\ Waited' = SumFunction(ServedNow') /\ ServedNow' \in [Users -> Nat]
           /\ SumFunction(ServedNow') \in Nat
           /\ \A u \in Users :
                 ServedNow'[u] = Served(balances'[u], stakersCooldowns'[u], now')
<1>1. Waited' = SumFunction(ServedNow')
  BY DEF Waited, ServedNow, Served
<1>2. ServedNow' = [u \in Users |-> Served(balances'[u], stakersCooldowns'[u], now')]
  BY DEF ServedNow
<1>3. ASSUME NEW u \in Users PROVE Served(balances'[u], stakersCooldowns'[u], now') \in Nat
  <2>1. /\ balances'[u] \in Nat /\ stakersCooldowns'[u] \in Nat /\ now' \in Nat
        /\ stakersCooldowns'[u] <= now'
    BY DEF ClockInv, TypeOK, CooldownIsOwn
  <2> QED BY <2>1, ServedType
<1>4. ServedNow' \in [Users -> Nat]
  BY <1>2, <1>3
<1> QED BY <1>1, <1>2, <1>4, SumOfNat, StakedTokenAssumption

\* The bound of WaitNotCreated.
WaitBounded == Waited' <= Waited \/ \E u \in Users : Waited' < Waited + balances'[u]

\* A step that changes what one account has served.
LEMMA OneServes ==
    ASSUME ClockInv, ClockInv', now' = now, NEW x \in Users,
           \A u \in Users \ {x} : balances'[u] = balances[u]
                                  /\ stakersCooldowns'[u] = stakersCooldowns[u],
           LET before == Served(balances[x], stakersCooldowns[x], now)
               after  == Served(balances'[x], stakersCooldowns'[x], now)
           IN  after <= before \/ after < before + balances'[x]
    PROVE  WaitBounded
<1> DEFINE f == ServedNow
           g == ServedNow'
<1>1. /\ Waited = SumFunction(f) /\ Waited' = SumFunction(g)
      /\ f \in [Users -> Nat] /\ g \in [Users -> Nat]
      /\ SumFunction(f) \in Nat /\ SumFunction(g) \in Nat
      /\ \A u \in Users : g[u] = Served(balances'[u], stakersCooldowns'[u], now)
  BY WaitedIs, NextWaitedIs
<1>2. \A u \in Users : f[u] = Served(balances[u], stakersCooldowns[u], now)
  BY DEF ServedNow
<1>3. balances'[x] \in Nat
  BY DEF ClockInv, TypeOK
<1> HIDE DEF f, g
<1>4. \A u \in Users \ {x} : g[u] = f[u]
  BY <1>1, <1>2
<1>5. g[x] <= f[x] \/ g[x] < f[x] + balances'[x]
  BY <1>1, <1>2
<1>6. f \in [Users -> Int] /\ g \in [Users -> Int]
  BY <1>1
<1>7. SumFunction(g) = SumFunction(f) + g[x] - f[x]
  BY <1>4, <1>6, SumUpdate, StakedTokenAssumption
<1>8. f[x] \in Nat /\ g[x] \in Nat
  BY <1>1
<1>9. SumFunction(g) <= SumFunction(f) \/ SumFunction(g) < SumFunction(f) + balances'[x]
  BY <1>1, <1>3, <1>5, <1>7, <1>8
<1> QED BY <1>1, <1>9 DEF WaitBounded

\* A step that changes what two accounts have served.
LEMMA TwoServe ==
    ASSUME ClockInv, ClockInv', now' = now, NEW x \in Users, NEW y \in Users, x # y,
           \A u \in Users \ {x, y} : balances'[u] = balances[u]
                                     /\ stakersCooldowns'[u] = stakersCooldowns[u],
           LET before == Served(balances[x], stakersCooldowns[x], now)
                           + Served(balances[y], stakersCooldowns[y], now)
               after  == Served(balances'[x], stakersCooldowns'[x], now)
                           + Served(balances'[y], stakersCooldowns'[y], now)
           IN  after <= before \/ after < before + balances'[y]
    PROVE  WaitBounded
<1> DEFINE f == ServedNow
           g == ServedNow'
           m == [f EXCEPT ![x] = g[x]]
<1>1. /\ Waited = SumFunction(f) /\ Waited' = SumFunction(g)
      /\ f \in [Users -> Nat] /\ g \in [Users -> Nat]
      /\ SumFunction(f) \in Nat /\ SumFunction(g) \in Nat
      /\ \A u \in Users : g[u] = Served(balances'[u], stakersCooldowns'[u], now)
  BY WaitedIs, NextWaitedIs
<1>2. \A u \in Users : f[u] = Served(balances[u], stakersCooldowns[u], now)
  BY DEF ServedNow
<1>3. balances'[y] \in Nat
  BY DEF ClockInv, TypeOK
<1> HIDE DEF f, g
<1>4. /\ m \in [Users -> Int] /\ m[x] = g[x] /\ m[y] = f[y]
      /\ \A u \in Users \ {x} : m[u] = f[u]
  BY <1>1
<1>5. \A u \in Users \ {x, y} : g[u] = f[u]
  BY <1>1, <1>2
<1> HIDE DEF m
<1>6. \A u \in Users \ {y} : g[u] = m[u]
  BY <1>4, <1>5
<1>7. g[x] + g[y] <= f[x] + f[y] \/ g[x] + g[y] < f[x] + f[y] + balances'[y]
  BY <1>1, <1>2
<1>8. f \in [Users -> Int] /\ g \in [Users -> Int]
  BY <1>1
<1>9. SumFunction(m) = SumFunction(f) + m[x] - f[x]
  BY <1>4, <1>8, SumUpdate, StakedTokenAssumption
<1>10. SumFunction(g) = SumFunction(m) + g[y] - m[y]
  BY <1>4, <1>6, <1>8, SumUpdate, StakedTokenAssumption
<1>11. f[x] \in Nat /\ g[x] \in Nat /\ f[y] \in Nat /\ g[y] \in Nat
  BY <1>1
<1>12. SumFunction(g) <= SumFunction(f) \/ SumFunction(g) < SumFunction(f) + balances'[y]
  BY <1>1, <1>3, <1>4, <1>7, <1>9, <1>10, <1>11
<1> QED BY <1>1, <1>12 DEF WaitBounded

LEMMA NothingServes ==
    ASSUME ClockInv, UNCHANGED <<now, balances, stakersCooldowns>>
    PROVE  WaitBounded
<1>1. Waited' = Waited
  BY DEF Waited
<1> QED BY <1>1, WaitedIs DEF WaitBounded

LEMMA StakeWaits ==
    ASSUME ClockInv, ClockInv', NEW sender \in Callers, NEW u \in Users, NEW amount \in Nat,
           Stake(sender, u, amount)
    PROVE  WaitBounded
<1> DEFINE next == GetNextCooldownTimestamp(0, amount, u, balances[u])
           b == balances[u]
           c == stakersCooldowns[u]
<1>1. /\ now \in Nat /\ b \in Nat /\ balances \in [Users -> Nat]
      /\ stakersCooldowns \in [Users -> Nat]
      /\ MinimalValidCooldownTimestamp \in Int /\ MinimalValidCooldownTimestamp > 0
  BY StakedTokenAssumption DEF ClockInv, TypeOK, MinimalValidCooldownTimestamp
<1>2. /\ balances' = [balances EXCEPT ![u] = @ + amount] /\ now' = now
      /\ stakersCooldowns' = [stakersCooldowns EXCEPT ![u] = next]
      /\ AverageIsDefined(0, amount, u, b)
  BY DEF Stake, Mint
<1>3. EffectiveSender(0) = now
  BY <1>1 DEF EffectiveSender
<1>4. amount * (now - EffectiveSender(0)) = 0
  BY <1>1, <1>3
<1>5. \/ Served(b + amount, next, now) <= 0 + Served(b, c, now)
      \/ Served(b + amount, next, now) < 0 + Served(b, c, now) + (b + amount)
  BY <1>1, <1>2, <1>4, RecipientServes
<1> HIDE DEF next
<1>6. /\ balances'[u] = b + amount /\ stakersCooldowns'[u] = next
      /\ \A v \in Users \ {u} : balances'[v] = balances[v]
                                /\ stakersCooldowns'[v] = stakersCooldowns[v]
  BY <1>1, <1>2
<1>7. Served(b, c, now) \in Nat
  BY WaitedIs DEF ServedNow
<1> QED BY <1>2, <1>5, <1>6, <1>7, OneServes

LEMMA RedeemWaitsNoMore ==
    ASSUME ClockInv, ClockInv', NEW sender \in Callers, NEW to \in Holders, NEW amount \in Nat,
           Redeem(sender, to, amount)
    PROVE  WaitBounded
<1> DEFINE out == AmountToRedeem(sender, amount)
           b == balances[sender]
           c == stakersCooldowns[sender]
           next == CooldownAfterRedeem(sender, out)
<1>1. /\ sender \in Users /\ now \in Nat /\ b \in Nat /\ c \in Nat /\ c <= now
      /\ balances \in [Users -> Nat] /\ stakersCooldowns \in [Users -> Nat]
  BY ConstantsType DEF ClockInv, TypeOK, CooldownIsOwn
<1>2. /\ balances' = [balances EXCEPT ![sender] = @ - out] /\ b >= out /\ now' = now
      /\ stakersCooldowns' = [stakersCooldowns EXCEPT ![sender] = next]
  BY DEF Redeem, Burn
<1>3. next = 0 \/ next = c
  BY DEF CooldownAfterRedeem
<1>4. out \in Nat
  BY <1>1 DEF AmountToRedeem
<1> HIDE DEF next, out
<1>5. /\ balances'[sender] = b - out /\ stakersCooldowns'[sender] = next
      /\ \A v \in Users \ {sender} : balances'[v] = balances[v]
                                     /\ stakersCooldowns'[v] = stakersCooldowns[v]
  BY <1>1, <1>2
<1>6. Served(b - out, next, now) <= Served(b, c, now)
  <2> HIDE DEF b, c
  <2>1. Served(b, c, now) \in Nat
    BY <1>1, ServedType
  <2>2. CASE next = 0
    BY <2>1, <2>2 DEF Served
  <2>3. CASE next # 0
    <3>1. /\ Served(b - out, next, now) = (b - out) * (now - c)
          /\ Served(b, c, now) = b * (now - c)
      BY <1>3, <2>3 DEF Served
    <3>2. now - c \in Nat /\ b - out \in Nat /\ b - out <= b
      BY <1>1, <1>2, <1>4
    <3>3. (now - c) * (b - out) <= (now - c) * b
      BY <1>1, <3>2, ProductMonotone
    <3>4. (now - c) * (b - out) = (b - out) * (now - c) /\ (now - c) * b = b * (now - c)
      BY <1>1, <3>2
    <3> QED BY <3>1, <3>3, <3>4
  <2> QED BY <2>2, <2>3
<1> QED BY <1>1, <1>2, <1>5, <1>6, OneServes

LEMMA CooldownWaits ==
    ASSUME ClockInv, ClockInv', NEW sender \in Callers, Cooldown(sender)
    PROVE  WaitBounded
<1>1. /\ sender \in Users /\ now \in Nat /\ balances[sender] \in Nat
      /\ stakersCooldowns \in [Users -> Nat]
  BY ConstantsType DEF ClockInv, TypeOK
<1>2. /\ stakersCooldowns' = [stakersCooldowns EXCEPT ![sender] = now]
      /\ balances' = balances /\ now' = now
  BY DEF Cooldown
<1>3. /\ stakersCooldowns'[sender] = now
      /\ \A v \in Users \ {sender} : stakersCooldowns'[v] = stakersCooldowns[v]
  BY <1>1, <1>2
<1>4. Served(balances'[sender], stakersCooldowns'[sender], now) = 0
  BY <1>1, <1>2, <1>3 DEF Served
<1>5. Served(balances[sender], stakersCooldowns[sender], now) \in Nat
  BY <1>1, WaitedIs DEF ServedNow
<1> QED BY <1>1, <1>2, <1>3, <1>4, <1>5, OneServes

LEMMA TransferWaits ==
    ASSUME ClockInv, ClockInv', NEW from \in Callers, NEW to \in Users, NEW amount \in Nat,
           Transfer(from, to, amount)
    PROVE  WaitBounded
<1>1. /\ from \in Users /\ now \in Nat /\ balances \in [Users -> Nat]
      /\ stakersCooldowns \in [Users -> Nat]
      /\ stakersCooldowns[from] <= now
  BY ConstantsType DEF ClockInv, TypeOK, CooldownIsOwn
<1>2. /\ balances[from] >= amount /\ now' = now
      /\ balances' = [balances EXCEPT ![from] = @ - amount, ![to] = @ + amount]
  BY DEF Transfer, MoveBalance, historyVars
<1>3. CASE from = to
  <2>1. stakersCooldowns' = stakersCooldowns
    BY <1>3 DEF Transfer
  <2>2. balances' \in [Users -> Nat] /\ \A u \in Users : balances'[u] = balances[u]
    BY <1>1, <1>2, <1>3
  <2>3. balances' = balances
    BY <1>1, <2>2
  <2> QED BY <1>2, <2>1, <2>3, NothingServes
<1>4. CASE from # to
  <2> DEFINE next == GetNextCooldownTimestamp(stakersCooldowns[from], amount, to, balances[to])
             left == CooldownAfterSending(from, amount)
             moved == amount * (now - EffectiveSender(stakersCooldowns[from]))
             a == Served(balances[from], stakersCooldowns[from], now)
             b == Served(balances[to], stakersCooldowns[to], now)
             p == Served(balances[from] - amount, left, now)
             q == Served(balances[to] + amount, next, now)
  <2>1. /\ AverageIsDefined(stakersCooldowns[from], amount, to, balances[to])
        /\ stakersCooldowns' = [stakersCooldowns EXCEPT ![to] = next, ![from] = left]
    BY <1>4 DEF Transfer
  <2>2. q <= moved + b \/ q < moved + b + (balances[to] + amount)
    BY <1>1, <2>1, RecipientServes
  <2>3. p + moved <= a
    BY <1>1, <1>2, SenderServes
  <2> HIDE DEF next, left
  <2>4. /\ balances'[from] = balances[from] - amount /\ balances'[to] = balances[to] + amount
        /\ stakersCooldowns'[from] = left /\ stakersCooldowns'[to] = next
        /\ \A u \in Users \ {from, to} : balances'[u] = balances[u]
                                         /\ stakersCooldowns'[u] = stakersCooldowns[u]
    BY <1>1, <1>2, <1>4, <2>1
  <2>5. a \in Nat /\ b \in Nat
    BY <1>1, WaitedIs DEF ServedNow
  <2>6. p \in Nat /\ q \in Nat
    <3>1. /\ ServedNow' \in [Users -> Nat]
          /\ ServedNow'[from] = Served(balances'[from], stakersCooldowns'[from], now)
          /\ ServedNow'[to] = Served(balances'[to], stakersCooldowns'[to], now)
      BY <1>1, <1>2, NextWaitedIs
    <3>2. ServedNow'[from] = p /\ ServedNow'[to] = q
      BY <2>4, <3>1
    <3> HIDE DEF p, q
    <3> QED BY <1>1, <3>1, <3>2
  <2>7. moved \in Int
    <3>1. EffectiveSender(stakersCooldowns[from]) \in Int
      BY <1>1 DEF EffectiveSender
    <3> QED BY <1>1, <3>1
  <2>8. balances[to] \in Nat
    BY <1>1
  <2> HIDE DEF a, b, p, q, moved
  <2>9. p + q <= a + b \/ p + q < a + b + (balances[to] + amount)
    BY <2>2, <2>3, <2>5, <2>6, <2>7, <2>8
  <2> QED BY <1>1, <1>2, <1>4, <2>4, <2>9, TwoServe DEF a, b, p, q
<1> QED BY <1>3, <1>4

\* Moving tokens between accounts, in any direction and amount, creates no
\* cooldown time but for the rounding of one average.
THEOREM WaitingIsNotCreated == Spec => WaitNotCreated
<1>1. ClockInv /\ [Next]_vars => [now' = now => WaitBounded]_vars
  <2> SUFFICES ASSUME ClockInv, Next, now' = now PROVE WaitBounded
    OBVIOUS
  <2> USE ConstantsType, StakedTokenAssumption
  <2>1. ClockInv'
    BY NextClockInv
  <2>2. ASSUME NEW sender \in Callers, NEW u \in Users, NEW amount \in Amounts,
               Stake(sender, u, amount)
        PROVE  WaitBounded
    BY <2>1, <2>2, StakeWaits
  <2>3. ASSUME NEW sender \in Callers, NEW to \in Recipients, NEW amount \in Amounts,
               Redeem(sender, to, amount)
        PROVE  WaitBounded
    BY <2>1, <2>3, RedeemWaitsNoMore
  <2>4. ASSUME NEW sender \in Callers, Cooldown(sender) PROVE WaitBounded
    BY <2>1, <2>4, CooldownWaits
  <2>5. ASSUME NEW sender \in Callers, NEW to \in Recipients,
               NEW amount \in Amounts \cup {0, MAX_UINT}, ClaimRewards(sender, to, amount)
        PROVE  WaitBounded
    BY <2>5, NothingServes DEF ClaimRewards
  <2>6. ASSUME NEW from \in Callers, NEW to \in Users, NEW amount \in Amounts \cup {0},
               Transfer(from, to, amount)
        PROVE  WaitBounded
    BY <2>1, <2>6, TransferWaits
  <2>7. ASSUME NEW emission \in Emissions, NEW total \in Quotes, ConfigureAssets(emission, total)
        PROVE  WaitBounded
    BY <2>7, NothingServes DEF ConfigureAssets
  <2>8. ~Tick
    BY DEF Tick, ClockInv, TypeOK
  <2> QED BY <2>2, <2>3, <2>4, <2>5, <2>6, <2>7, <2>8 DEF Next
<1>2. [now' = now => WaitBounded]_vars => [now' = now =>
        \/ Waited' <= Waited
        \/ \E u \in Users : Waited' < Waited + balances'[u] ]_vars
  BY DEF WaitBounded
<1> QED BY <1>1, <1>2, ClockInvariant, PTL DEF Spec, WaitNotCreated

----------------------------------------------------------------------------
(***************************************************************************)
(* Rewards: the ledger never owes more than was emitted.                   *)
(*                                                                         *)
(* Solvent is about rounded rewards at the index of now.  What a step      *)
(* preserves is a statement without rounding: the weights of the accounts, *)
(* in units of 1 / Scale, with what was paid and with the seconds no       *)
(* update of the index has counted yet, stay within what was emitted.      *)
(***************************************************************************)

\* What is owed to u at the stored index, times Scale.
Weight(u) ==
    balances[u] * (assetData.index - userIndex[u]) + Scale * stakerRewardsToClaim[u]

Weights == [u \in Users |-> Weight(u)]

\* Emitted since the last update of the index, and not yet in it.
Pending == PendingOf(assetData, totalSupply, now)

\* The inductive form of Solvent.
Owed ==
    ~underquoted =>
        SumFunction(Weights) + Scale * paid + Scale * Pending <= Scale * emitted

\* How far an update that is told total moves the index now.
Advance(total) == AdvanceOf(assetData, total, now)

LEMMA AdvanceType ==
    ASSUME ClockInv, NEW total \in Nat
    PROVE  Advance(total) \in Nat
  BY AdvanceOfType DEF Advance, ClockInv, TypeOK

LEMMA PendingType ==
    ASSUME ClockInv
    PROVE  Pending \in Nat
  BY PendingOfType DEF Pending, ClockInv, TypeOK

\* What an update adds to the index, over the whole supply, is no more than
\* what was pending, if it was told no less than the supply.
LEMMA AdvanceIsPending ==
    ASSUME ClockInv, NEW total \in Nat, total = 0 \/ totalSupply <= total
    PROVE  Advance(total) * totalSupply <= Scale * Pending
  BY AdvanceOfIsPending DEF Advance, Pending, ClockInv, TypeOK

LEMMA WeightOfValues ==
    ASSUME NEW b \in Nat, NEW i \in Nat, NEW j \in Nat, NEW r \in Nat
    PROVE  b * (i - j) + Scale * r \in Int
<1>1. b * (i - j) \in Int /\ Scale * r \in Int
  BY DistributionAssumption
<1> QED BY <1>1

LEMMA WeightType ==
    ASSUME ClockInv
    PROVE  Weights \in [Users -> Int] /\ \A u \in Users : Weight(u) \in Int
<1>1. ASSUME NEW u \in Users PROVE Weight(u) \in Int
  <2>1. /\ balances[u] \in Nat /\ assetData.index \in Nat /\ userIndex[u] \in Nat
        /\ stakerRewardsToClaim[u] \in Nat
    BY DEF ClockInv, TypeOK, AssetData
  <2> QED BY <2>1, WeightOfValues DEF Weight
<1> QED BY <1>1 DEF Weights

LEMMA NextWeightType ==
    ASSUME ClockInv'
    PROVE  Weights' \in [Users -> Int] /\ \A u \in Users : Weights'[u] = Weight(u)'
<1>1. ASSUME NEW u \in Users PROVE Weight(u)' \in Int
  <2>1. /\ balances'[u] \in Nat /\ assetData'.index \in Nat /\ userIndex'[u] \in Nat
        /\ stakerRewardsToClaim'[u] \in Nat
    BY DEF ClockInv, TypeOK, AssetData
  <2> QED BY <2>1, WeightOfValues DEF Weight
<1>2. Weights' = [u \in Users |-> Weight(u)']
  BY DEF Weights
<1> QED BY <1>1, <1>2

\* Rewards at the index an update would set are the weight and the share of
\* the advance, rounded down.
LEMMA AccruedIsRounded ==
    ASSUME ClockInv, NEW u \in Users, NEW i \in Nat
    PROVE  /\ GetRewards(balances[u], i, userIndex[u]) \in Int
           /\ Scale * (stakerRewardsToClaim[u] + GetRewards(balances[u], i, userIndex[u]))
                <= Weight(u) + balances[u] * (i - assetData.index)
<1> DEFINE b == balances[u]
           n == b * (i - userIndex[u])
           s == stakerRewardsToClaim[u]
           x == assetData.index
           y == userIndex[u]
<1>1. b \in Nat /\ y \in Nat /\ s \in Nat /\ x \in Nat
      /\ Scale \in Nat \ {0}
  BY DistributionAssumption DEF ClockInv, TypeOK, AssetData
<1> HIDE DEF b, s, x, y
<1>2. GetRewards(balances[u], i, userIndex[u]) = (b * (i - y)) \div Scale
  BY DEF GetRewards, b, y
<1>3. Weight(u) = b * (x - y) + Scale * s
  BY DEF Weight, b, s, x, y
<1>4. b * (i - y) \in Int /\ b * (x - y) \in Int /\ b * (i - x) \in Int
      /\ Scale * s \in Int
      /\ b * (x - y) + b * (i - x) = b * (i - y)
  BY <1>1
<1> DEFINE q == (b * (i - y)) \div Scale
<1>5. q \in Int /\ Scale * q <= b * (i - y)
  BY <1>1, <1>4, QuotientTimes
<1> HIDE DEF q
<1>6. Scale * (s + q) = Scale * s + Scale * q /\ Scale * q \in Int
  BY <1>1, <1>5
<1>7. Scale * (s + q) <= Weight(u) + b * (i - x)
  BY <1>3, <1>4, <1>5, <1>6
<1> QED BY <1>2, <1>5, <1>7 DEF b, s, x, q

\* The sum of what a step leaves, if it leaves each account no more than its
\* weight and its share of the advance of the index.
LEMMA SharesSum ==
    ASSUME ClockInv, Backed, NEW d \in Int, NEW h \in [Users -> Int],
           \A u \in Users : h[u] <= Weight(u) + balances[u] * d
    PROVE  SumFunction(h) <= SumFunction(Weights) + d * totalSupply
<1> DEFINE share == [u \in Users |-> d * balances[u]]
           both == [u \in Users |-> Weights[u] + share[u]]
<1> USE StakedTokenAssumption
<1>1. /\ balances \in [Users -> Int] /\ Weights \in [Users -> Int]
      /\ totalSupply = SumFunction(balances)
  BY WeightType DEF ClockInv, TypeOK, Backed
<1>2. /\ share \in [Users -> Int] /\ \A u \in Users : share[u] = d * balances[u]
  BY <1>1
<1>3. SumFunction(share) = d * SumFunction(balances)
  <2> HIDE DEF share
  <2> QED BY <1>1, <1>2, SumFactor
<1>4. both \in [Users -> Int] /\ \A u \in Users : both[u] = Weights[u] + share[u]
  <2> HIDE DEF share
  <2> QED BY <1>1, <1>2
<1>5. ASSUME NEW u \in Users PROVE h[u] <= both[u]
  <2>1. both[u] = Weight(u) + d * balances[u]
    BY <1>2, <1>4 DEF Weights
  <2>2. balances[u] \in Int
    BY <1>1
  <2>3. d * balances[u] = balances[u] * d
    BY <2>2
  <2> QED BY <2>1, <2>3
<1> HIDE DEF share, both
<1>6. SumFunction(both) = SumFunction(Weights) + SumFunction(share)
  BY <1>1, <1>2, <1>4, SumOfSums
<1>7. SumFunction(h) <= SumFunction(both)
  BY <1>4, <1>5, SumOrder
<1> QED BY <1>1, <1>3, <1>6, <1>7

----------------------------------------------------------------------------
(* What the handlers do to the ledger. *)

\* After an update in the second of the transaction nothing is pending.
LEMMA NothingPending ==
    ASSUME ClockInv', assetData'.lastUpdateTimestamp = now, now' = now
    PROVE  Pending' = 0
<1>1. now \in Nat /\ assetData' \in AssetData
  BY DEF ClockInv, TypeOK
<1> QED BY <1>1, NothingPendingOf DEF Pending

\* A step that updates the index and leaves each account (h) no more than its
\* weight and its share of the advance keeps the ledger within bounds.
LEMMA UpdateKeepsOwed ==
    ASSUME ClockInv, ClockInv', Backed, Owed,
           now' = now, emitted' = emitted, assetData'.lastUpdateTimestamp = now,
           ~underquoted' => ~underquoted,
           NEW total \in Nat, ~underquoted' => total = 0 \/ totalSupply <= total,
           NEW h \in [Users -> Int],
           \A u \in Users : h[u] <= Weight(u) + balances[u] * Advance(total),
           SumFunction(h) = SumFunction(Weights') + Scale * paid' - Scale * paid
    PROVE  Owed'
<1> SUFFICES ASSUME ~underquoted'
             PROVE  SumFunction(Weights') + Scale * paid' + Scale * Pending' <= Scale * emitted'
  BY DEF Owed
<1> DEFINE before == SumFunction(Weights)
           after == SumFunction(Weights')
           middle == SumFunction(h)
           advance == Advance(total) * totalSupply
<1>1. before + Scale * paid + Scale * Pending <= Scale * emitted
  BY DEF Owed
<1>2. middle <= before + advance
  BY SharesSum, AdvanceType
<1>3. advance <= Scale * Pending
  BY AdvanceIsPending
<1>4. before \in Int /\ after \in Int /\ middle \in Int
  BY WeightType, NextWeightType, SumIsInt, StakedTokenAssumption
<1>5. advance \in Int /\ Scale * Pending \in Int /\ Scale * paid \in Int
      /\ Scale * paid' \in Int /\ Scale * emitted \in Int /\ Scale \in Int
  BY AdvanceType, PendingType, DistributionAssumption DEF ClockInv, TypeOK
<1>6. Pending' = 0
  BY NothingPending
<1>7. middle = after + Scale * paid' - Scale * paid
  OBVIOUS
<1> HIDE DEF before, after, middle, advance
<1>8. after + Scale * paid' <= Scale * emitted
  BY <1>1, <1>2, <1>3, <1>4, <1>5, <1>7
<1>9. after + Scale * paid' + Scale * Pending' <= Scale * emitted'
  BY <1>4, <1>5, <1>6, <1>8
<1> QED BY <1>9 DEF after

\* The index and the rewards of the accounts a transaction settles.
LEMMA SettledShares ==
    ASSUME ClockInv, NEW us \in SUBSET Users, UpdateUsersAsset(us)
    PROVE  /\ assetData'.index = CurrentIndex /\ assetData'.lastUpdateTimestamp = now
           /\ CurrentIndex \in Nat
           /\ CurrentIndex - assetData.index = Advance(totalSupply)
           /\ \A u \in us : /\ userIndex'[u] = CurrentIndex
                             /\ UnclaimedRewards(u) \in Nat
                             /\ Scale * UnclaimedRewards(u)
                                  <= Weight(u) + balances[u] * Advance(totalSupply)
           /\ \A u \in Users \ us : userIndex'[u] = userIndex[u]
<1>1. /\ assetData \in AssetData /\ totalSupply \in Nat /\ now \in Nat
      /\ assetData.lastUpdateTimestamp <= now /\ assetData.index \in Nat
  BY DEF ClockInv, TypeOK, AssetData
<1>2. CurrentIndex \in Nat /\ CurrentIndex - assetData.index = Advance(totalSupply)
  BY <1>1, IndexGrows DEF CurrentIndex, Advance, AdvanceOf
<1>3. assetData'.index = CurrentIndex /\ assetData'.lastUpdateTimestamp = now
  BY <1>1, UpdateAssetStateType DEF UpdateUsersAsset, CurrentIndex
<1>4. ASSUME NEW u \in us
      PROVE  Scale * UnclaimedRewards(u) <= Weight(u) + balances[u] * Advance(totalSupply)
  <2>1. /\ GetRewards(balances[u], CurrentIndex, userIndex[u]) \in Int
        /\ Scale * (stakerRewardsToClaim[u]
                      + GetRewards(balances[u], CurrentIndex, userIndex[u]))
             <= Weight(u) + balances[u] * Advance(totalSupply)
    BY <1>2, AccruedIsRounded
  <2>2. CASE balances[u] # 0
    BY <2>1, <2>2 DEF UnclaimedRewards, AccruedRewards
  <2>3. CASE balances[u] = 0
    <3>1. /\ userIndex[u] \in Nat /\ Scale \in Nat /\ stakerRewardsToClaim[u] \in Nat
          /\ AccruedRewards(u) = 0
      BY <2>3, DistributionAssumption DEF AccruedRewards, ClockInv, TypeOK
    <3>2. UnclaimedRewards(u) = stakerRewardsToClaim[u]
      BY <3>1 DEF UnclaimedRewards
    <3>3. 0 * (assetData.index - userIndex[u]) = 0 /\ 0 * Advance(totalSupply) = 0
      BY <1>1, <3>1, AdvanceType
    <3>4. Scale * stakerRewardsToClaim[u] \in Int
      BY <3>1
    <3> QED BY <2>3, <3>2, <3>3, <3>4 DEF Weight
  <2> QED BY <2>2, <2>3
<1>5. /\ \A u \in us : userIndex'[u] = CurrentIndex
      /\ \A u \in Users \ us : userIndex'[u] = userIndex[u]
  BY DEF UpdateUsersAsset
<1>6. \A u \in us : UnclaimedRewards(u) \in Nat
  BY SettlingType
<1> QED BY <1>2, <1>3, <1>4, <1>5, <1>6

\* stake, redeem and _transfer: settle some accounts, store their rewards and
\* change no other balance.
LEMMA StoredKeepsOwed ==
    ASSUME ClockInv, ClockInv', Backed, Owed,
           NEW us \in SUBSET Users, UpdateCurrentUnclaimedRewards(us),
           \A u \in Users \ us : balances'[u] = balances[u],
           UNCHANGED <<now, emitted, paid, underquoted>>
    PROVE  Owed'
<1> DEFINE a == Advance(totalSupply)
<1>1. UpdateUsersAsset(us) /\ totalSupply \in Nat
  BY DEF UpdateCurrentUnclaimedRewards, ClockInv, TypeOK
<1>2. /\ assetData'.index = CurrentIndex /\ assetData'.lastUpdateTimestamp = now
      /\ CurrentIndex \in Nat
      /\ CurrentIndex - assetData.index = a
      /\ \A u \in us : /\ userIndex'[u] = CurrentIndex
                        /\ UnclaimedRewards(u) \in Nat
                        /\ Scale * UnclaimedRewards(u) <= Weight(u) + balances[u] * a
      /\ \A u \in Users \ us : userIndex'[u] = userIndex[u]
  BY <1>1, SettledShares
<1>3. Weights' \in [Users -> Int] /\ \A u \in Users : Weights'[u] = Weight(u)'
  BY NextWeightType
<1>4. ASSUME NEW u \in Users PROVE Weight(u)' <= Weight(u) + balances[u] * a
  <2> DEFINE w == Weight(u)'
  <2>1. w = balances'[u] * (assetData'.index - userIndex'[u])
              + Scale * stakerRewardsToClaim'[u]
    BY DEF Weight
  <2>2. balances'[u] \in Nat /\ balances[u] \in Nat /\ a \in Nat /\ Scale \in Nat
        /\ userIndex[u] \in Nat /\ assetData.index \in Nat /\ stakerRewardsToClaim[u] \in Nat
    BY <1>1, AdvanceType, DistributionAssumption DEF ClockInv, TypeOK, AssetData
  <2>3. CASE u \in us
    <3>1. stakerRewardsToClaim'[u] = UnclaimedRewards(u)
      BY <2>3 DEF UpdateCurrentUnclaimedRewards
    <3>2. balances'[u] * (assetData'.index - userIndex'[u]) = 0
      BY <1>2, <2>2, <2>3
    <3>3. Scale * UnclaimedRewards(u) \in Int
      BY <1>2, <2>2, <2>3
    <3> HIDE DEF w
    <3>4. w = Scale * UnclaimedRewards(u)
      BY <2>1, <3>1, <3>2, <3>3
    <3> QED BY <1>2, <2>3, <3>4 DEF w
  <2>4. CASE u \notin us
    <3>1. /\ stakerRewardsToClaim'[u] = stakerRewardsToClaim[u]
          /\ userIndex'[u] = userIndex[u] /\ balances'[u] = balances[u]
      BY <1>2, <2>4 DEF UpdateCurrentUnclaimedRewards
    <3> HIDE DEF w, a
    <3>2. w = balances[u] * (CurrentIndex - userIndex[u]) + Scale * stakerRewardsToClaim[u]
      BY <1>2, <2>1, <3>1
    <3>3. balances[u] * (CurrentIndex - userIndex[u])
            = balances[u] * (assetData.index - userIndex[u]) + balances[u] * a
      <4>1. balances[u] * (CurrentIndex - userIndex[u])
              = balances[u] * (assetData.index - userIndex[u])
                  + balances[u] * (CurrentIndex - assetData.index)
        BY <1>2, <2>2, SplitDifference
      <4> QED BY <4>1, <1>2
    <3>4. /\ balances[u] * (assetData.index - userIndex[u]) \in Int /\ balances[u] * a \in Int
          /\ Scale * stakerRewardsToClaim[u] \in Int
      BY <2>2
    <3>5. w = Weight(u) + balances[u] * a
      BY <3>2, <3>3, <3>4 DEF Weight
    <3>6. w \in Int
      BY <3>5, <3>4, WeightType
    <3> QED BY <3>5, <3>6 DEF w
  <2> QED BY <2>3, <2>4
<1>5. SumFunction(Weights') = SumFunction(Weights') + Scale * paid' - Scale * paid
  <2> DEFINE after == SumFunction(Weights')
  <2>1. after \in Int
    BY <1>3, SumIsInt, StakedTokenAssumption
  <2>2. Scale * paid \in Int /\ paid' = paid
    BY DistributionAssumption DEF ClockInv, TypeOK
  <2> HIDE DEF after
  <2>3. after = after + Scale * paid' - Scale * paid
    BY <2>1, <2>2
  <2> QED BY <2>3 DEF after
<1>6. \A u \in Users : Weights'[u] <= Weight(u) + balances[u] * Advance(totalSupply)
  BY <1>3, <1>4
<1>7. ~underquoted' => totalSupply <= totalSupply
  BY <1>1
<1> HIDE DEF a
<1> QED BY <1>1, <1>2, <1>3, <1>5, <1>6, <1>7, UpdateKeepsOwed

\* claimRewards settles one account and pays part of what it has.
LEMMA ClaimKeepsOwed ==
    ASSUME ClockInv, ClockInv', Backed, Owed,
           NEW sender \in Callers, NEW to \in Holders, NEW amount \in Nat,
           ClaimRewards(sender, to, amount)
    PROVE  Owed'
<1> DEFINE a == Advance(totalSupply)
           total == UnclaimedRewards(sender)
           out == IF amount = MAX_UINT THEN total ELSE amount
           h == [Weights' EXCEPT ![sender] = Weights'[sender] + Scale * out]
<1>1. /\ UpdateUsersAsset({sender}) /\ totalSupply \in Nat
      /\ stakerRewardsToClaim' = [stakerRewardsToClaim EXCEPT ![sender] = total - out]
      /\ paid' = paid + out
      /\ UNCHANGED <<now, balances, totalSupply, emitted, underquoted>>
      /\ sender \in Users
  BY DEF ClaimRewards, ClockInv, TypeOK, Callers
<1>2. /\ assetData'.index = CurrentIndex /\ assetData'.lastUpdateTimestamp = now
      /\ CurrentIndex \in Nat
      /\ CurrentIndex - assetData.index = a
      /\ userIndex'[sender] = CurrentIndex
      /\ total \in Nat
      /\ Scale * total <= Weight(sender) + balances[sender] * a
      /\ \A u \in Users \ {sender} : userIndex'[u] = userIndex[u]
  BY <1>1, SettledShares
<1>3. out \in Nat
  BY <1>2
<1>4. Weights' \in [Users -> Int] /\ \A u \in Users : Weights'[u] = Weight(u)'
  BY NextWeightType
<1>5. /\ h \in [Users -> Int] /\ h[sender] = Weights'[sender] + Scale * out
      /\ \A u \in Users \ {sender} : h[u] = Weights'[u]
  <2>1. Scale * out \in Int /\ Weights'[sender] \in Int
    BY <1>1, <1>3, <1>4, DistributionAssumption
  <2> HIDE DEF out
  <2> QED BY <1>1, <1>4, <2>1
<1> HIDE DEF h, total, out
<1>6. SumFunction(h) = SumFunction(Weights') + h[sender] - Weights'[sender]
  BY <1>1, <1>4, <1>5, SumUpdate, StakedTokenAssumption
<1>7. SumFunction(h) = SumFunction(Weights') + Scale * paid' - Scale * paid
  <2> DEFINE after == SumFunction(Weights')
  <2>1. after \in Int /\ Weights'[sender] \in Int
    BY <1>1, <1>4, SumIsInt, StakedTokenAssumption
  <2>2. Scale \in Nat /\ paid \in Nat
    BY DistributionAssumption DEF ClockInv, TypeOK
  <2>3. Scale * paid' = Scale * paid + Scale * out
        /\ Scale * paid \in Int /\ Scale * out \in Int
    BY <1>1, <1>3, <2>2
  <2> HIDE DEF after
  <2>4. SumFunction(h) = after + Scale * out
    BY <1>5, <1>6, <2>1, <2>3 DEF after
  <2>5. SumFunction(h) = after + Scale * paid' - Scale * paid
    BY <2>1, <2>3, <2>4
  <2> QED BY <2>5 DEF after
<1>8. ASSUME NEW u \in Users PROVE h[u] <= Weight(u) + balances[u] * a
  <2> DEFINE w == Weight(u)'
  <2>1. w = balances[u] * (CurrentIndex - userIndex'[u]) + Scale * stakerRewardsToClaim'[u]
    BY <1>1, <1>2 DEF Weight
  <2>2. balances[u] \in Nat /\ a \in Nat /\ Scale \in Nat
        /\ userIndex[u] \in Nat /\ assetData.index \in Nat /\ stakerRewardsToClaim[u] \in Nat
    BY <1>1, AdvanceType, DistributionAssumption DEF ClockInv, TypeOK, AssetData
  <2>3. h[u] = IF u = sender THEN w + Scale * out ELSE w
    BY <1>1, <1>4, <1>5
  <2> HIDE DEF w, a
  <2>4. CASE u = sender
    <3>1. stakerRewardsToClaim'[u] = total - out
      BY <1>1, <2>4 DEF ClockInv, TypeOK
    <3>2. w = Scale * (total - out)
      BY <1>2, <2>1, <2>2, <2>4, <3>1, <1>3
    <3>3. Scale * (total - out) + Scale * out = Scale * total
      BY <1>2, <1>3, <2>2
    <3> QED BY <1>2, <2>3, <2>4, <3>2, <3>3
  <2>5. CASE u # sender
    <3>1. stakerRewardsToClaim'[u] = stakerRewardsToClaim[u] /\ userIndex'[u] = userIndex[u]
      BY <1>1, <1>2, <2>5 DEF ClockInv, TypeOK
    <3>2. w = balances[u] * (CurrentIndex - userIndex[u]) + Scale * stakerRewardsToClaim[u]
      BY <2>1, <3>1
    <3>3. balances[u] * (CurrentIndex - userIndex[u])
            = balances[u] * (assetData.index - userIndex[u]) + balances[u] * a
      <4>1. balances[u] * (CurrentIndex - userIndex[u])
              = balances[u] * (assetData.index - userIndex[u])
                  + balances[u] * (CurrentIndex - assetData.index)
        BY <1>2, <2>2, SplitDifference
      <4> QED BY <4>1, <1>2
    <3>4. /\ balances[u] * (assetData.index - userIndex[u]) \in Int /\ balances[u] * a \in Int
          /\ Scale * stakerRewardsToClaim[u] \in Int
      BY <2>2
    <3>5. w = Weight(u) + balances[u] * a
      BY <3>2, <3>3, <3>4 DEF Weight
    <3>6. Weight(u) + balances[u] * a \in Int
      BY <3>4, WeightType
    <3> QED BY <2>3, <2>5, <3>5, <3>6
  <2> QED BY <2>4, <2>5
<1>9. \A u \in Users : h[u] <= Weight(u) + balances[u] * Advance(totalSupply)
  BY <1>8
<1>10. ~underquoted' => totalSupply <= totalSupply
  BY <1>1
<1> QED BY <1>1, <1>2, <1>5, <1>7, <1>9, <1>10, UpdateKeepsOwed

\* configureAssets moves the index by what it is told; while it is told no
\* less than the supply, that is covered by what was pending.
LEMMA ConfigureKeepsOwed ==
    ASSUME ClockInv, ClockInv', Backed, Owed,
           NEW emission \in Nat, NEW total \in Nat, ConfigureAssets(emission, total)
    PROVE  Owed'
<1> DEFINE a == Advance(total)
           i == GetAssetIndex(assetData, total, now)
<1>1. /\ UNCHANGED <<now, balances, totalSupply, userIndex, stakerRewardsToClaim, emitted, paid>>
      /\ totalSupply \in Nat /\ assetData \in AssetData /\ assetData.index \in Nat
  BY DEF ConfigureAssets, ClockInv, TypeOK, AssetData
<1>2. /\ ~underquoted' => ~underquoted
      /\ ~underquoted' => total = 0 \/ totalSupply <= total
  <2>1. ~underquoted' => ~underquoted /\ ~(0 < total /\ total < totalSupply)
    BY Zenon DEF ConfigureAssets
  <2> QED BY <1>1, <2>1
<1>3. assetData'.index = i /\ assetData'.lastUpdateTimestamp = now
  <2> DEFINE updated == UpdateAssetState(assetData, total, now)
  <2>1. /\ updated \in AssetData /\ updated.lastUpdateTimestamp = now
        /\ updated.index = i
    BY UpdateAssetStateType DEF ClockInv, TypeOK
  <2>2. assetData' = [updated EXCEPT !.emissionPerSecond = emission]
    BY DEF ConfigureAssets
  <2> HIDE DEF updated, i
  <2> QED BY <2>1, <2>2 DEF AssetData
<1>4. i \in Nat /\ i - assetData.index = a
  BY IndexGrows DEF Advance, AdvanceOf, ClockInv, TypeOK
<1>5. Weights' \in [Users -> Int] /\ \A u \in Users : Weights'[u] = Weight(u)'
  BY NextWeightType
<1> HIDE DEF i
<1>6. ASSUME NEW u \in Users PROVE Weights'[u] <= Weight(u) + balances[u] * a
  <2>1. Weights'[u] = balances[u] * (i - userIndex[u]) + Scale * stakerRewardsToClaim[u]
    BY <1>1, <1>3, <1>5 DEF Weight
  <2>2. balances[u] \in Nat /\ a \in Nat /\ Scale \in Nat
        /\ userIndex[u] \in Nat /\ assetData.index \in Nat /\ stakerRewardsToClaim[u] \in Nat
    BY AdvanceType, DistributionAssumption DEF ClockInv, TypeOK, AssetData
  <2>3. balances[u] * (i - userIndex[u])
          = balances[u] * (assetData.index - userIndex[u]) + balances[u] * a
    <3>1. balances[u] * (i - userIndex[u])
            = balances[u] * (assetData.index - userIndex[u])
                + balances[u] * (i - assetData.index)
      BY <1>4, <2>2, SplitDifference
    <3> QED BY <3>1, <1>4
  <2>4. /\ balances[u] * (assetData.index - userIndex[u]) \in Int /\ balances[u] * a \in Int
        /\ Scale * stakerRewardsToClaim[u] \in Int
    BY <2>2
  <2>5. Weights'[u] = Weight(u) + balances[u] * a
    BY <2>1, <2>3, <2>4 DEF Weight
  <2>6. Weights'[u] \in Int
    BY <1>5
  <2> QED BY <2>5, <2>6
<1>7. SumFunction(Weights') = SumFunction(Weights') + Scale * paid' - Scale * paid
  <2> DEFINE after == SumFunction(Weights')
  <2>1. after \in Int
    BY <1>5, SumIsInt, StakedTokenAssumption
  <2>2. Scale * paid \in Int /\ paid' = paid
    BY <1>1, DistributionAssumption DEF ClockInv, TypeOK
  <2> HIDE DEF after
  <2>3. after = after + Scale * paid' - Scale * paid
    BY <2>1, <2>2
  <2> QED BY <2>3 DEF after
<1>8. \A u \in Users : Weights'[u] <= Weight(u) + balances[u] * Advance(total)
  BY <1>6
<1> QED BY <1>1, <1>2, <1>3, <1>5, <1>7, <1>8, UpdateKeepsOwed

\* A second of time makes no more pending than it emits.
LEMMA TickKeepsOwed ==
    ASSUME ClockInv, Owed, Tick
    PROVE  Owed'
<1> SUFFICES ASSUME ~underquoted'
             PROVE  SumFunction(Weights') + Scale * paid' + Scale * Pending' <= Scale * emitted'
  BY DEF Owed
<1> DEFINE e == assetData.emissionPerSecond
           l == assetData.lastUpdateTimestamp
           sum == SumFunction(Weights)
<1>1. /\ UNCHANGED <<balances, totalSupply, assetData, userIndex, stakerRewardsToClaim,
                     paid, underquoted>>
      /\ now' = now + 1
      /\ emitted' = IF totalSupply > 0 /\ now < DISTRIBUTION_END THEN emitted + e ELSE emitted
  BY DEF Tick
<1>2. /\ e \in Nat /\ l \in Nat /\ now \in Nat /\ l <= now /\ totalSupply \in Nat
      /\ paid \in Nat /\ emitted \in Nat /\ Scale \in Nat /\ DISTRIBUTION_END \in Nat
  BY DistributionAssumption DEF ClockInv, TypeOK, AssetData
<1>3. Weights' = Weights
  BY <1>1 DEF Weights, Weight
<1>4. sum + Scale * paid + Scale * Pending <= Scale * emitted
  BY <1>1 DEF Owed
<1> DEFINE next == Pending'
<1>5. /\ next <= Pending + (IF totalSupply > 0 /\ now < DISTRIBUTION_END THEN e ELSE 0)
      /\ Pending \in Nat /\ next \in Nat
  <2>1. /\ next = PendingOf(assetData, totalSupply, now + 1)
        /\ assetData \in AssetData
    BY <1>1 DEF Pending, ClockInv, TypeOK
  <2>2. l <= now + 1 /\ now + 1 \in Nat
    BY <1>2
  <2> HIDE DEF next
  <2> QED BY <1>2, <2>1, <2>2, PendingType, PendingOfType, PendingOfNextSecond DEF Pending
<1> HIDE DEF e, l, next
<1>6. emitted' \in Nat /\ next + emitted <= Pending + emitted'
  BY <1>1, <1>2, <1>5
<1>7. Scale * next + Scale * emitted <= Scale * Pending + Scale * emitted'
  BY <1>2, <1>5, <1>6, ScaledOrder
<1>8. /\ Scale * next \in Int /\ Scale * emitted \in Int
      /\ Scale * Pending \in Int /\ Scale * emitted' \in Int /\ Scale * paid \in Int
  BY <1>2, <1>5, <1>6
<1>9. sum \in Int
  BY WeightType, SumIsInt, StakedTokenAssumption
<1> HIDE DEF sum
<1>10. sum + Scale * paid + Scale * next <= Scale * emitted'
  BY <1>4, <1>7, <1>8, <1>9
<1> QED BY <1>1, <1>3, <1>10 DEF sum, next

----------------------------------------------------------------------------
(* The invariant and the theorem. *)

LEMMA InitOwed == Init => Owed
<1> SUFFICES ASSUME Init PROVE SumFunction(Weights) + Scale * paid + Scale * Pending
                                  <= Scale * emitted
  BY DEF Owed
<1>1. ASSUME NEW u \in Users PROVE Weight(u) = 0
  <2>1. /\ balances[u] = 0 /\ assetData.index = 0 /\ userIndex[u] = 0
        /\ stakerRewardsToClaim[u] = 0 /\ Scale \in Nat
    BY DistributionAssumption DEF Init
  <2> QED BY <2>1 DEF Weight
<1>2. Weights \in [Users -> Int] /\ \A u \in Users : Weights[u] = 0
  BY <1>1 DEF Weights
<1>3. SumFunction(Weights) = 0
  BY <1>2, SumZero, StakedTokenAssumption
<1>4. paid = 0 /\ emitted = 0 /\ Pending = 0 /\ Scale \in Nat
  BY DistributionAssumption DEF Init, Pending, PendingOf
<1> QED BY <1>3, <1>4

LEMMA NextOwed == ClockInv /\ ClockInv' /\ Backed /\ Owed /\ [Next]_vars => Owed'
<1> SUFFICES ASSUME ClockInv, ClockInv', Backed, Owed, [Next]_vars PROVE Owed'
  OBVIOUS
<1> USE StakedTokenAssumption, ConstantsType
<1>1. ASSUME NEW sender \in Callers, NEW u \in Users, NEW amount \in Amounts,
             Stake(sender, u, amount)
      PROVE  Owed'
  <2>1. /\ UpdateCurrentUnclaimedRewards({u})
        /\ UNCHANGED <<now, emitted, paid, underquoted>>
        /\ \A v \in Users \ {u} : balances'[v] = balances[v]
    BY <1>1 DEF Stake, Mint, historyVars, ClockInv, TypeOK
  <2> QED BY <2>1, StoredKeepsOwed
<1>2. ASSUME NEW sender \in Callers, NEW to \in Recipients, NEW amount \in Amounts,
             Redeem(sender, to, amount)
      PROVE  Owed'
  <2>1. /\ UpdateCurrentUnclaimedRewards({sender})
        /\ UNCHANGED <<now, emitted, paid, underquoted>>
        /\ \A v \in Users \ {sender} : balances'[v] = balances[v]
    BY <1>2 DEF Redeem, Burn, historyVars, ClockInv, TypeOK
  <2> QED BY <2>1, StoredKeepsOwed
<1>3. ASSUME NEW sender \in Callers, Cooldown(sender)
      PROVE  Owed'
  BY <1>3 DEF Cooldown, Owed, Weights, Weight, Pending
<1>4. ASSUME NEW sender \in Callers, NEW to \in Recipients,
             NEW amount \in Amounts \cup {0, MAX_UINT}, ClaimRewards(sender, to, amount)
      PROVE  Owed'
  BY <1>4, ClaimKeepsOwed
<1>5. ASSUME NEW from \in Callers, NEW to \in Users, NEW amount \in Amounts \cup {0},
             Transfer(from, to, amount)
      PROVE  Owed'
  <2>1. /\ UpdateCurrentUnclaimedRewards({from, to})
        /\ UNCHANGED <<now, emitted, paid, underquoted>>
        /\ \A v \in Users \ {from, to} : balances'[v] = balances[v]
    BY <1>5 DEF Transfer, MoveBalance, SettledByTransfer, historyVars, ClockInv, TypeOK
  <2>2. {from, to} \in SUBSET Users
    OBVIOUS
  <2> QED BY <2>1, <2>2, StoredKeepsOwed
<1>6. ASSUME NEW emission \in Emissions, NEW total \in Quotes, ConfigureAssets(emission, total)
      PROVE  Owed'
  BY <1>6, ConfigureKeepsOwed
<1>7. CASE Tick
  BY <1>7, TickKeepsOwed
<1>8. CASE UNCHANGED vars
  BY <1>8 DEF vars, ledgerVars, historyVars, Owed, Weights, Weight, Pending
<1> QED BY <1>1, <1>2, <1>3, <1>4, <1>5, <1>6, <1>7, <1>8 DEF Next

\* Undo the factor Scale and the rounding.
LEMMA OwedImpliesSolvent == ClockInv /\ Backed /\ Owed => Solvent
<1> SUFFICES ASSUME ClockInv, Backed, Owed, ~underquoted
             PROVE  SumFunction([u \in Users |-> TotalRewards(u)]) + paid <= emitted
  BY DEF Solvent
<1> DEFINE rewards == [u \in Users |-> TotalRewards(u)]
           h == [u \in Users |-> Scale * rewards[u]]
           a == Advance(totalSupply)
<1>1. /\ totalSupply \in Nat /\ paid \in Nat /\ emitted \in Nat /\ Scale \in Nat \ {0}
  BY DistributionAssumption DEF ClockInv, TypeOK
<1>2. CurrentIndex \in Nat /\ CurrentIndex - assetData.index = a
  BY IndexGrows DEF CurrentIndex, Advance, AdvanceOf, ClockInv, TypeOK
<1>3. ASSUME NEW u \in Users
      PROVE  /\ TotalRewards(u) \in Int
             /\ Scale * TotalRewards(u) <= Weight(u) + balances[u] * a
  <2>1. /\ GetRewards(balances[u], CurrentIndex, userIndex[u]) \in Int
        /\ Scale * (stakerRewardsToClaim[u]
                      + GetRewards(balances[u], CurrentIndex, userIndex[u]))
             <= Weight(u) + balances[u] * a
    BY <1>2, AccruedIsRounded
  <2>2. stakerRewardsToClaim[u] \in Nat
    BY DEF ClockInv, TypeOK
  <2> QED BY <2>1, <2>2 DEF TotalRewards
<1>4. rewards \in [Users -> Int] /\ \A u \in Users : rewards[u] = TotalRewards(u)
  BY <1>3
<1> HIDE DEF rewards
<1>5. h \in [Users -> Int] /\ \A u \in Users : h[u] = Scale * rewards[u]
  BY <1>1, <1>4
<1>6. \A u \in Users : h[u] <= Weight(u) + balances[u] * a
  BY <1>3, <1>4, <1>5
<1> HIDE DEF h
<1>7. a \in Nat
  BY <1>1, AdvanceType
<1>8. SumFunction(h) <= SumFunction(Weights) + a * totalSupply
  BY <1>5, <1>6, <1>7, SharesSum
<1>9. a * totalSupply <= Scale * Pending
  BY <1>1, AdvanceIsPending
<1>10. SumFunction(Weights) + Scale * paid + Scale * Pending <= Scale * emitted
  BY DEF Owed
<1>11. SumFunction(h) = Scale * SumFunction(rewards)
  BY <1>1, <1>4, <1>5, SumFactor, StakedTokenAssumption
<1> DEFINE sum == SumFunction(rewards)
           weights == SumFunction(Weights)
           moved == a * totalSupply
<1>12. sum \in Int /\ weights \in Int /\ moved \in Int
  BY <1>1, <1>4, <1>7, WeightType, SumIsInt, StakedTokenAssumption
<1>13. Pending \in Nat
  BY PendingType
<1> HIDE DEF sum, weights, moved, a
<1>14. /\ Scale * sum <= weights + moved /\ moved <= Scale * Pending
       /\ weights + Scale * paid + Scale * Pending <= Scale * emitted
  BY <1>8, <1>9, <1>10, <1>11 DEF sum, weights, moved
<1>15. /\ Scale * sum \in Int /\ Scale * paid \in Int /\ Scale * Pending \in Int
       /\ Scale * emitted \in Int
       /\ Scale * (sum + paid) = Scale * sum + Scale * paid
  BY <1>1, <1>12, <1>13
<1>16. Scale * (sum + paid) <= Scale * emitted
  BY <1>12, <1>14, <1>15
<1>17. sum + paid <= emitted
  BY <1>1, <1>12, <1>16
<1> QED BY <1>17 DEF sum, rewards

THEOREM OwedInvariant == Spec => []Owed
  BY InitOwed, NextOwed, ClockInvariant, PrincipalBacked, PTL DEF Spec

\* What accounts can claim and what was paid never exceed what was emitted.
THEOREM RewardsSolvent == Spec => []Solvent
  BY OwedInvariant, OwedImpliesSolvent, ClockInvariant, PrincipalBacked, PTL

----------------------------------------------------------------------------
(* Rewards only move by a claim. *)

\* Once the index has been updated, it stays for the rest of the second.
LEMMA UpdatedIndexStays ==
    ASSUME ClockInv, ClockInv', now' = now,
           assetData'.lastUpdateTimestamp = now, assetData'.index = CurrentIndex
    PROVE  CurrentIndex' = CurrentIndex
<1>1. assetData' \in AssetData /\ totalSupply' \in Nat
  BY DEF ClockInv, TypeOK
<1>2. GetAssetIndex(assetData', totalSupply', assetData'.lastUpdateTimestamp) = assetData'.index
  BY <1>1, IndexOfUpdated
<1>3. CurrentIndex' = GetAssetIndex(assetData', totalSupply', now')
  BY DEF CurrentIndex
<1> QED BY <1>2, <1>3

LEMMA TotalRewardsType ==
    ASSUME ClockInv, NEW u \in Users
    PROVE  /\ TotalRewards(u) \in Int /\ UnclaimedRewards(u) = TotalRewards(u)
           /\ GetRewards(balances[u], CurrentIndex, userIndex[u]) \in Int
<1>1. /\ balances[u] \in Nat /\ userIndex[u] \in Nat /\ stakerRewardsToClaim[u] \in Nat
      /\ assetData \in AssetData /\ totalSupply \in Nat /\ now \in Nat
      /\ assetData.lastUpdateTimestamp <= now
  BY DEF ClockInv, TypeOK
<1>2. CurrentIndex \in Nat
  BY <1>1, IndexGrows DEF CurrentIndex
<1>3. GetRewards(balances[u], CurrentIndex, userIndex[u]) \in Int
  BY <1>1, <1>2, RewardsRounded
<1>4. AccruedRewards(u) = GetRewards(balances[u], CurrentIndex, userIndex[u])
  BY <1>1, <1>2, NoRewards DEF AccruedRewards
<1> QED BY <1>1, <1>3, <1>4 DEF TotalRewards, UnclaimedRewards

LEMMA NextTotalRewardsIs ==
    ASSUME NEW u \in Users
    PROVE  TotalRewards(u)' =
             stakerRewardsToClaim'[u] + GetRewards(balances'[u], CurrentIndex', userIndex'[u])
  BY DEF TotalRewards

\* Settling writes to an account what it could claim anyway.
LEMMA SettledTotals ==
    ASSUME ClockInv, ClockInv', NEW us \in SUBSET Users, UpdateUsersAsset(us), now' = now,
           \A u \in Users \ us : balances'[u] = balances[u]
                                 /\ stakerRewardsToClaim'[u] = stakerRewardsToClaim[u]
    PROVE  /\ \A u \in us : TotalRewards(u)' = stakerRewardsToClaim'[u]
           /\ \A u \in Users \ us : TotalRewards(u)' = TotalRewards(u)
<1>1. /\ assetData'.index = CurrentIndex /\ assetData'.lastUpdateTimestamp = now
      /\ CurrentIndex \in Nat
      /\ \A u \in us : userIndex'[u] = CurrentIndex
      /\ \A u \in Users \ us : userIndex'[u] = userIndex[u]
  BY SettledShares
<1>2. CurrentIndex' = CurrentIndex
  BY <1>1, UpdatedIndexStays
<1>3. ASSUME NEW u \in us PROVE TotalRewards(u)' = stakerRewardsToClaim'[u]
  <2>1. balances'[u] \in Nat /\ stakerRewardsToClaim'[u] \in Nat
    BY DEF ClockInv, TypeOK
  <2>2. GetRewards(balances'[u], CurrentIndex', userIndex'[u]) = 0
    BY <1>1, <1>2, <2>1, NoRewards
  <2> QED BY <2>1, <2>2, NextTotalRewardsIs
<1>4. ASSUME NEW u \in Users \ us PROVE TotalRewards(u)' = TotalRewards(u)
  BY <1>1, <1>2, NextTotalRewardsIs DEF TotalRewards
<1> QED BY <1>3, <1>4

LEMMA StoredTotals ==
    ASSUME ClockInv, ClockInv', NEW us \in SUBSET Users, UpdateCurrentUnclaimedRewards(us),
           now' = now, \A u \in Users \ us : balances'[u] = balances[u]
    PROVE  \A u \in Users : TotalRewards(u)' = TotalRewards(u)
<1>1. /\ UpdateUsersAsset(us)
      /\ \A u \in us : stakerRewardsToClaim'[u] = UnclaimedRewards(u)
      /\ \A u \in Users \ us : stakerRewardsToClaim'[u] = stakerRewardsToClaim[u]
  BY DEF UpdateCurrentUnclaimedRewards
<1> QED BY <1>1, SettledTotals, TotalRewardsType

LEMMA ClaimTotals ==
    ASSUME ClockInv, ClockInv', NEW sender \in Callers, NEW to, NEW amount \in Nat,
           ClaimRewards(sender, to, amount)
    PROVE  \A u \in Users :
              TotalRewards(u)' = TotalRewards(u) - (IF u = sender THEN paid' - paid ELSE 0)
<1> DEFINE out == IF amount = MAX_UINT THEN UnclaimedRewards(sender) ELSE amount
<1>1. /\ UpdateUsersAsset({sender}) /\ UNCHANGED <<now, balances>> /\ paid' = paid + out
      /\ stakerRewardsToClaim' =
             [stakerRewardsToClaim EXCEPT ![sender] = UnclaimedRewards(sender) - out]
  BY DEF ClaimRewards
<1>2. /\ sender \in Users /\ stakerRewardsToClaim \in [Users -> Nat] /\ paid \in Nat
      /\ UnclaimedRewards(sender) \in Int /\ UnclaimedRewards(sender) = TotalRewards(sender)
  BY ConstantsType, TotalRewardsType DEF ClockInv, TypeOK
<1>3. out \in Int
  BY <1>2
<1> HIDE DEF out
<1>4. /\ stakerRewardsToClaim'[sender] = UnclaimedRewards(sender) - out
      /\ \A u \in Users \ {sender} : stakerRewardsToClaim'[u] = stakerRewardsToClaim[u]
  BY <1>1, <1>2
<1>5. /\ TotalRewards(sender)' = stakerRewardsToClaim'[sender]
      /\ \A u \in Users \ {sender} : TotalRewards(u)' = TotalRewards(u)
  BY <1>1, <1>2, <1>4, SettledTotals
<1>6. TotalRewards(sender)' = TotalRewards(sender) - (paid' - paid)
  BY <1>1, <1>2, <1>3, <1>4, <1>5
<1>7. ASSUME NEW u \in Users \ {sender} PROVE TotalRewards(u)' = TotalRewards(u) - 0
  BY <1>5, TotalRewardsType
<1> QED BY <1>6, <1>7

\* An update of the index that is told the supply changes no total.
LEMMA ConfigureTotals ==
    ASSUME ClockInv, ClockInv', NEW emission \in Nat, ConfigureAssets(emission, totalSupply)
    PROVE  \A u \in Users : TotalRewards(u)' = TotalRewards(u)
<1> DEFINE updated == UpdateAssetState(assetData, totalSupply, now)
<1>1. /\ assetData \in AssetData /\ totalSupply \in Nat /\ now \in Nat
      /\ assetData.lastUpdateTimestamp <= now
  BY DEF ClockInv, TypeOK
<1>2. /\ updated \in AssetData /\ updated.lastUpdateTimestamp = now
      /\ updated.index = CurrentIndex
  BY <1>1, UpdateAssetStateType DEF CurrentIndex
<1>3. /\ assetData' = [updated EXCEPT !.emissionPerSecond = emission]
      /\ UNCHANGED <<now, balances, userIndex, stakerRewardsToClaim>>
  BY DEF ConfigureAssets
<1> HIDE DEF updated
<1>4. assetData'.lastUpdateTimestamp = now /\ assetData'.index = CurrentIndex
  BY <1>2, <1>3 DEF AssetData
<1>5. CurrentIndex' = CurrentIndex
  BY <1>3, <1>4, UpdatedIndexStays
<1> QED BY <1>3, <1>5, NextTotalRewardsIs DEF TotalRewards

\* Time lowers nobody's total: the index of the next second is not smaller.
LEMMA TickTotals ==
    ASSUME ClockInv, Tick
    PROVE  \A u \in Users : TotalRewards(u)' >= TotalRewards(u)
<1>1. /\ assetData \in AssetData /\ totalSupply \in Nat /\ now \in Nat
      /\ assetData.lastUpdateTimestamp <= now
      /\ now' = now + 1
      /\ UNCHANGED <<balances, totalSupply, assetData, userIndex, stakerRewardsToClaim>>
  BY DEF Tick, ClockInv, TypeOK
<1>2. CurrentIndex' = GetAssetIndex(assetData, totalSupply, now + 1)
  BY <1>1 DEF CurrentIndex
<1> DEFINE next == GetAssetIndex(assetData, totalSupply, now + 1)
<1>3. /\ CurrentIndex \in Nat /\ next \in Nat /\ CurrentIndex <= next
  <2>1. /\ now + 1 \in Nat /\ assetData.lastUpdateTimestamp <= now + 1
    BY <1>1 DEF AssetData
  <2>2. next \in Nat
    BY <1>1, <2>1, IndexGrows
  <2>3. CurrentIndex \in Nat
    BY <1>1, IndexGrows DEF CurrentIndex
  <2>4. CurrentIndex <= next
    BY <1>1, IndexGrowsInTime DEF CurrentIndex
  <2> QED BY <2>2, <2>3, <2>4
<1> HIDE DEF next
<1>4. ASSUME NEW u \in Users PROVE TotalRewards(u)' >= TotalRewards(u)
  <2> DEFINE b == balances[u]
             j == userIndex[u]
             r == stakerRewardsToClaim[u]
  <2>1. b \in Nat /\ j \in Nat /\ r \in Nat
    BY DEF ClockInv, TypeOK
  <2>2. TotalRewards(u)' = r + GetRewards(b, next, j)
        /\ TotalRewards(u) = r + GetRewards(b, CurrentIndex, j)
    BY <1>1, <1>2, NextTotalRewardsIs DEF TotalRewards, next
  <2> HIDE DEF b, j, r
  <2>3. /\ GetRewards(b, CurrentIndex, j) \in Int /\ GetRewards(b, next, j) \in Int
        /\ GetRewards(b, CurrentIndex, j) <= GetRewards(b, next, j)
    BY <1>3, <2>1, RewardsGrow, RewardsRounded
  <2> QED BY <2>1, <2>2, <2>3
<1> QED BY <1>4

\* A transaction that pays nothing and leaves every total is none's claim.
LEMMA TotalsKept ==
    ASSUME ClockInv, now' = now, paid' = paid, \A u \in Users : TotalRewards(u)' = TotalRewards(u)
    PROVE  \E payee \in Users : \A u \in Users :
              TotalRewards(u)' = TotalRewards(u) - (IF u = payee THEN paid' - paid ELSE 0)
<1>1. PICK payee \in Users : TRUE
  BY StakedTokenAssumption
<1>2. paid \in Nat
  BY DEF ClockInv, TypeOK
<1>3. ASSUME NEW u \in Users
      PROVE  TotalRewards(u)' = TotalRewards(u) - (IF u = payee THEN paid' - paid ELSE 0)
  BY <1>2, TotalRewardsType
<1> QED BY <1>3

\* Within a second nobody's rewards change but by the claim of one account, by
\* what the vault paid it, and the passing of time lowers nobody's.
THEOREM OnlyClaimsMoveRewards == Spec => RewardsOnlyMoveByClaim
<1> DEFINE ByClaim == IF now' = now
                      THEN \E payee \in Users : \A u \in Users :
                              TotalRewards(u)' =
                                  TotalRewards(u) - (IF u = payee THEN paid' - paid ELSE 0)
                      ELSE \A u \in Users : TotalRewards(u)' >= TotalRewards(u)
<1>1. ClockInv /\ [Next]_vars => [~Misquote => ByClaim]_vars
  <2> SUFFICES ASSUME ClockInv, Next, ~Misquote PROVE ByClaim
    OBVIOUS
  <2> USE ConstantsType, StakedTokenAssumption
  <2>1. ClockInv'
    BY NextClockInv
  <2>2. now \in Nat /\ balances \in [Users -> Nat]
    BY DEF ClockInv, TypeOK
  <2>3. ASSUME NEW us \in SUBSET Users, UpdateCurrentUnclaimedRewards(us),
               \A u \in Users \ us : balances'[u] = balances[u], UNCHANGED <<now, paid>>
        PROVE  ByClaim
    <3>1. \A u \in Users : TotalRewards(u)' = TotalRewards(u)
      BY <2>1, <2>3, StoredTotals
    <3> QED BY <2>3, <3>1, TotalsKept
  <2>4. ASSUME NEW sender \in Callers, NEW u \in Users, NEW amount \in Amounts,
               Stake(sender, u, amount)
        PROVE  ByClaim
    <3>1. /\ balances' = [balances EXCEPT ![u] = @ + amount] /\ UNCHANGED <<now, paid>>
          /\ UpdateCurrentUnclaimedRewards({u})
      BY <2>4 DEF Stake, Mint, historyVars
    <3> QED BY <2>2, <2>3, <3>1
  <2>5. ASSUME NEW sender \in Callers, NEW to \in Recipients, NEW amount \in Amounts,
               Redeem(sender, to, amount)
        PROVE  ByClaim
    <3>1. /\ balances' = [balances EXCEPT ![sender] = @ - AmountToRedeem(sender, amount)]
          /\ UNCHANGED <<now, paid>> /\ UpdateCurrentUnclaimedRewards({sender})
      BY <2>5 DEF Redeem, Burn, historyVars
    <3> QED BY <2>2, <2>3, <3>1
  <2>6. ASSUME NEW sender \in Callers, Cooldown(sender) PROVE ByClaim
    <3>1. UNCHANGED <<now, paid, balances, totalSupply, assetData, userIndex,
                      stakerRewardsToClaim>>
      BY <2>6 DEF Cooldown
    <3>2. \A u \in Users : TotalRewards(u)' = TotalRewards(u)
      BY <3>1 DEF TotalRewards, CurrentIndex
    <3> QED BY <3>1, <3>2, TotalsKept
  <2>7. ASSUME NEW sender \in Callers, NEW to \in Recipients,
               NEW amount \in Amounts \cup {0, MAX_UINT}, ClaimRewards(sender, to, amount)
        PROVE  ByClaim
    <3>1. now' = now
      BY <2>7 DEF ClaimRewards
    <3>2. \A u \in Users :
             TotalRewards(u)' = TotalRewards(u) - (IF u = sender THEN paid' - paid ELSE 0)
      BY <2>1, <2>7, ClaimTotals
    <3> QED BY <3>1, <3>2
  <2>8. ASSUME NEW from \in Callers, NEW to \in Users, NEW amount \in Amounts \cup {0},
               Transfer(from, to, amount)
        PROVE  ByClaim
    <3>1. /\ balances' = [balances EXCEPT ![from] = @ - amount, ![to] = @ + amount]
          /\ UNCHANGED <<now, paid>> /\ UpdateCurrentUnclaimedRewards({from, to})
      BY <2>8 DEF Transfer, MoveBalance, SettledByTransfer, historyVars
    <3>2. {from, to} \in SUBSET Users /\ \A v \in Users \ {from, to} : balances'[v] = balances[v]
      BY <2>2, <3>1
    <3> QED BY <2>3, <3>1, <3>2
  <2>9. ASSUME NEW emission \in Emissions, NEW total \in Quotes, ConfigureAssets(emission, total)
        PROVE  ByClaim
    <3>1. total = totalSupply
      BY <2>9 DEF Misquote
    <3>2. UNCHANGED <<now, paid>>
      BY <2>9 DEF ConfigureAssets
    <3>3. \A u \in Users : TotalRewards(u)' = TotalRewards(u)
      BY <2>1, <2>9, <3>1, ConfigureTotals
    <3> QED BY <3>2, <3>3, TotalsKept
  <2>10. CASE Tick
    <3>1. now' # now
      BY <2>2, <2>10 DEF Tick
    <3> QED BY <2>10, <3>1, TickTotals
  <2> QED BY <2>4, <2>5, <2>6, <2>7, <2>8, <2>9, <2>10 DEF Next
<1> QED BY <1>1, ClockInvariant, PTL DEF Spec, RewardsOnlyMoveByClaim

=============================================================================
