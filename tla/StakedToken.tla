----------------------------- MODULE StakedToken -----------------------------
(***************************************************************************)
(* The staking core shared by StakedToken, StakedTokenV2, StakedTokenV3,   *)
(* StakedTokenV2Rev3 and StakedTokenBptV2Rev2: stake, redeem, cooldown,    *)
(* claimRewards, the overridden _transfer and configureAssets, over one    *)
(* distribution whose key is the contract itself.                          *)
(*                                                                         *)
(* An action is one successful transaction.  A transaction that reverts    *)
(* leaves no trace, so a failed require, a SafeMath underflow or a failing *)
(* token transfer is a guard that is false.  Every transaction between two *)
(* Ticks carries the same block.timestamp.                                 *)
(***************************************************************************)
EXTENDS DistributionManager, FiniteSets, Functions

CONSTANTS
    Users,             \* accounts that may hold the staked token
    SELF,              \* address(this)
    REWARDS_VAULT,
    STAKED_TOKEN,
    REWARD_TOKEN,      \* the same token as STAKED_TOKEN for stkAAVE
    COOLDOWN_SECONDS,
    UNSTAKE_WINDOW,
    MAX_UINT,          \* type(uint256).max, "everything" to claimRewards
    GENESIS            \* block.timestamp of the deployment

CONSTANTS              \* bounds of the instances
    Amounts,           \* amounts a transaction may carry
    Recipients,        \* holders that redeem and claimRewards pay
    Emissions,         \* emissionPerSecond values the manager configures
    Quotes,            \* totalStaked values the manager quotes
    UserFunds,         \* tokens of each kind a user starts with
    VaultFunds,        \* reward tokens in the vault at the start
    MAX_TIME           \* last block.timestamp

VARIABLES
    now,                   \* block.timestamp
    funds,                 \* balances of the two underlying ERC20 tokens
    balances,              \* ERC20._balances of the staked token
    totalSupply,           \* ERC20._totalSupply of the staked token
    assetData,             \* assets[address(this)]
    userIndex,             \* assets[address(this)].users
    stakerRewardsToClaim,
    stakersCooldowns

\* History variables: no transaction reads them.
VARIABLES
    emitted,      \* rewards owed to stakers, one emissionPerSecond a second
    paid,         \* rewards paid by claimRewards
    activatedAt,  \* second of the last cooldown() of each user, or 0
    underquoted   \* configureAssets was once told less than the supply

ledgerVars == <<now, funds, balances, totalSupply, assetData, userIndex,
                stakerRewardsToClaim, stakersCooldowns>>
historyVars == <<emitted, paid, activatedAt, underquoted>>
vars == <<ledgerVars, historyVars>>

Tokens == {STAKED_TOKEN, REWARD_TOKEN}
Holders == Users \cup {SELF, REWARDS_VAULT}
\* The accounts that send transactions.
Callers == Users \ {SELF, REWARDS_VAULT}

\* GENESIS stands for a Unix time: a cooldown of 0 is long expired and the
\* subtraction now - COOLDOWN_SECONDS - UNSTAKE_WINDOW never underflows.
ASSUME StakedTokenAssumption ==
    /\ IsFiniteSet(Users) /\ Users # {}
    /\ SELF # REWARDS_VAULT
    /\ COOLDOWN_SECONDS \in Nat
    /\ UNSTAKE_WINDOW \in Nat
    /\ MAX_UINT \in Nat
    /\ GENESIS \in Nat
    /\ GENESIS > COOLDOWN_SECONDS + UNSTAKE_WINDOW
    /\ Amounts \subseteq Nat
    /\ Recipients \subseteq Holders
    /\ Emissions \subseteq Nat
    /\ Quotes \subseteq Nat
    /\ UserFunds \in Nat
    /\ VaultFunds \in Nat
    /\ MAX_TIME \in Nat

Init ==
    /\ now = GENESIS
    /\ funds = [k \in Tokens |-> [h \in Holders |->
                  CASE h = REWARDS_VAULT -> IF k = REWARD_TOKEN THEN VaultFunds ELSE 0
                    [] h = SELF -> 0
                    [] OTHER -> UserFunds]]
    /\ balances = [u \in Users |-> 0]
    /\ totalSupply = 0
    /\ assetData = [emissionPerSecond |-> 0, lastUpdateTimestamp |-> 0, index |-> 0]
    /\ userIndex = [u \in Users |-> 0]
    /\ stakerRewardsToClaim = [u \in Users |-> 0]
    /\ stakersCooldowns = [u \in Users |-> 0]
    /\ emitted = 0
    /\ paid = 0
    /\ activatedAt = [u \in Users |-> 0]
    /\ underquoted = FALSE

----------------------------------------------------------------------------
(* The underlying tokens and the ERC20 bookkeeping. *)

\* safeTransfer and safeTransferFrom of an underlying token; the vault and
\* the users have approved the contract.
MoveFunds(token, from, to, amount) ==
    /\ funds[token][from] >= amount
    /\ funds' = [funds EXCEPT ![token] =
                    [funds[token] EXCEPT ![from] = @ - amount, ![to] = @ + amount]]

Mint(account, amount) ==
    /\ totalSupply' = totalSupply + amount
    /\ balances' = [balances EXCEPT ![account] = @ + amount]

\* Fault: the supply does not follow the balance.
BurnBalanceOnly(account, amount) ==
    /\ balances[account] >= amount
    /\ balances' = [balances EXCEPT ![account] = @ - amount]
    /\ UNCHANGED totalSupply

Burn(account, amount) ==
    /\ balances[account] >= amount
    /\ totalSupply >= amount
    /\ balances' = [balances EXCEPT ![account] = @ - amount]
    /\ totalSupply' = totalSupply - amount

\* Fault: an unchecked subtraction.
MoveBalanceUnchecked(from, to, amount) ==
    /\ balances' = [balances EXCEPT ![from] = @ - amount, ![to] = @ + amount]
    /\ UNCHANGED totalSupply

MoveBalance(from, to, amount) ==
    /\ balances[from] >= amount
    /\ balances' = [balances EXCEPT ![from] = @ - amount, ![to] = @ + amount]
    /\ UNCHANGED totalSupply

----------------------------------------------------------------------------
(* Rewards. *)

CurrentIndex == GetAssetIndex(assetData, totalSupply, now)

\* The rewards _updateUserAssetInternal returns for u.
AccruedRewards(u) ==
    IF balances[u] # 0 THEN GetRewards(balances[u], CurrentIndex, userIndex[u]) ELSE 0

UnclaimedRewards(u) == stakerRewardsToClaim[u] + AccruedRewards(u)

\* getTotalRewardsBalance.
TotalRewards(u) ==
    stakerRewardsToClaim[u] + GetRewards(balances[u], CurrentIndex, userIndex[u])

\* _updateUserAssetInternal for every account of us: all of them read the
\* balances and the supply from before the transaction moves tokens.  The
\* subtraction of the indexes reverts below zero.
UpdateUsersAsset(us) ==
    /\ \A u \in us : balances[u] # 0 => userIndex[u] <= CurrentIndex
    /\ assetData' = UpdateAssetState(assetData, totalSupply, now)
    /\ userIndex' = [u \in Users |-> IF u \in us THEN CurrentIndex ELSE userIndex[u]]

\* _updateCurrentUnclaimedRewards(u, balance of u, true) for u in us.
UpdateCurrentUnclaimedRewards(us) ==
    /\ UpdateUsersAsset(us)
    /\ stakerRewardsToClaim' =
           [u \in Users |-> IF u \in us THEN UnclaimedRewards(u)
                                        ELSE stakerRewardsToClaim[u]]

----------------------------------------------------------------------------
(* Cooldowns. *)

MinimalValidCooldownTimestamp == now - COOLDOWN_SECONDS - UNSTAKE_WINDOW

\* The sender's timestamp, or now when it is not set or has expired.
EffectiveSender(fromCooldown) ==
    IF MinimalValidCooldownTimestamp > fromCooldown THEN now ELSE fromCooldown

WeightedAverage(w1, x1, w2, x2) == (w1 * x1 + w2 * x2) \div (w1 + w2)

\* Fault: the recipient is given the better of the two timestamps.
NextCooldownTimestampBest(fromCooldown, amount, to, toBalance) ==
    LET toCooldown == stakersCooldowns[to] IN
    IF toCooldown = 0 \/ MinimalValidCooldownTimestamp > toCooldown THEN 0
    ELSE Earlier(EffectiveSender(fromCooldown), toCooldown)

\* Fault: a recipient without a cooldown inherits the sender's.
NextCooldownTimestampInherit(fromCooldown, amount, to, toBalance) ==
    LET toCooldown == stakersCooldowns[to] IN
    IF toCooldown = 0 THEN fromCooldown
    ELSE IF MinimalValidCooldownTimestamp > toCooldown THEN 0
    ELSE IF EffectiveSender(fromCooldown) < toCooldown THEN toCooldown
    ELSE WeightedAverage(amount, EffectiveSender(fromCooldown), toBalance, toCooldown)

\* The weighted average divides by amount + toBalance: zero reverts.
AverageIsDefined(fromCooldown, amount, to, toBalance) ==
    \/ stakersCooldowns[to] = 0
    \/ MinimalValidCooldownTimestamp > stakersCooldowns[to]
    \/ EffectiveSender(fromCooldown) < stakersCooldowns[to]
    \/ amount + toBalance # 0

GetNextCooldownTimestamp(fromCooldown, amount, to, toBalance) ==
    LET toCooldown == stakersCooldowns[to]
        sender     == EffectiveSender(fromCooldown)
    IN  CASE toCooldown = 0                                -> 0
          [] toCooldown # 0
             /\ MinimalValidCooldownTimestamp > toCooldown -> 0
          [] toCooldown # 0
             /\ MinimalValidCooldownTimestamp <= toCooldown
             /\ sender < toCooldown                        -> toCooldown
          [] OTHER -> WeightedAverage(amount, sender, toBalance, toCooldown)

\* The two requires of redeem.
InUnstakeWindow(u) ==
    /\ now > stakersCooldowns[u] + COOLDOWN_SECONDS
    /\ now - (stakersCooldowns[u] + COOLDOWN_SECONDS) <= UNSTAKE_WINDOW

\* Fault: a redeem of the whole balance leaves the cooldown running.
CooldownAfterRedeemKept(sender, redeemed) == stakersCooldowns[sender]

CooldownAfterRedeem(sender, redeemed) ==
    IF balances[sender] - redeemed = 0 THEN 0 ELSE stakersCooldowns[sender]

\* The sender's cooldown after a transfer to another account.
CooldownAfterSending(from, amount) ==
    IF balances[from] = amount /\ stakersCooldowns[from] # 0
    THEN 0 ELSE stakersCooldowns[from]

----------------------------------------------------------------------------
(* Transactions. *)

\* An amount above the balance redeems the balance.
AmountToRedeem(sender, amount) ==
    IF amount > balances[sender] THEN balances[sender] ELSE amount

Stake(sender, onBehalfOf, amount) ==
    /\ amount # 0
    /\ UpdateCurrentUnclaimedRewards({onBehalfOf})
    /\ AverageIsDefined(0, amount, onBehalfOf, balances[onBehalfOf])
    /\ stakersCooldowns' = [stakersCooldowns EXCEPT ![onBehalfOf] =
           GetNextCooldownTimestamp(0, amount, onBehalfOf, balances[onBehalfOf])]
    /\ Mint(onBehalfOf, amount)
    /\ MoveFunds(STAKED_TOKEN, sender, SELF, amount)
    /\ UNCHANGED <<now, historyVars>>

Redeem(sender, to, amount) ==
    LET amountToRedeem == AmountToRedeem(sender, amount) IN
    /\ amount # 0
    /\ InUnstakeWindow(sender)
    /\ UpdateCurrentUnclaimedRewards({sender})
    /\ Burn(sender, amountToRedeem)
    /\ stakersCooldowns' = [stakersCooldowns EXCEPT ![sender] =
           CooldownAfterRedeem(sender, amountToRedeem)]
    /\ MoveFunds(STAKED_TOKEN, SELF, to, amountToRedeem)
    /\ UNCHANGED <<now, historyVars>>

Cooldown(sender) ==
    /\ balances[sender] # 0
    /\ stakersCooldowns' = [stakersCooldowns EXCEPT ![sender] = now]
    /\ activatedAt' = [activatedAt EXCEPT ![sender] = now]
    /\ UNCHANGED <<now, funds, balances, totalSupply, assetData, userIndex,
                   stakerRewardsToClaim, emitted, paid, underquoted>>

\* updateStorage is false here: what was accrued is stored by the handler,
\* less what is paid out.
ClaimRewards(sender, to, amount) ==
    LET newTotalRewards == UnclaimedRewards(sender)
        amountToClaim   == IF amount = MAX_UINT THEN newTotalRewards ELSE amount
    IN
    /\ UpdateUsersAsset({sender})
    /\ newTotalRewards >= amountToClaim
    /\ stakerRewardsToClaim' =
           [stakerRewardsToClaim EXCEPT ![sender] = newTotalRewards - amountToClaim]
    /\ MoveFunds(REWARD_TOKEN, REWARDS_VAULT, to, amountToClaim)
    /\ paid' = paid + amountToClaim
    /\ UNCHANGED <<now, balances, totalSupply, stakersCooldowns, emitted,
                   activatedAt, underquoted>>

\* Fault: the recipient's rewards are not settled before tokens arrive.
SettledByTransferSenderOnly(from, to) == {from}

\* The accounts whose rewards _transfer settles first.
SettledByTransfer(from, to) == {from, to}

\* _transfer, reached by transfer and, once the allowance has been checked,
\* by transferFrom.
Transfer(from, to, amount) ==
    /\ UpdateCurrentUnclaimedRewards(SettledByTransfer(from, to))
    /\ IF from = to
       THEN UNCHANGED stakersCooldowns
       ELSE /\ AverageIsDefined(stakersCooldowns[from], amount, to, balances[to])
            /\ stakersCooldowns' = [stakersCooldowns EXCEPT
                   ![to] = GetNextCooldownTimestamp(stakersCooldowns[from], amount,
                                                    to, balances[to]),
                   ![from] = CooldownAfterSending(from, amount)]
    /\ MoveBalance(from, to, amount)
    /\ UNCHANGED <<now, funds, historyVars>>

\* configureAssets of the emission manager for the asset address(this).  The
\* caller quotes totalStaked; nothing compares it with the supply.
ConfigureAssets(emissionPerSecond, totalStaked) ==
    /\ assetData' = [UpdateAssetState(assetData, totalStaked, now)
                        EXCEPT !.emissionPerSecond = emissionPerSecond]
    /\ underquoted' = (underquoted \/ (0 < totalStaked /\ totalStaked < totalSupply))
    /\ UNCHANGED <<now, funds, balances, totalSupply, userIndex,
                   stakerRewardsToClaim, stakersCooldowns, emitted, paid,
                   activatedAt>>

\* The next second.  The history variable emitted counts what the docs
\* promise: while somebody stakes and the distribution has not ended, each
\* second is worth emissionPerSecond.
Tick ==
    /\ now < MAX_TIME
    /\ now' = now + 1
    /\ emitted' = IF totalSupply > 0 /\ now < DISTRIBUTION_END
                  THEN emitted + assetData.emissionPerSecond ELSE emitted
    /\ UNCHANGED <<funds, balances, totalSupply, assetData, userIndex,
                   stakerRewardsToClaim, stakersCooldowns, paid, activatedAt,
                   underquoted>>

Next ==
    \/ \E sender \in Callers, u \in Users, amount \in Amounts : Stake(sender, u, amount)
    \/ \E sender \in Callers, to \in Recipients, amount \in Amounts : Redeem(sender, to, amount)
    \/ \E sender \in Callers : Cooldown(sender)
    \/ \E sender \in Callers, to \in Recipients, amount \in Amounts \cup {0, MAX_UINT} :
           ClaimRewards(sender, to, amount)
    \/ \E from \in Callers, to \in Users, amount \in Amounts \cup {0} : Transfer(from, to, amount)
    \/ \E emission \in Emissions, total \in Quotes : ConfigureAssets(emission, total)
    \/ Tick

Spec == Init /\ [][Next]_vars

----------------------------------------------------------------------------
(* Correctness. *)

\* Every variable has its type.
TypeOK ==
    /\ now \in Nat
    /\ funds \in [Tokens -> [Holders -> Nat]]
    /\ balances \in [Users -> Nat]
    /\ totalSupply \in Nat
    /\ assetData \in AssetData
    /\ userIndex \in [Users -> Nat]
    /\ stakerRewardsToClaim \in [Users -> Nat]
    /\ stakersCooldowns \in [Users -> Nat]
    /\ emitted \in Nat
    /\ paid \in Nat
    /\ activatedAt \in [Users -> Nat]
    /\ underquoted \in BOOLEAN

\* The contract holds at least the supply in staked tokens, and the supply is
\* what the balances add up to: every redeem can be paid, whatever mix of
\* stake, redeem and claimRewards, to whichever address, came before, also
\* when the rewards are paid in the token that is staked.
Backed ==
    /\ totalSupply = SumFunction(balances)
    /\ funds[STAKED_TOKEN][SELF] >= totalSupply

\* The rewards the contract admits to owe (getTotalRewardsBalance of every
\* account) and those it paid never exceed what the distribution emitted:
\* rounding, transfers, late updates and the end of the distribution never
\* create rewards.  The exception is a configureAssets that quoted a
\* totalStaked smaller than the supply.
Solvent ==
    ~underquoted =>
        SumFunction([u \in Users |-> TotalRewards(u)]) + paid <= emitted

\* A step that is not a misquoted configureAssets.
Misquote ==
    \E emission \in Emissions, total \in Quotes :
        total # totalSupply /\ ConfigureAssets(emission, total)

\* Within a second nobody's total rewards change, except that a claim lowers
\* those of one account by exactly what the vault paid: staking, redeeming,
\* transferring (to oneself too) and updating the index neither win nor lose
\* a unit, in any order.  The passing of time never lowers a total.
RewardsOnlyMoveByClaim ==
    [][ ~Misquote =>
          IF now' = now
          THEN \E payee \in Users : \A u \in Users :
                  TotalRewards(u)' =
                      TotalRewards(u) - (IF u = payee THEN paid' - paid ELSE 0)
          ELSE \A u \in Users : TotalRewards(u)' >= TotalRewards(u) ]_vars

\* Nothing keeps a staker in: in the unstake window the whole balance can be
\* redeemed, and at any time it can be transferred.  Neither the rewards (an
\* index behind the user's), nor the cooldown average (a division by zero),
\* nor the supply or the funds of the contract make the transaction revert.
NeverLockedIn ==
    \A u \in Callers : balances[u] # 0 =>
        /\ InUnstakeWindow(u) => ENABLED Redeem(u, u, balances[u])
        /\ \A v \in Users : ENABLED Transfer(u, v, balances[u])

\* A cooldown runs only for an account that stakes, so that tokens received
\* later by an empty account never inherit a cooldown served without stake.
CooldownImpliesBalance ==
    \A u \in Users : stakersCooldowns[u] # 0 => balances[u] # 0

\* A running cooldown started no earlier than the user's own last cooldown()
\* and not in the future: deposits and transfers only push it later.
CooldownIsOwn ==
    \A u \in Users : stakersCooldowns[u] # 0 =>
        /\ activatedAt[u] # 0
        /\ activatedAt[u] <= stakersCooldowns[u]
        /\ stakersCooldowns[u] <= now

\* Tokens leave the stake only more than COOLDOWN_SECONDS after their owner
\* called cooldown(), whatever was received, sent or staked in between.
OwnCooldownServed ==
    totalSupply' < totalSupply =>
        \E u \in Users :
            /\ balances'[u] = balances[u] - (totalSupply - totalSupply')
            /\ activatedAt[u] # 0
            /\ now > activatedAt[u] + COOLDOWN_SECONDS

RedeemAfterOwnCooldown == [][OwnCooldownServed]_vars

\* Token-seconds of cooldown served, over all accounts.
Waited ==
    SumFunction([u \in Users |->
        IF stakersCooldowns[u] = 0 THEN 0 ELSE balances[u] * (now - stakersCooldowns[u])])

\* The README's "If the user redeems AAVE, the cooldown timestamp is set to
\* 0", which redeem does only when it takes the whole balance.
RedeemClearsCooldown ==
    [][ totalSupply' < totalSupply =>
          \E u \in Users : balances'[u] < balances[u] /\ stakersCooldowns'[u] = 0 ]_vars

\* The README's "On transfer of stkAAVE: the cooldown timestamp of the sender
\* remains as it is", which _transfer does unless the whole balance is sent.
TransferKeepsSenderCooldown ==
    [][ totalSupply' = totalSupply =>
          \A u \in Users : balances'[u] < balances[u] =>
              stakersCooldowns'[u] = stakersCooldowns[u] ]_vars

\* No transaction creates waiting time: moving tokens between accounts, in
\* any direction and amount, never raises the token-seconds served, but for
\* the rounding of one weighted average (less than a second per token of the
\* account it is computed for).
WaitNotCreated ==
    [][ now' = now =>
          \/ Waited' <= Waited
          \/ \E u \in Users : Waited' < Waited + balances'[u] ]_vars

=============================================================================
