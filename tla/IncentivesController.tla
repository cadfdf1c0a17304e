------------------------- MODULE IncentivesController -------------------------
(***************************************************************************)
(* AaveIncentivesController: rewards for holding the aTokens and debt      *)
(* tokens of the lending pool, one distribution per token.  A token calls  *)
(* handleAction for each account whose balance it is about to change; a    *)
(* user claims over a list of tokens, which the controller asks for        *)
(* balances, and is paid or has the rewards staked, with a bonus, in the   *)
(* Safety Module (PSM).                                                    *)
(*                                                                         *)
(* The tokens of the pool are not part of the repository: PoolMint,        *)
(* PoolBurn and PoolTransfer are what the controller's comments require of *)
(* them.  Of PSM.stake the module keeps what it does to principal.         *)
(***************************************************************************)
EXTENDS DistributionManager, FiniteSets, SequencesExt

CONSTANTS
    Users,
    PoolTokens,        \* tokens with a distribution
    Strangers,         \* other contracts that may call handleAction
    EXTRA_PSM_REWARD,  \* bonus for staking, in percent
    GENESIS            \* block.timestamp of the deployment

CONSTANTS              \* bounds of the instances
    MAX_BALANCE,       \* what an account holds of one token
    ClaimLists,        \* lists of tokens a claim names
    ClaimAmounts,
    Emissions,
    Quotes,            \* totalStaked values the manager quotes
    StrangerBalances,  \* what a stranger says of balance and supply
    VaultFunds,        \* reward tokens in the vault at the start
    MAX_TIME           \* last block.timestamp

VARIABLES
    now,                    \* block.timestamp
    poolBalances,           \* scaled balances of the pool's tokens
    assetData,              \* assets
    userIndex,              \* assets[..].users
    usersUnclaimedRewards,
    funds,                  \* balances of REWARD_TOKEN
    staked                  \* principal in the PSM, by account

\* History variables: no transaction reads them.
VARIABLES
    paidTo,       \* rewards claimed without staking them, by who got them
    emitted,      \* rewards owed, one emissionPerSecond a second and token
    claimed,      \* rewards taken by claimRewards, before the bonus
    underquoted   \* configureAssets was once told less than a supply

controllerVars == <<assetData, userIndex, usersUnclaimedRewards>>
tokenVars == <<funds, staked, paidTo>>
vars == <<now, poolBalances, controllerVars, tokenVars, emitted, claimed, underquoted>>

Assets == PoolTokens \cup Strangers
\* Whose tokens the controller tells apart.  The users are among the others: an
\* account that is paid is not asked again.
Holders == {"REWARDS_VAULT", "PSM", "others"}

ASSUME IncentivesAssumption ==
    /\ IsFiniteSet(Users) /\ Users # {}
    /\ IsFiniteSet(PoolTokens)
    /\ PoolTokens \cap Strangers = {}
    /\ EXTRA_PSM_REWARD \in Nat
    /\ GENESIS \in Nat
    /\ MAX_BALANCE \in Nat
    /\ ClaimLists \subseteq Seq(PoolTokens)
    /\ ClaimAmounts \subseteq Nat
    /\ Emissions \subseteq Nat
    /\ Quotes \subseteq Nat
    /\ StrangerBalances \subseteq Nat
    /\ VaultFunds \in Nat
    /\ MAX_TIME \in Nat

PoolSupply(token) == SumFunction(poolBalances[token])

Init ==
    /\ now = GENESIS
    /\ poolBalances = [token \in PoolTokens |-> [u \in Users |-> 0]]
    /\ assetData = [a \in Assets |->
           [emissionPerSecond |-> 0, lastUpdateTimestamp |-> 0, index |-> 0]]
    /\ userIndex = [a \in Assets |-> [u \in Users |-> 0]]
    /\ usersUnclaimedRewards = [u \in Users |-> 0]
    /\ funds = [h \in Holders |-> IF h = "REWARDS_VAULT" THEN VaultFunds ELSE 0]
    /\ staked = [h \in Holders |-> 0]
    /\ paidTo = [h \in Holders |-> 0]
    /\ emitted = 0
    /\ claimed = 0
    /\ underquoted = FALSE

----------------------------------------------------------------------------
(* The controller's own state, as a record that its functions transform.   *)

Controller ==
    [assets |-> assetData, index |-> userIndex, unclaimed |-> usersUnclaimedRewards,
     reverted |-> FALSE]

Become(c) ==
    /\ ~c.reverted
    /\ assetData' = c.assets
    /\ userIndex' = c.index
    /\ usersUnclaimedRewards' = c.unclaimed

\* Fault: the index of a user without a balance is left behind.
UpdateUserAssetOfHolders(c, user, asset, stakedByUser, totalStaked) ==
    LET newData  == UpdateAssetState(c.assets[asset], totalStaked, now)
        oldIndex == c.index[asset][user]
    IN  IF stakedByUser = 0 THEN [c EXCEPT !.assets[asset] = newData]
        ELSE [assets    |-> [c.assets EXCEPT ![asset] = newData],
              index     |-> [c.index EXCEPT ![asset][user] = newData.index],
              unclaimed |-> [c.unclaimed EXCEPT ![user] =
                                @ + GetRewards(stakedByUser, newData.index, oldIndex)],
              reverted  |-> c.reverted \/ oldIndex > newData.index]

\* _updateUserAssetInternal, with the rewards it returns credited to the user:
\* both callers add them to _usersUnclaimedRewards before anything is paid.
\* The subtraction of the indexes reverts below zero.
UpdateUserAsset(c, user, asset, stakedByUser, totalStaked) ==
    LET newData  == UpdateAssetState(c.assets[asset], totalStaked, now)
        oldIndex == c.index[asset][user]
        accrued  == IF stakedByUser # 0
                    THEN GetRewards(stakedByUser, newData.index, oldIndex) ELSE 0
    IN  [assets    |-> [c.assets EXCEPT ![asset] = newData],
         index     |-> [c.index EXCEPT ![asset][user] = newData.index],
         unclaimed |-> [c.unclaimed EXCEPT ![user] = @ + accrued],
         reverted  |-> c.reverted \/ (stakedByUser # 0 /\ oldIndex > newData.index)]

\* Fault: every entry of the list is credited from the state before the claim.
ClaimOverStale(list, user) ==
    LET once(c, token) ==
            UpdateUserAsset(c, user, token, poolBalances[token][user], PoolSupply(token))
    IN  FoldLeft(LAMBDA c, token :
                     [once(c, token) EXCEPT !.unclaimed[user] =
                         c.unclaimed[user] + once(Controller, token).unclaimed[user]
                           - usersUnclaimedRewards[user]],
                 Controller, list)

\* _claimRewards: the listed tokens in turn, with the balances and supplies
\* they report at the time of the claim.
ClaimOver(list, user) ==
    FoldLeft(LAMBDA c, token :
                 UpdateUserAsset(c, user, token, poolBalances[token][user], PoolSupply(token)),
             Controller, list)

\* getRewardsBalance(all tokens, user).
RewardsBalance(user) ==
    usersUnclaimedRewards[user]
      + SumFunction([token \in PoolTokens |->
            GetRewards(poolBalances[token][user],
                       GetAssetIndex(assetData[token], PoolSupply(token), now),
                       userIndex[token][user])])

----------------------------------------------------------------------------
(* The tokens of the pool. *)

HandleAction(c, caller, user, userBalance, totalSupply) ==
    UpdateUserAsset(c, user, caller, userBalance, totalSupply)

\* A token reports the balance and the supply before it changes them.
Report(c, token, user) ==
    HandleAction(c, token, user, poolBalances[token][user], PoolSupply(token))

PoolMint(token, user) ==
    /\ poolBalances[token][user] < MAX_BALANCE
    /\ Become(Report(Controller, token, user))
    /\ poolBalances' = [poolBalances EXCEPT ![token][user] = @ + 1]
    /\ UNCHANGED <<now, tokenVars, emitted, claimed, underquoted>>

PoolBurn(token, user) ==
    /\ poolBalances[token][user] > 0
    /\ Become(Report(Controller, token, user))
    /\ poolBalances' = [poolBalances EXCEPT ![token][user] = @ - 1]
    /\ UNCHANGED <<now, tokenVars, emitted, claimed, underquoted>>

\* One call of handleAction for every account of the transfer.
PoolTransfer(token, from, to) ==
    /\ from # to
    /\ poolBalances[token][from] > 0
    /\ poolBalances[token][to] < MAX_BALANCE
    /\ Become(Report(Report(Controller, token, from), token, to))
    /\ poolBalances' = [poolBalances EXCEPT ![token][from] = @ - 1, ![token][to] = @ + 1]
    /\ UNCHANGED <<now, tokenVars, emitted, claimed, underquoted>>

\* handleAction does not look at its caller.
StrangerCalls(stranger, user, balance, total) ==
    /\ Become(HandleAction(Controller, stranger, user, balance, total))
    /\ UNCHANGED <<now, poolBalances, tokenVars, emitted, claimed, underquoted>>

----------------------------------------------------------------------------
(* Claims. *)

\* Fault: the bonus is rounded up.
WithBonusRoundedUp(amount) == amount + (amount * EXTRA_PSM_REWARD + 99) \div 100

WithBonus(amount) == amount + (amount * EXTRA_PSM_REWARD) \div 100

\* Fault: a claim takes what it asks for.
AmountToClaimUncapped(amount, unclaimed) == amount

AmountToClaim(amount, unclaimed) == Earlier(amount, unclaimed)

\* The payment goes to any account the claimer names, the vault it comes from
\* and the PSM among them; a staked one passes through the controller into the
\* PSM, where it is the principal of that account.
Pay(payment, to, stake) ==
    LET left == [funds EXCEPT !["REWARDS_VAULT"] = @ - payment] IN
    /\ funds["REWARDS_VAULT"] >= payment
    /\ funds' = [left EXCEPT ![IF stake THEN "PSM" ELSE to] = @ + payment]
    /\ staked' = IF stake THEN [staked EXCEPT ![to] = @ + payment] ELSE staked
    /\ paidTo' = IF stake THEN paidTo ELSE [paidTo EXCEPT ![to] = @ + payment]

\* A claim of 0, and one that finds nothing unclaimed, returns early; the
\* second has updated the indexes all the same.
ClaimRewards(user, list, amount, to, stake) ==
    LET settled       == ClaimOver(list, user)
        unclaimed     == settled.unclaimed[user]
        amountToClaim == AmountToClaim(amount, unclaimed)
        payment       == IF stake THEN WithBonus(amountToClaim) ELSE amountToClaim
    IN
    /\ amount # 0
    /\ Become([settled EXCEPT !.unclaimed[user] = unclaimed - amountToClaim])
    /\ claimed' = claimed + amountToClaim
    /\ IF amountToClaim = 0 THEN UNCHANGED tokenVars ELSE Pay(payment, to, stake)
    /\ UNCHANGED <<now, poolBalances, emitted, underquoted>>

\* configureAssets for one token; a list is a sequence of these in one second.
ConfigureAssets(token, emissionPerSecond, totalStaked) ==
    /\ assetData' = [assetData EXCEPT ![token] =
           [UpdateAssetState(@, totalStaked, now) EXCEPT !.emissionPerSecond = emissionPerSecond]]
    /\ underquoted' = (underquoted \/ (0 < totalStaked /\ totalStaked < PoolSupply(token)))
    /\ UNCHANGED <<now, poolBalances, userIndex, usersUnclaimedRewards, tokenVars,
                   emitted, claimed>>

\* The next second.  The history variable emitted counts emissionPerSecond
\* for every token that somebody holds.
Tick ==
    /\ now < MAX_TIME
    /\ now' = now + 1
    /\ emitted' = emitted +
           SumFunction([token \in PoolTokens |->
               IF PoolSupply(token) > 0 /\ now < DISTRIBUTION_END
               THEN assetData[token].emissionPerSecond ELSE 0])
    /\ UNCHANGED <<poolBalances, controllerVars, tokenVars, claimed, underquoted>>

Next ==
    \/ \E token \in PoolTokens, u \in Users : PoolMint(token, u) \/ PoolBurn(token, u)
    \/ \E token \in PoolTokens, from, to \in Users : PoolTransfer(token, from, to)
    \/ \E s \in Strangers, u \in Users, balance, total \in StrangerBalances :
           StrangerCalls(s, u, balance, total)
    \/ \E u \in Users, list \in ClaimLists, amount \in ClaimAmounts,
          to \in Holders, stake \in BOOLEAN : ClaimRewards(u, list, amount, to, stake)
    \/ \E token \in PoolTokens, emission \in Emissions, total \in Quotes :
           ConfigureAssets(token, emission, total)
    \/ Tick

Spec == Init /\ [][Next]_vars

----------------------------------------------------------------------------
(* Correctness. *)

\* Every variable has its type.
TypeOK ==
    /\ now \in Nat
    /\ poolBalances \in [PoolTokens -> [Users -> Nat]]
    /\ assetData \in [Assets -> AssetData]
    /\ userIndex \in [Assets -> [Users -> Nat]]
    /\ usersUnclaimedRewards \in [Users -> Nat]
    /\ funds \in [Holders -> Nat]
    /\ staked \in [Holders -> Nat]
    /\ paidTo \in [Holders -> Nat]
    /\ emitted \in Nat
    /\ claimed \in Nat
    /\ underquoted \in BOOLEAN

\* What all users can claim over all tokens, with what they claimed, never
\* exceeds what the distributions emitted: neither several tokens, nor a token
\* listed twice in a claim, nor calls from contracts outside the pool create
\* rewards.  The exception is a configureAssets quoting less than the supply.
Solvent ==
    ~underquoted => SumFunction([u \in Users |-> RewardsBalance(u)]) + claimed <= emitted

\* A step that is not a misquoted configureAssets.
Misquote ==
    \E token \in PoolTokens, emission \in Emissions, total \in Quotes :
        total # PoolSupply(token) /\ ConfigureAssets(token, emission, total)

\* Within a second nobody's rewards change, but for those of a claimer by the
\* amount claimed, whichever tokens the claim names, in whatever order and how
\* often; the passing of time never lowers them.
RewardsOnlyMoveByClaim ==
    [][ \/ IF now' = now
           THEN \E payee \in Users : \A u \in Users :
                   RewardsBalance(u)' =
                       RewardsBalance(u) - (IF u = payee THEN claimed' - claimed ELSE 0)
           ELSE \A u \in Users : RewardsBalance(u)' >= RewardsBalance(u)
        \/ Misquote ]_vars

\* The controller never makes an operation of the lending pool revert, nor a
\* claim: no user's index is ever ahead of its token's.
NeverReverts ==
    \A u \in Users :
        /\ \A token \in PoolTokens : ~Report(Controller, token, u).reverted
        /\ \A list \in ClaimLists : ~ClaimOver(list, u).reverted

\* Over any number of claims, whoever they name, the vault pays what is claimed
\* and at most the bonus on top, not counting what claimers give back to it;
\* what the PSM holds is somebody's principal there, or was claimed for the PSM
\* itself.
PaymentsAddUp ==
    LET paid == VaultFunds - funds["REWARDS_VAULT"]
        kept == claimed - paidTo["REWARDS_VAULT"]
    IN
    /\ kept <= paid
    /\ 100 * paid <= kept * (100 + EXTRA_PSM_REWARD)
    /\ funds["PSM"] = SumFunction(staked) + paidTo["PSM"]

=============================================================================
