# Verification of the Aave staking contracts

TLA+ modules, TLC configurations and machine-checked proofs about the contracts
of this repository: the Safety Module's staked tokens (stkAAVE, stkBPT), the
reward distribution they inherit from, and the governance power they carry; and
about the tooling that deploys them, proposes their upgrades to governance and
rehearses the proposals on forks.

Source paths below are relative to the repository. Where several files hold the
same code the modules follow the newest one: `stake/StakedTokenV3.sol` for
staking, signed messages and the transfer hook,
`proposals/extend-stkaave-distribution/StakedTokenV2Rev3.sol` (a flattened file,
the implementation behind the stkAAVE proxy) for the governance parts and the
allowances, which V3 takes from a package that is not here; `lib/ERC20.sol` for
`_mint`, `_burn` and `_transfer`, which are the same in both.

## 1. Inventory

| Component | State | Operations | Correct when |
|---|---|---|---|
| `AaveDistributionManager` | `assets[a]`: `emissionPerSecond`, `lastUpdateTimestamp`, `index`, and an index per user | `configureAssets`, the internal updates every other contract calls first | an index grows with time only, by what was emitted for the stake there was; nothing after `DISTRIBUTION_END` |
| `StakedToken` core (V1, V2, V3, V2Rev3, BptV2Rev2) | balances, supply, `stakerRewardsToClaim`, `stakersCooldowns`, tokens held | `stake`, `redeem`, `cooldown`, `claimRewards`, `transfer`/`transferFrom` | stake is covered by tokens; rewards are neither created nor lost; a redeem was preceded by its owner's own served cooldown; nobody is locked in |
| Governance power (`GovernancePowerDelegationERC20`, the `_beforeTokenTransfer` hook) | two delegatee mappings, two snapshot logs per account | the hook under mint, burn and transfer; `delegate`, `delegateByType`; `getPowerCurrent`, `getPowerAtBlock`, `totalSupplyAt` | power is the balance behind a delegatee; power at a past block is a fact |
| ERC20 | allowances | `approve`, `transferFrom`, `increaseAllowance`, `decreaseAllowance` | an allowance is spent once |
| Signed messages | one nonce per account, shared | `permit`, `delegateBySig`, `delegateByTypeBySig` | a message takes effect at most once, before its deadline |
| `AaveIncentivesController` | many assets, unclaimed rewards, a bonus | `handleAction`, `claimRewards` (paid to any account, or staked for it with a bonus) | as the distribution, per asset and in sum |
| Proxy and initializer | implementation, admin, revision | `upgradeTo(AndCall)`, `changeAdmin`, `initialize` of each revision | each revision is initialised once; an initializer keeps the accounting |
| `AaveStakingHelper` | none | `stake` with a permit | all or nothing |
| Data providers (`StakeUIHelper`, `StakedTokenDataProvider`) | none | views | - |
| Networks and configuration (`hardhat.config.ts`, `helpers/constants.ts`) | tables per network | `getParamPerNetwork`, `getDefenderRelaySigner` | a contract is configured for the network it is deployed to |
| Deployment database (`deployed-contracts.json`, `helpers/contracts-helpers.ts`) | id and network -> address | `registerContractInJsonDb`, the accessors | a registration stays until its network is deployed again |
| Etherscan verification (`helpers/etherscan-verification.ts`) | attempts left, a temporary file | `checkVerification`, `verifyContract`, `runTaskWithRetry` | it ends; nothing is spent if it cannot work |
| Deployment tasks (`tasks/deployments`, `migrations`, `misc`) | a process each | deploy, wait, register, verify, initialize, create a pool | a finished command deployed what it says; a failed or killed one can be given again |
| Proposal scripts (`tasks/proposals`) | a fork's blocks and clock | create, vote, advance, queue, execute; the turns of the holders | the upgrade is executed whole; holders can leave and come back after it |

How they interact. Every state change of the staked token first settles rewards
(`_updateCurrentUnclaimedRewards` -> the manager's `_updateUserAssetInternal` ->
`_updateAssetStateInternal`), then moves balances; each change of a balance
first calls the hook, which reads the balances that are about to change; the
last step is a call of an underlying ERC20. The three layers share balances and
supply and nothing else, and a revert in any of them undoes the transaction.
The emission manager acts from outside through `configureAssets`, quoting the
supply it believes in. The tooling reaches all of it by transactions only: a
process of hardhat runs one command, deploys and initializes, and remembers the
addresses in a file in the working directory; another process, possibly at the
same time, finds them there. Proposals name the implementations that such a process
deployed, and governance, an external contract, upgrades both proxies.

What is hard. In the contracts there is no thread and no message loss: a
transaction is atomic. What varies is the *order* of transactions of independent accounts, several of
them in one second or one block, and what third parties can do to an account's
cooldown, rewards and power by staking for it, sending to it and delegating to
it. The accounting is lazy (an account's rewards and power are brought up to
date only when it is touched), the arithmetic rounds, and boundaries (end of
distribution, edges of the cooldown window, two writes in a block, tokens from
before an upgrade) are where the cases meet. In the tooling nothing is atomic. A
process is killed between a transaction and the line that records it, two
processes read and write the same file, a transaction is sent and not mined yet
or fails, Etherscan answers anything, an event is polled after it passed, and the
scripts move the clock of their fork by numbers that must fall into a voting
period, a timelock and an unstake window. `PROJECT.json` lists each hazard at
its line with the properties aimed at it.

## 2. Modules

| Module | Stands for |
|---|---|
| `DistributionManager` | the manager's index arithmetic, as pure operators |
| `StakedToken` | the staking core over one distribution whose asset is the contract itself: one action per transaction, `Tick` for the next second |
| `VotingPower` | abstract: power is the balance behind a delegatee, and the power at the end of each block is recorded for good |
| `GovernancePowerDelegation` | delegation, the hook, snapshots, the binary search; refines `VotingPower` |
| `StakedTokenV2` | composition: each transaction of `StakedToken` that moves a balance together with the hook for the same accounts and amount |
| `IncentivesController` | `AaveIncentivesController`: several tokens of the lending pool, `handleAction`, claims over lists, the bonus for staking |
| `VotingUpgrade` | the first `StakedToken` with its snapshots of balances (`ERC20WithSnapshot`), the upgrade, and `GovernancePowerDelegation` on what it left; refines `VotingPower` |
| `StakedTokenUpgrade` | the proxy of stkAAVE when the distribution is extended: `StakedToken` with the old end, `upgradeToAndCall` with `initialize` of V2Rev3, `StakedToken` with the new end on the same storage |
| `SignedMessages` | allowances, `permit`, `delegateBySig`, `delegateByTypeBySig`, on top of `GovernancePowerDelegation` |
| `MCStakedToken`, `MCGovernance`, `MCStakedTokenV2`, `MCIncentives`, `MCSignedMessages`, `MCVotingUpgrade`, `MCStakedTokenUpgrade` | instances for TLC |
| `Networks` | networks and the tables of parameters, with the default of the lookup |
| `EtherscanVerification` | one verification: the check before, and what a call of `runTaskWithRetry` makes of an answer |
| `TaskPrograms` | each hardhat task as the program of steps it runs for a command line and environment |
| `TaskRunner` | processes that run programs: chains, the shared file, kills, failing transactions, retries |
| `Proposals` | composition of `TaskRunner` with governance on main and on the scripts' forks |
| `StakingRounds` | the holders' turns that close `exec-stks` and `no-exec-stks`, on the transactions of `StakedToken` |
| `MCTasks`, `MCStakingRounds` | instances for TLC: which commands are given together; two holders and the fork |
| `SumLemmas` | what a sum over a finite set of accounts does, proved from the fold that defines it |
| `DistributionLemmas` | what the index arithmetic of `DistributionManager` guarantees to both contracts that use it |
| `StakedTokenProofs` | theorems about `StakedToken`: types, cooldowns, principal, that a staker can leave, that waiting is not created, that rewards are never created and within a second only move by a claim |
| `StakedTokenExtensionProofs` | theorems about the whole contract (it is still `StakedToken`, its past power is kept, the hook locks nobody in) and about both implementations across the upgrade of the distribution (solvency, the gap is handed out, stakers can leave) |
| `IncentivesProofs` | theorems about `IncentivesController`: types, no reverts, payments, solvency, rewards only move by a claim |
| `GovernanceProofs` | theorems about `GovernancePowerDelegation`: snapshots stay in order, power is the balance behind a delegatee, and the refinement of `VotingPower` |
| `GovernanceExtensionProofs` | theorems about `SignedMessages` (messages take effect once, allowances are spent once, past power is kept, messages stay good) and `VotingUpgrade` (voting power is kept across the upgrade) |
| `TaskProofs` | theorems about the tooling: each program is put together of parts that are right for its command, what runs keep, contracts and their networks, the file |

### Correspondence

An action is one *successful* transaction, with everything it calls. A failed
`require`, a `SafeMath` underflow, a division by zero or a failing token
transfer makes the guard false: a reverted transaction leaves no trace.

* `funds[token][holder]` are the balances in the two underlying ERC20 tokens.
  For stkAAVE `STAKED_TOKEN = REWARD_TOKEN`, for stkBPT they differ; `staking_power`
  has different ones, the other runs the same, and the theorems cover both. Users have approved the contract, the vault as well.
* `assetData` and `userIndex` are `assets[address(this)]`; index arithmetic is
  the code's, fixed point and rounding included, with `Scale` for
  `10 ** PRECISION`.
* `UpdateCurrentUnclaimedRewards(us)` is `_updateCurrentUnclaimedRewards` for
  the accounts a transaction settles. A transfer settles both before the balance
  of either changes, and the second settlement finds the index already updated,
  so that settling a set at once is what the code's two calls do. Settling
  twice the same account (a transfer to oneself) is avoided in the code and is
  a one-element set here.
* `GetNextCooldownTimestamp` has the code's cases in order;
  `AverageIsDefined` is the guard against its division by zero.
* `GENESIS` is a time after `COOLDOWN_SECONDS + UNSTAKE_WINDOW`, as Unix time is.
* `emitted`, `paid`, `activatedAt` and `underquoted` are history variables; no
  transaction reads them.
* In `GovernancePowerDelegation` a log is a sequence from 1 where the code has a
  mapping from 0 and a count. `Types` lets a run follow one kind of power: no
  kind reads anything of the other, and `VotingUpgrade.cfg` follows both.
* In `VotingUpgrade` the variable `snapshots` is one storage read by two codes: the
  slots of `_snapshots` and `_countsSnapshots` become `_votingSnapshots` and
  `_votingSnapshotsCounts` (`StakedTokenV2Rev3.sol:1426`). Of the first
  implementation's transactions it keeps what they do to balances and snapshots;
  `initialize` of V2 writes the domain separator and nothing else.
* In `StakedTokenUpgrade` an implementation is the number of its revision; its
  `DISTRIBUTION_END` is immutable, so each implementation is an instance of
  `StakedToken` of its own. `LAST_PERIOD_END` is the date written in `initialize`. It is
  taken to be no earlier than the old end, as its comment says, and in the past when
  governance executes the proposal. `UpgradeToAndCall` with the implementation that runs is
  also what a call of `initialize` by anybody does: the initializer refuses both.
* `IncentivesController` keeps the controller's own state in a record that its
  functions transform (`UpdateUserAsset`, `ClaimOver`), since one transaction
  calls them several times: a transfer of a pool token reports both accounts, a
  claim settles every token of its list, a token listed twice twice. The pool's
  tokens are not in the repository; `PoolMint`, `PoolBurn` and `PoolTransfer` are
  what the comments of `handleAction` ask of them: one call per account, with
  the balance and supply from before the change. `Strangers` are other contracts
  that call `handleAction`, which does not look at its caller (`README.md:95`
  calls it whitelisted): each gets a distribution of its own, and `Solvent` shows
  that this creates no rewards. Of `PSM.stake` only the principal is kept. `to`, the
  account a claim pays or stakes for, may be any: `Holders` are the ones whose tokens
  matter, the rewards vault, the PSM, and all others together, the users among them.
* In `SignedMessages` the sets `Permits` and `Delegations` are the messages that
  owners have signed. They are at large from the start, anybody may submit any of
  them at any time; the contract cannot tell more. A deadline is compared with
  the block, which stands for the time. `executed`, `granted` and `spent` are
  history variables. `transferFrom` is `_transfer` of the governance token with
  the allowance; what `_transfer` does to rewards and cooldowns does not depend on
  who called it and is in `StakedToken`.
* In `StakedTokenV2` one block is built each second.
* A task is a sequence of steps `[op, arg]` in the order of its source, the tasks and
  helpers it calls inlined (`Program(c)` for a command `c`); a condition on the
  command line or the environment that fails is a step that throws, where the code
  throws or exits. `runs[p]` is the command of a process with its program
  counter, the addresses its variables hold (`known`) and its copy of the file.
  Each step is one action of `TaskRunner` or `Proposals`, and a process may be
  killed before any of them. The file is read and written as a whole, in two steps,
  as lowdb does. A contract's address is its position on its chain and is known
  when its transaction is sent; it has code when it was mined. `Initialize` joins
  the transaction of the proxy and the wait for it, and so do the transactions of
  `deploy-CRP`. The chain of hardhat lives as long as its process. A fork of Tenderly is a
  tree of heads: with `TENDERLY_FORK_ID` and `TENDERLY_HEAD_ID` `set-dre` goes to a head that
  exists, without them to a new fork, and in both cases what the process sends goes on from
  there on a branch of its own, since its provider moves its own head. So a chain of
  Tenderly is the branch of one process, `Connect` begins it with what is at the head, and
  `Heads` are the new forks and where the branches of other processes have got to. A head in
  the middle of a branch is one that a process was killed at, failed at, or is at now. Both
  kinds of chain mine at once.
* `Commands` are all command lines the tasks accept, for all networks, and every set of
  the environment variables that decide what a task does: its flags are `Flags`, the
  parameters it looks for `Params`. Required parameters that it only passes on, and addresses
  with which the environment replaces those of main in the rehearsals, are taken as given. `Plans`, what is given
  next to each other, may be any sets of them.
* A process that connects to a fork finds main as it was at some block, with
  proposal 14, which `exec-stks` and `no-exec-stks` count on, open or over
  (`MainAt`). Of governance, which is not in the repository, there is what the scripts
  rely on: a proposal may be voted on between its start and end block, queued after
  that, executed between its delay and the grace period. The whales' votes suffice, one of
  each. It refuses an id it does not know, for a vote, to queue and to execute, and an
  implementation whose revision is not later. A head from which a script has started before
  may have no AAVE left with the whales (`funded`): the transfers that begin a script pass
  there or revert. On a chain without governance `Create` does nothing and succeeds,
  since a transaction to an address without code does; the script then reports a proposal.
* `StakingRounds` follows one staked token. The turns of the other token in the
  same loop are time for this one, and the script lets as much time pass as it
  asks of its provider, one second a block. Up to `MAX_DELAY` seconds pass between two
  transactions. The approvals are left out, as `StakedToken` takes them as given.
  `Try` is the try and catch: a transaction that would revert is one that is not
  ENABLED, and what follows depends on `rethrows`, the one difference of the scripts.
* Definitions whose comment begins with "Fault:" are wrong versions of a
  definition that follows them. No specification uses them; they document which
  mistake a property would notice.

The emission manager may quote any `totalStaked` (`configureAssets` does not
compare it with the supply). A quote below the supply emits more than
`emissionPerSecond`; a quote of 0 or above the supply emits less. `underquoted`
records the first case, and `Solvent` promises nothing after it.

## 3. Runs

| Run | Instance | Shows |
|---|---|---|
| `staking` | 2 users, a cooldown of 1 s and a window of 2 s, 5 s, in two scenarios (`scenario`). Rewards: amounts 1 and 2, rewards in the staked token, `Scale` 3, emission 1 after the first second, quotes 0-2, the distribution ends inside the run, two seconds before its last; cooldowns begin in the first or third second. Cooldowns: amounts 1 and 3, no emission, redeems may be paid to the users | `Backed`, `Solvent`, `RewardsOnlyMoveByClaim`, `NeverLockedIn`; `CooldownImpliesBalance`, `CooldownIsOwn`, `RedeemAfterOwnCooldown`, `WaitNotCreated` |
| `governance` | 3 accounts, 1 kind, blocks to 5; from block 4 on, one of the accounts has done nothing (`MCBound`) | `TypeOK`, `SnapshotsOrdered`; refinement of `VotingPower`, through the binary search |
| `voting_upgrade` | 2 accounts, both kinds, 2 blocks, the upgrade at any time in them | `PowerIsDelegatedBalance`; voting power refines `VotingPower` |
| `distribution_upgrade` | 2 users, emission 5, `Scale` 3; old period, gap, upgrade in the gap or after the new end, and a second attempt | `UpgradeSolvent`, `GapIsPaid`, `UpgradeNeverLocksIn` |
| `staking_power` | staking and governance together | `HookNeverLocksIn`, the composition refines `VotingPower` |
| `incentives` | 2 users of one token, emission 3, a quote of 2, which is the supply or above it, bonus 50 %, the end of the distribution two seconds before the last; or, for a shorter time, 1 user and 2 tokens, or a stranger, with claims over lists that name a token twice, or both; or claims that name the vault or the PSM, by one user (`MCBound`) | `Solvent`, `RewardsOnlyMoveByClaim`, `NeverReverts`, `PaymentsAddUp` |
| `signed` | an owner and a spender; 2 permits and 2 delegations that compete for nonces 0 and 1, with different deadlines | `InOrderOfNonces`, `SpentWithinGrants`, `MessagesStayGood`, refinement of `VotingPower` |
| `tasks` | 11 plans: sets of commands of which two are given, next to each other (side by side or one after the other) or, in six of the plans, only one after the other; one fault, a kill or a failing transaction, at any step; any answers of Etherscan | `NoGasLost`, `ConfiguredForItsNetwork`, `ParamsFileWhileVerifying`, `FinishedMeansDeployed`, `RegistrationsSurvive`, `FailsOnlyForCause`, `FinishedMeansExecuted`, `ProposalsNameImplementations`, and the liveness `EveryTaskEnds` |
| `exercise` | 2 holders, any history of the token for 1 s before the fork, a loop that wants 3 turns a round, 3 rounds; the list has 2 holders | `TurnsReachTheWindow`, `TurnCompounds` |
| `readme_redeem`, `readme_transfer`, `proposition_past` | as above | what a document says and the code does not do (section 6) |

Bounds and why they are enough. Two users are needed for every relation between
a sender and a recipient, three for a delegator, an old and a new delegatee that
all differ (`governance`). A supply of 2 does not divide `Scale * emission = 3`, and `Scale` does not
divide a user's balance times most index differences, so that both divisions
round. `DISTRIBUTION_END` lies inside the horizon with two
updates possible after it, which is what it takes for an index to run backwards
if the end were not tested. The horizon of `staking` holds a cooldown, its
window, and its expiry, with a second cooldown begun before that. Four snapshots
let the binary search go both ways and stop at an equal, a lower and a missing
block. The bounds are `Amounts`, `Recipients`, `Emissions`, `Quotes`,
`UserFunds`, `VaultFunds`, `MAX_TIME` (staking), `Amounts`, `MAX_SUPPLY`,
`MAX_BLOCK` (governance), `MAX_BALANCE`, `ClaimLists`, `ClaimAmounts`,
`StrangerBalances`, `MAX_TIME` (incentives) and `MAX_GRANTED`, what an owner grants
a spender by transactions of its own (signed messages). Two messages for each of
two nonces are what it takes for one kind to overtake the other, for a message
to be submitted again after its nonce passed, and for one to expire with its
nonce still current. In `distribution_upgrade` the old end, the new end and the
horizon are one second apart each: the upgrade may come before the gap has a
second, after one, or after the new end, with or without an update of the index
in between, and the emission is large enough that a lost second is more than
rounding. Users are symmetric where they are interchangeable.

In `tasks`, two commands (`MAX_STARTS`) are what it takes for one to find in the file
what another one left, or to write it at the same time, and one fault
(`MAX_FAULTS`) for the second command to be given after the first was killed or
failed. `Plans` puts together the commands that share something: one network and
its entries, the file from two networks, a list of networks that may not be
verified or have no chain id, new forks of Tenderly, heads of a fork that the command before
has left (rehearsals and deployments given again), the proposals. The commands of
the plans in `Sequential` are given one after the other only, which bounds the run:
side by side they meet in nothing that the other plans do not have. Which process is the first is fixed: the
two are interchangeable. In `exercise` the window (`UNSTAKE_WINDOW` 3) is as narrow as
the delays (`MAX_DELAY` 1) allow, so that a wait that is wrong by a second misses
it. `FORKED_BY` bounds the history before the fork, `TURNS` and `ROUNDS` the loop,
and the list is one shorter than the loop, as it is in the code. No run has a
second round: the code never reaches one.

Fairness and liveness. Nothing in the contracts runs on its own, and no user has to
send a transaction: the specifications of the contracts assume no fairness, and what a
user may rely on is stated as safety. `NeverLockedIn` and `HookNeverLocksIn` say that the
redeem or transfer of a whole balance is ENABLED whenever the cooldown rules
allow it, `MessagesStayGood` that a signed message with the current nonce can be
executed until it expires, `NeverReverts` that the controller never blocks the
pool, in every reachable state. The tooling does run on its own. `Fairness` of
`Proposals` is weak fairness of each process's next step (a node process goes on
until it ends) and of mining (a public network mines what it is sent, or the
transaction fails). Commands, kills and failures are not fair: they need never happen.
Under it `EveryTaskEnds`: a command that runs comes to its end, through any
answers of Etherscan, any failing transaction, and next to any other command. The one
exception, stated in the property, is `deploy-CRP`: it begins to listen for
`LogNewCrp` after the wait for its transaction (`deploy-bpt.ts:91`), and an event in a
block that its provider has already polled leaves it in its loop for good. The code does
that, and no property here is against it.

What the properties of `tasks` do not say. `RegistrationsSurvive` leaves out commands that ran
side by side: the code reads and writes the whole file, they do lose each other's entries,
and the model reaches it. `FailsOnlyForCause` is about a command that is alone, whose
transactions succeed and which finds what it needs, seen when it connects (`ReadyAt`):
for an initialization a proxy that is not initialized; for a rehearsal a head from
which none has started, since at another one the upgrade may be in place, and reverts, or the
whales' AAVE be spent; for `exec-stks` also proposal 14, still open. `FinishedMeansExecuted` holds
at any head: a script that finishes has executed the proposal it created there, and
`no-exec-stks` changes no proposal, proxy or allowance of the head it finds.

Deadlock is checked in the runs of the contracts: a claim of 0 is always possible,
and so is a transfer or a delegation. It is not in `tasks` and `exercise`: all
commands have been given and ended, and the script has come to its end.

## 4. Proofs

`StakedTokenProofs` proves for every set of users, amounts, emissions, quotes,
cooldown, window and end of distribution, from the assumptions
`DistributionAssumption` and `StakedTokenAssumption` (finitely many users and at
least one, natural numbers, `Scale > 0`, `GENESIS` after a cooldown and a window, the
contract is not its own vault):

* `TypeCorrect`: `Spec => []TypeOK`.
* `CooldownNeedsBalance`, `CooldownOwn`: the two cooldown invariants.
* `RedeemWaits`: the action property `RedeemAfterOwnCooldown`.
* `PrincipalBacked`: `Spec => []Backed`.
* `WaitingIsNotCreated`: the action property `WaitNotCreated`.
* `StakersCanLeave`: `Spec => []NothingLocksIn`, what `NeverLockedIn` says, with the
  guards of the two transactions in place of ENABLED.
* `RewardsSolvent`: `Spec => []Solvent`.
* `OnlyClaimsMoveRewards`: the action property `RewardsOnlyMoveByClaim`.
* `UpgradeIsSolvent`, `UpgradeHandsOutGap`, `UpgradeLetsLeave` (in
  `StakedTokenExtensionProofs`, with `UpgradeAssumption`): `SpecUpgrade =>
  []UpgradeSolvent`, the action property `GapIsPaid`, and `UpgradeNeverLocksIn` in
  guard form.

The argument. None of the invariants is inductive alone: that a redeem was
preceded by the owner's own cooldown needs that a running cooldown is not older
than the last activation; that a transfer keeps this needs that the weighted
average lies between the two timestamps it averages, which in turn needs a
non-empty weight, hence that a running cooldown has a balance, hence the type;
and the index arithmetic stays in the naturals only because the last update is
not in the future. `ClockInv` is the conjunction that closes: `TypeOK`, the last
update not after `now`, `CooldownImpliesBalance` and `CooldownIsOwn`. It is shown to hold
initially and to be kept by each action in a lemma of its own
(`StakeClockInv`, ... `TickClockInv`). `Backed` needs sums over all accounts:
`SumLemmas` proves, from the definition of the fold, that a sum exists, is
independent of the order, and how it changes when one or two of its terms do.
A fold is recursive, and recursion over sets is proved by taking a smallest
counterexample, since a theorem of induction cannot be cited for it.

`Solvent` speaks of rewards rounded down at the index of now and is far from
inductive: a transaction may settle one account, move the index for all, and
pay out. Its inductive form is `Owed`, a ledger without rounding. The weight of
an account, `balance * (index - userIndex) + Scale * stored`, is `Scale` times
what it is owed at the stored index; `Pending` is what was emitted since the
index was last updated. `Owed` says that the sum of the weights, plus `Scale`
times what was paid and what is pending, is at most `Scale` times what was
emitted. Each update turns `Pending` into weight, and rounding can only lose
some on the way: `AdvanceIsPending` bounds the advance of the index over the
whole supply by what was pending (this is where `underquoted` is needed),
`AccruedIsRounded` bounds what one account is credited, `SharesSum` adds up over
the accounts (with `Backed`: the balances sum to the supply), and
`UpdateKeepsOwed` puts the three together for every transaction that updates the
index. `TickKeepsOwed` shows that a second makes no more pending than it emits.

`RewardsOnlyMoveByClaim` rests on the index: once updated it stays for the rest of the
second (`IndexOfUpdated`), so that settling an account turns rewards due into
rewards stored and changes no total, and the balance that changes next is worth
nothing until the next second. `WaitNotCreated` compares sums over all
accounts of balance times seconds served: two accounts change at most, and the
account that is sent to gets the weighted average of two times, rounded down by less than
a second per token it then holds.

ENABLED is out of the prover's reach. What `NeverLockedIn` says is therefore stated in
two halves. `RedeemPassesIsGuard` (and the same for a transfer) shows that the
action is its window, its condition `RedeemPasses`, and a choice of values for the next
state: nothing else in it can be false. `StakersCanLeave` shows that the
condition holds in every reachable state. It needs `IndexInv`, that no account's index
is ahead of the contract's, `Backed` for the supply and the funds, and `ClockInv` for the
average of two cooldowns, which would divide by zero for weights that are both zero.

`StakedTokenExtensionProofs` uses the same lemmas twice: as they are for the old
implementation, and through an instance of `StakedTokenProofs` with the new end
for the other. The invariant `UpgradeInv` says that the ledger of the implementation
that runs is in order, and that the revision that runs is the last one initialised,
from which `UpgradeOnce` concludes that the date is written once. `UpgradeOwed` is the
step between the two ledgers: what was pending before the old end is dropped, and
what is pending afterwards is at most the gap that `initialize` promises.
`GapIsPaid` is the other direction. `GapIndex` is how far the index of the new
implementation starts above the stored one; it is worth the gap times the emission, less
than one unit of the index for the division, and less than one for every account for
its share. `UpgradeLetsLeave` carries `IndexInv` through the step that moves the date
back: an index computed from an earlier date is larger, never smaller.

`IncentivesProofs` proves, from `DistributionAssumption` and `IncentivesAssumption`:

* `IncentivesTypes`: `Spec => []TypeOK`.
* `IncentivesNeverRevert`: `Spec => []NeverReverts`.
* `IncentivesPaymentsAddUp`: `Spec => []PaymentsAddUp`. Claims that pay the vault itself give
  back what they took, and the PSM may be paid directly: both are counted (`paidTo`).
* `IncentivesSolvent`: `Spec => []Solvent`.
* `IncentivesOnlyMoveByClaim`: the action property `RewardsOnlyMoveByClaim`.

A transaction is a sequence of reports: one for a mint or a burn, two for a transfer, as many
as the list is long for a claim. `ReportKeeps` says once what a report does, for any
record of the controller's state, and `ClaimStaysIn` carries a set of such
states along a list: `FoldExists` shows that the fold the claim is made of satisfies
its recursion, by the smallest list for which it would not. `ControllerInv`
(types; no index ahead of its token's; nothing distributed for a contract without a
distribution) gives the first two theorems. Solvency is the ledger `Owed` of the staked
token, one per token and per stranger (`TokenUpdated`), summed over the tokens
(`LedgerStep`): what is stored is shared by the distributions, so it is the sum that a
claim lowers. `LedgerCovers` ends as `OwedImpliesSolvent` does, after changing the order of
two sums (`SumSwap`): rewards are rounded per user over all tokens, the ledger is per
token over all users. A stranger's distribution was never configured, so its index is 0 and
stays 0 whatever it reports: that is why the calls from outside change nothing.

`GovernanceProofs` proves, from `GovernanceAssumption` (finitely many users, of whom
`address(0)` is none, natural numbers):

* `PowerTypeCorrect`: `Spec => []TypeOK`; no subtraction of the hook or of a delegation
  goes below zero.
* `LogsOrdered`: `Spec => []SnapshotsOrdered`, what the binary search relies on.
* `PowerConserved`: `Spec => []PowerIsDelegatedBalance`: mints, burns, transfers and
  delegations in any order neither lose, create nor count twice any power. The theorem
  starts where the upgrade has left the token; `UpgradeKeepsPower` below goes through it.
* `PastPowerIsKept`: `SnapshotsFromStart => (Spec => KeepsPromise)`, the refinement of
  `VotingPower`.

The last one is not inductive: `_searchByBlockNumber` answers for an account without
snapshots with its balance, which is its power only as long as nobody but itself has
chosen it as delegatee. `PowerOf` says so for an account without snapshots, and that
the last snapshot is the balance delegated to it for one that has some;
`GovernanceInv` adds types and order, without which the value of the last snapshot
says nothing. `WriteKeepsOrder` is about one log, `MoveKeepsPower` about the two logs
one call of `_moveDelegatesByType` writes; `BalanceChangesPower`
says what happens to the sums when a balance changes. A transfer is
shown as two changes of a balance, and `HookKeepsInv` covers mint, burn and transfer
alike, a delegation to oneself or a transfer to oneself included.

The refinement maps the power at the end of each block to what `getPowerAtBlock` answers.
The search is a recursive function, and what a recursion computes cannot be
proved by an induction theorem here. It is proved in two halves. `SearchFinds`:
*any* function that satisfies the recursion (`IsSearch`) finds the last snapshot that is not
after the block, between any bounds that enclose it, by `StepInduction` on the distance
of the bounds, in which the property is a set of numbers. `SearchExists`: such a function
exists, given by what it should find, so that the CHOOSE the recursive definition
stands for is one. Here the order of the log is used (`LogIsOrdered`). `AnswerIsLast` says
the same of the whole answer, with the shortcuts for a block at or after the last snapshot and
before the first one. `WriteKeepsPast` is the heart: a
snapshot written in the current block, whether it overwrites or appends, changes no
answer about an earlier one; `MoveWrites`, `HookWrites` and `DelegationWrites` lift it to
transactions. `NextBlockKeepsPromise` closes a block: the answer about it is the current
power (`PowerConserved`), which is the sum that `VotingPower` records.

`SnapshotsFromStart` is the hypothesis: whoever holds tokens at the start has snapshots. It
holds for voting power at the upgrade, since the first `StakedToken` wrote them, and for a
token deployed new. It does not hold for proposition power of the stakers from
before the upgrade, for whom the refinement is false; the run
`proposition_past` shows how. Under it `HistoryInv` adds that every holder has snapshots,
without which an account's first snapshot would change the answers about all earlier blocks.

Of `SignedMessages`, `GovernanceExtensionProofs` proves, from `SignedAssumption` and `GovernanceAssumption`
(finitely many permits, natural numbers):

* `SignedTypeCorrect`: `SpecSigned => []SignedTypeOK`.
* `MessagesOnceInOrder`: `SpecSigned => []InOrderOfNonces`.
* `AllowancesSpentOnce`: `SpecSigned => []SpentWithinGrants`.
* `SignedPastIsKept`: `SnapshotsFromStart => (SpecSigned => SignedKeepsPromise)`.
* `MessagesCanTakeEffect`: `SpecSigned => []MessagesPass`, what `MessagesStayGood` says, with
  the guards in place of ENABLED.

`SignedSteps` first reduces the next-state relation to the four things a
transaction can do to allowances and nonces. `InOrderOfNonces` with the types is
inductive. `SpentWithinGrants` needs it: a permit raises the sum over the *set* of
executed permits only if it was not executed before (`AcceptedIsNew`: its nonce is
past those of all that were), which is where a replay would break the proof.

The first three need nothing of the token underneath. For the others `TokenSteps` shows
that each transaction is one of `GovernancePowerDelegation` or leaves its
variables alone (a delegation by signature is a delegation of its owner, a
`transferFrom` a transfer), and the lemmas of `GovernanceProofs` apply. `PowerCoversBalance` is
why a delegation never reverts however late it is submitted: the power of a
delegatee is a sum in which the balance of the owner is one term.

Of `VotingUpgrade` the same module proves, from `VotingUpgradeAssumption` (voting power is
one of the kinds, the initial balances are within the bound on the supply) and
`GovernanceAssumption`:

* `VotingPastIsKept`: `SpecUpgrade => VotingKeepsPromise`.
* `UpgradeKeepsPower`: `SpecUpgrade => []PowerIsDelegatedBalance`, in both revisions and for
  both kinds of power.

Here the hypothesis `SnapshotsFromStart` is gone. `Voting` is an instance of
`GovernanceProofs` with voting power as the only kind, of which every holder has snapshots;
`HookOfVoting` and `DelegationOfVoting` show that a transaction of the second revision is
one of the instance's as well. `FirstRevision` says what the first revision is like:
nobody has a delegatee, and nothing is in the other logs. Then the power of an account
is its balance (`BalanceIsVotingPower`), what `ERC20WithSnapshot` writes is what the hook
would have written (`FirstHookOfVoting`), and stake, redeem and transfer of the first
`StakedToken` are steps of the instance, so that the lemmas of `GovernanceProofs` apply to both
sides of the upgrade. `FirstRevisionInv` gives what the second revision starts from.

`StakedTokenExtensionProofs` puts the contract together. It needs, besides the assumptions of
`StakedToken`, `PowerAssumption`: `address(0)` stakes nothing, `GENESIS` is not after the last
second, and the supply of the underlying token is a `uint256` (`UnderlyingSupply`), as every
ERC20 supply is.

* `StakePowerIsKept`: `SpecWithPower => StakeKeepsPromise`, the refinement of `VotingPower`
  by the real stakes, redeems and transfers.
* `HookLetsLeave`: `SpecWithPower => []HookLocksNobodyIn`, what `HookNeverLocksIn` says,
  with the guards in place of ENABLED.

The actions of the composition are those of `StakedToken` with the hook, so that
`SpecWithPower` implies its `Spec` by construction (the lemma `PowerKeepsStaking`) and the
theorems of `StakedTokenProofs` may be used.
Each transaction is shown to be one of `GovernanceProofs`' (with the seconds as blocks), whose
lemmas then say what it does to the power. What they ask for and the staking core does not say is a
bound on the supply: `FundsConserved`, that no transaction creates underlying tokens, together with
`Backed` bounds the staked supply by theirs (`SupplyIsBounded`). The hook subtracts from
the power of a delegatee, which is never below the balance that leaves
(`PowerCoversStake`).

`TaskProofs` proves about the tooling, from `PlansAssumption` (a plan is a set of
`Commands`), for any number of processes, faults and restarts, any answers of Etherscan and
the program of any of the commands:

* `VerifyingFindsItsFile`: `Spec => []ParamsFileWhileVerifying`.
* `ConfigurationFailsForFree`: `Spec => []NoGasLost`.
* `ConfigurationFitsNetwork`: `Spec => []ConfiguredForItsNetwork`; a branch of a fork may have
  contracts of any network whose commands go to Tenderly.
* `EntriesSurvive`: `Spec => RegistrationsSurvive`, an action property.
* `ProposalsAreNamed`: `Spec => []ProposalsNameImplementations`.
* `FinishedDeploymentsStand`: `Spec => FinishedMeansDeployed`, an action property.

A program is a sequence put together with `\o` of the parts its task calls. What is
proved of it is therefore something that concatenation keeps. A program is `Sound`
for its command if each step it reaches, one with no throw before it, is right for the
command (`Good`): a file that is written was read in the step before, what is deployed
and initialized has the arguments and the admin of the command's network, what is looked
up in the file is no contract the run deploys, and only the scripts of
`tasks/proposals`, which have no `--verify`, create a proposal. A task begins with `set-dre` or throws. A part after a part that throws need not be right for
anything (`StopsConcat`), and this is how the checks of a task, which are throws in front
of the rest, are used: `SoundDeployStakedAave` needs the parameters of the networks only for
those that `RequireChainId` lets through. `Careful` says that no step that throws for the
configuration comes after one that sends anything, with `Settled` for the parts that
never do and `Silent` for the parts that send nothing. `SoundProgram` and
`CarefulProgram` put the tasks together; they are what a reader of a new task would have to
extend.

`RunsInv` is about the runs alone: each is at a step that its program reaches, on the chain
that `set-dre` leads to, a verification that is under way has its file, and a run that has
only connected, or failed for its configuration, sent nothing. `Moves` is what any
step does to its own run and, nothing, to the others'; it is shown per operation, and the
environment's steps after it. `ContractsInv` adds the contracts: each has the
arguments and the admin of a network that belongs there (`NetworksOf`): the chain's own or,
on a branch of a fork, that of any command that goes to Tenderly. A new contract belongs there by its
command (`ChainOfNetwork`), one that a branch begins with because the head was a branch of the
same kind (`ConnectConfigures`). `AloneInv` is about the file, which is read and written in two steps: a run that
began alone and is still alone has in its copy what is in the file, since no other run is
in the middle of a command (`StartedAlone`); then what it writes is what was there and an
entry for its own network (`WriteKeeps`).

`ProposalsNameImplementations` relates a proposal to contracts that an earlier step of the same
process deployed, with other processes, mining and failing transactions in between.
`NamesProgram` is the half about programs: an implementation that a step names was deployed
by a step before it, or its address is a parameter of the command (`Names`, kept by
concatenation, with `Plain` for the parts that create nothing). `Knows` is the half about
runs: an address a run holds for a kind is a contract of that kind on its chain, and it
holds one for each kind it has deployed. It lasts because no step takes a contract back
(`StepLasts`), and without faults none fails, so that what the guard of `Create` has
waited for is mined (`ResolvedCall`). `NamedInv` adds the proposals themselves: voting,
queueing, executing and the clock leave their calls alone (`GoesOn`).

`FinishedMeansDeployed` is about the end of a whole program, and its proof follows the
program through nine stages (`Completes`): the implementation is sent, mined and in the file,
then the proxy, both are read back, and the proxy is initialized. `Takes` says that the steps
of a part lead from one stage to another, each by completing the next or by undoing nothing
(`Idles`); parts that fit follow one another (`TakesConcat`), and `TakesCommonDeployment` is
the way from 0 to 9. `Progress` is what a stage means for the file, the addresses the run holds
and the contracts, and `DeploymentsInv`, that every deployment that is alone has made the
progress of its stage. A step makes the progress of the next stage (`DeploymentGetsOn`, one lemma
per kind of step), and mining and failing transactions take none back
(`UnderwayLasts`). What may spoil a stage is another command that writes the file or
initializes the proxy, which is why the property, and the code, need the deployment to be
alone: `AloneInv` says that it is, and that its write keeps the first entry when it makes
the second.

Only model-checked:

* The properties with ENABLED: `NeverLockedIn`, `UpgradeNeverLocksIn`, `HookNeverLocksIn` and
  `MessagesStayGood`. Their guard forms are proved.
* `StakingRounds`, whose `Try` is made of ENABLED.
* Of the tooling, `EveryTaskEnds`, which is liveness, and `FailsOnlyForCause` and
  `FinishedMeansExecuted`.

## 5. Not modelled

* `AaveStakingHelper`: one function that passes a permit to the AAVE token, which is not
  in this repository, takes the tokens and stakes them in one transaction. Once the
  token is trusted nothing is left but `stake` on behalf of another account, which is
  `Stake` of `StakedToken`.
* Of the proxy, `changeAdmin`, `upgradeTo` without a call, and its creation: no
  script or proposal of the repository upgrades without the call (the creation and
  the first initialization of the proxy of stkAAVE are steps of the tasks, with what
  they do to implementation and admin). Initializers
  that only write names and the domain separator.
* `totalSupplyAt`, which returns the current supply for any block, as its comment says
  ("simply returns the current supply"), although the staked token is minted and burned.
* In the incentives controller, claims that name a contract outside the pool
  (which answers for balances whatever it likes, about its own distribution only).
* In the signed messages, a signature that recovers an address whose key nobody
  holds: the delegation it makes is that of an account without tokens.
* The call of the Aave governance contract at the end of the hook, a contract the
  code takes to be trusted.
* Magnitudes of 256 bits. Additions and products are unbounded in the model; the
  code reverts on overflow. Token supplies and emissions stay below 2^100.
* Data providers (views only), interfaces, mocks, tests with their drivers and helpers
  (snapshots of the test chain, keys of test accounts, EIP-712 builders).
* Of the helpers, what no task calls: `insertContractAddressInDb`, `getContractFactory`,
  accessors and deployers of mocks and of contracts that only tests use.
* Gas, keys, compiler settings, the Defender relayer beyond the secrets it asks for.
* Wording of errors, events, EIP-712 encoding.

## 6. What the runs disagree with

* `README.md:74` says a redeem sets the cooldown to 0; a redeem of part of the
  balance leaves it running (`StakedTokenV3.sol:173`, run `readme_redeem`).
* `README.md:77` says of a transfer of stkAAVE that the cooldown timestamp of the sender
  remains as it is; a transfer of the whole balance clears it (`StakedTokenV3.sol:240`, run
  `readme_transfer`). `CooldownImpliesBalance` rests on the code's behaviour.
* The comment of `getPowerAtBlock` promises the power at a block. For proposition
  power of stakers from before the upgrade the answer is their current balance
  until their first snapshot and 0 afterwards (`StakedTokenV2Rev3.sol:1329`, run
  `proposition_past`).

Met while modelling the tooling, with no document that says otherwise. Each is in the
model, at the line:

* `initialize-StakedAave.ts:47`: on a network that starts afresh the file still names
  addresses of an earlier run, and a transaction to an address without code
  succeeds. The command reports an initialization that did not take place.
* `propose-vault-approval.ts:57`, `propose-extension.ts:89`: in the same way a proposal is
  reported on a chain that has no governance.
* `set-dre.ts:18`: the rehearsal of the extension, given again at a head where it has been
  executed, reverts when it executes: revision 3 is initialized. Earlier, its whales may have
  no AAVE left.
* `constants.ts`: the admin on goerli is a string of zeros, which is not undefined: the
  check of `common-deployment.ts:20` passes and the proxy belongs to nobody.
* `etherscan-verification.ts:91`: an error that ends a verification early leaves its
  temporary file behind.
* `deploy-staked-aave-rev3.ts:36`, `deploy-staked-bpt-rev2`, `deploy-CRP`: verification is
  always on and not checked first; without a key they deploy, and then throw.
* `contracts-accessors.ts:398`: `getStakedTokenV3` reads the entry of another contract.
* `verify-sc` runs `set-DRE`; the task is called `set-dre`.
* `TENDERLY=true` with the network `main` connects to a fork and registers its
  addresses under `main`.
* `tenderly-exec-proposal-stks.ts:222`, `tenderly-no-exec-proposal-stks.ts:191`: the loop
  counts to ten, the list of stkAAVE holders has nine. The tenth signer is undefined,
  outside of the try: both scripts end in their first round.

## 7. Plan

Done: the contracts (`DistributionManager`, `StakedToken`, `VotingPower`,
`GovernancePowerDelegation`, `IncentivesController`, `SignedMessages`, `StakedTokenV2`,
`VotingUpgrade`, `StakedTokenUpgrade`), the tooling (`Networks`,
`EtherscanVerification`, `TaskPrograms`, `TaskRunner`, `Proposals`, `StakingRounds`), and
the proofs of section 4.

Left, in this order:

1. `FinishedMeansExecuted`, in the way of `FinishedMeansDeployed`: the stages of a rehearsal are
   those of its proposal (created, voted, queued, executed), and its chain is a branch that no
   other process writes to, which stands in for what `DeploymentsInv` needs from `AloneInv`.
2. `FailsOnlyForCause`, which needs the stages of every task and, of each step, that what its
   guard asks for is there.
