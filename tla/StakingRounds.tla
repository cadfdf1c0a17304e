----------------------------- MODULE StakingRounds -----------------------------
(***************************************************************************)
(* The end of exec-stks:tenderly and no-exec-stks:tenderly: on their fork  *)
(* the holders of a list take turns, and each one activates the cooldown,  *)
(* claims, lets the cooldown pass, redeems everything and stakes all it    *)
(* has.  The transactions are those of StakedToken.  The other staked      *)
(* token has its turns in between, which is time for this one.             *)
(***************************************************************************)
EXTENDS StakedToken, Sequences

CONSTANTS
    top10stkAaveHolders,   \* the list: one shorter than its loop
    TURNS,                 \* turns the loop wants to give in a round
    ROUNDS,
    MAX_DELAY,             \* bound: seconds from one transaction to the next
    FORKED_BY              \* bound: second at which the fork exists at last

VARIABLES
    rethrows,   \* exec-stks throws what it caught, no-exec-stks goes on
    at,         \* next transaction of the turn, or where the script is
    round, turn,
    left,       \* seconds increaseTimeTenderly has still to add
    delay,      \* seconds since the last transaction
    opening,    \* history: what the holder had when its turn began
    late        \* history: a transaction after the cooldown has reverted

scriptVars == <<rethrows, at, round, turn, left, delay, opening, late>>
roundsVars == <<vars, scriptVars>>

Signer == top10stkAaveHolders[turn]
Wallet(u) == funds[STAKED_TOKEN][u]

InitRounds ==
    /\ Init
    /\ rethrows \in BOOLEAN
    /\ at = "main" /\ round = 1 /\ turn = 1
    /\ left = 0 /\ delay = 0 /\ opening = <<>> /\ late = FALSE

\* Main before it is forked: any history of the token.
BeforeTheFork ==
    /\ at = "main"
    /\ Next /\ now' <= FORKED_BY
    /\ UNCHANGED scriptVars

-----------------------------------------------------------------------------
\* The turn of the signer at position y; behind the end of the list the
\* signer is undefined, and what that throws nobody catches.
BeginTurn(x, y) ==
    /\ round' = x /\ turn' = y
    /\ at' = IF y \in DOMAIN top10stkAaveHolders THEN "cooldown" ELSE "undefined signer"

NextTurn ==
    IF turn < TURNS THEN BeginTurn(round, turn + 1)
    ELSE IF round < ROUNDS THEN BeginTurn(round + 1, 1)
    ELSE at' = "finished" /\ UNCHANGED <<round, turn>>

\* The fork, on which the script is the only one that acts.
Fork ==
    /\ at = "main"
    /\ BeginTurn(1, 1)
    /\ UNCHANGED <<vars, rethrows, left, delay, opening, late>>

\* A second passes between two transactions.
Delay ==
    /\ at \in {"cooldown", "claimRewards", "redeem", "stake"}
    /\ delay < MAX_DELAY
    /\ Tick
    /\ delay' = delay + 1
    /\ UNCHANGED <<rethrows, at, round, turn, left, opening, late>>

\* The try and the catch of rewardAndRedeem: the transaction and what the
\* script does next, or the revert and the end of the turn.
Try(transaction, next) ==
    IF ENABLED transaction
    THEN transaction /\ next /\ UNCHANGED late
    ELSE /\ UNCHANGED <<vars, left, opening>>
         /\ late' = (late \/ at # "cooldown")
         /\ IF rethrows THEN at' = "reverted" /\ UNCHANGED <<round, turn>> ELSE NextTurn

GoOn(next) == at' = next /\ UNCHANGED <<round, turn>>

\* Fault: the second after the cooldown is not added.
RemainingCooldownOnly(startedCooldownAt, currentTime) ==
    startedCooldownAt + COOLDOWN_SECONDS - currentTime

\* Seconds to let pass; the current time is that of the block just mined.
SecondsToWait(startedCooldownAt, currentTime) ==
    startedCooldownAt + COOLDOWN_SECONDS - currentTime + 1

SendCooldown ==
    /\ at = "cooldown"
    /\ Try(Cooldown(Signer),
           /\ GoOn("claimRewards")
           /\ left' = SecondsToWait(stakersCooldowns'[Signer], now)
           /\ opening' = [staked |-> balances[Signer], wallet |-> Wallet(Signer), paid |-> paid])
    /\ delay' = 0 /\ UNCHANGED rethrows

SendClaimRewards ==
    /\ at = "claimRewards"
    /\ Try(ClaimRewards(Signer, Signer, MAX_UINT),
           GoOn("increaseTime") /\ UNCHANGED <<left, opening>>)
    /\ delay' = 0 /\ UNCHANGED rethrows

IncreaseTime ==
    /\ at = "increaseTime"
    /\ Tick
    /\ left' = left - 1
    /\ at' = IF left = 1 THEN "redeem" ELSE at
    /\ UNCHANGED <<rethrows, round, turn, delay, opening, late>>

SendRedeem ==
    /\ at = "redeem"
    /\ Try(Redeem(Signer, Signer, MAX_UINT), GoOn("stake") /\ UNCHANGED <<left, opening>>)
    /\ delay' = 0 /\ UNCHANGED rethrows

\* Fault: only what the redeem brought is staked again.
AmountToStakeRedeemed(u) == opening.staked

\* underlyingBalanceAfter, read after the redeem.
AmountToStake(u) == Wallet(u)

SendStake ==
    /\ at = "stake"
    /\ Try(Stake(Signer, Signer, AmountToStake(Signer)), NextTurn /\ UNCHANGED <<left, opening>>)
    /\ delay' = 0 /\ UNCHANGED rethrows

NextRounds ==
    \/ BeforeTheFork \/ Fork \/ Delay \/ IncreaseTime
    \/ SendCooldown \/ SendClaimRewards \/ SendRedeem \/ SendStake

SpecRounds == InitRounds /\ [][NextRounds]_roundsVars

-----------------------------------------------------------------------------
\* Once the cooldown of a holder was activated, its turn comes to its end:
\* the seconds that rewardAndRedeem adds end in the unstake window, however
\* long the transactions take, whatever happened on main, and as long as the
\* vault holds what the distribution has emitted.
TurnsReachTheWindow == emitted <= VaultFunds /\ ~underquoted => ~late

\* The holder ends its turn with nothing in its wallet and everything staked:
\* what it had staked and what it held, with the rewards if they are the same
\* token; and no cooldown is left running.
TurnCompounds ==
    [][at = "stake" /\ at' # "stake" /\ balances' # balances =>
        LET rewards == IF STAKED_TOKEN = REWARD_TOKEN THEN paid - opening.paid ELSE 0 IN
        /\ balances'[Signer] = opening.staked + opening.wallet + rewards
        /\ funds'[STAKED_TOKEN][Signer] = 0
        /\ stakersCooldowns'[Signer] = 0]_roundsVars

=============================================================================
