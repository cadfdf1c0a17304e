---------------------------- MODULE StakedTokenV2 ----------------------------
(***************************************************************************)
(* StakedTokenV2 and V3 as a whole: the staking core with the governance   *)
(* hook under every change of a balance.  _mint, _burn and _transfer call  *)
(* _beforeTokenTransfer before they change a balance, so one transaction   *)
(* is a transaction of StakedToken and the hook for the same accounts and  *)
(* amount; if the hook reverts, so does the stake, redeem or transfer.     *)
(*                                                                         *)
(* A block is built every second of the model: blockNumber and             *)
(* block.timestamp advance in the same Tick.                               *)
(***************************************************************************)
EXTENDS StakedToken, Sequences

CONSTANTS Types, ZERO

VARIABLES delegates, snapshots

powerVars == <<delegates, snapshots>>
allVars == <<vars, powerVars>>

\* The underlying tokens in existence.
UnderlyingSupply ==
    SumFunction([h \in Holders |->
        CASE h = REWARDS_VAULT -> IF STAKED_TOKEN = REWARD_TOKEN THEN VaultFunds ELSE 0
          [] h = SELF -> 0
          [] OTHER -> UserFunds])

\* address(0) stakes nothing, and the supply of an ERC20 token is a uint256.
ASSUME PowerAssumption ==
    /\ ZERO \notin Users
    /\ Types \subseteq {"VOTING_POWER", "PROPOSITION_POWER"}
    /\ GENESIS <= MAX_TIME
    /\ UnderlyingSupply <= MAX_UINT

\* GovernancePowerDelegation starts at block 2.
BlockNumber == now - GENESIS + 2

Gov == INSTANCE GovernancePowerDelegation WITH
    blockNumber     <- BlockNumber,
    InitialBalances <- [u \in Users |-> 0],
    MAX_SUPPLY      <- MAX_UINT,
    MAX_BLOCK       <- MAX_TIME - GENESIS + 2

InitWithPower ==
    /\ Init
    /\ delegates = [type \in Types |-> [u \in Users |-> ZERO]]
    /\ snapshots = [type \in Types |-> [u \in Users |-> <<>>]]

StakeWithPower(sender, onBehalfOf, amount) ==
    /\ Stake(sender, onBehalfOf, amount)
    /\ Gov!BeforeTokenTransfer(ZERO, onBehalfOf, amount)

\* Fault: the hook is told what was asked for, not what is burned.
RedeemWithPowerOfRequest(sender, to, amount) ==
    /\ Redeem(sender, to, amount)
    /\ Gov!BeforeTokenTransfer(sender, ZERO, amount)

RedeemWithPower(sender, to, amount) ==
    /\ Redeem(sender, to, amount)
    /\ Gov!BeforeTokenTransfer(sender, ZERO, AmountToRedeem(sender, amount))

\* Fault: a transfer moves the power of the two accounts, not of their
\* delegatees.
TransferWithPowerOfOwners(from, to, amount) ==
    /\ Transfer(from, to, amount)
    /\ Gov!BeforeTokenTransferOwners(from, to, amount)

TransferWithPower(from, to, amount) ==
    /\ Transfer(from, to, amount)
    /\ Gov!BeforeTokenTransfer(from, to, amount)

NextWithPower ==
    \/ \E sender \in Callers, u \in Users, amount \in Amounts :
           StakeWithPower(sender, u, amount)
    \/ \E sender \in Callers, to \in Recipients, amount \in Amounts :
           RedeemWithPower(sender, to, amount)
    \/ \E from \in Callers, to \in Users, amount \in Amounts \cup {0} :
           TransferWithPower(from, to, amount)
    \/ \E sender \in Callers : Cooldown(sender) /\ UNCHANGED powerVars
    \/ \E sender \in Callers, to \in Recipients, amount \in Amounts \cup {0, MAX_UINT} :
           ClaimRewards(sender, to, amount) /\ UNCHANGED powerVars
    \/ \E emission \in Emissions, total \in Quotes :
           ConfigureAssets(emission, total) /\ UNCHANGED powerVars
    \/ \E u \in Callers, v \in Users, type \in Types :
           UNCHANGED vars /\ Gov!DelegateByType(u, v, type)
    \/ \E u \in Callers, v \in Users : UNCHANGED vars /\ Gov!Delegate(u, v)
    \/ Tick /\ UNCHANGED powerVars

SpecWithPower == InitWithPower /\ [][NextWithPower]_allVars

----------------------------------------------------------------------------
(* Correctness. *)

\* The hook keeps no staker in: the power it subtracts from is never
\* below the balance that leaves, so that whoever the power was delegated to,
\* the whole balance can be redeemed in the unstake window and transferred at
\* any time.
HookNeverLocksIn ==
    \A u \in Callers : balances[u] # 0 =>
        /\ InUnstakeWindow(u) => ENABLED RedeemWithPower(u, u, balances[u])
        /\ \A v \in Users : ENABLED TransferWithPower(u, v, balances[u])

\* The composed contract implements the promise of voting power: what
\* getPowerAtBlock says of a past block is the stake that was behind each
\* delegatee when it ended.
StakeKeepsPromise == Gov!Promise!Spec

=============================================================================
