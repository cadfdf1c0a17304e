---------------------------- MODULE VotingUpgrade ----------------------------
(***************************************************************************)
(* stkAAVE from the first StakedToken to StakedTokenV2.  The first one     *)
(* keeps snapshots of balances (ERC20WithSnapshot) and knows no delegation; *)
(* the upgrade changes the code under the same storage, where the balance  *)
(* snapshots lie in the slots of _votingSnapshots.  From then on           *)
(* GovernancePowerDelegation runs on what was written before, and nothing  *)
(* ever was in the proposition snapshots.                                  *)
(***************************************************************************)
EXTENDS GovernancePowerDelegation

VARIABLE revision   \* REVISION of the implementation, 1 or 2

upgradeVars == <<vars, revision>>

\* What exists when the run begins is within the bound on what is minted.
ASSUME VotingUpgradeAssumption ==
    /\ VOTING_POWER \in Types
    /\ SumFunction(InitialBalances) <= MAX_SUPPLY

InitUpgrade == Init /\ revision = 1

----------------------------------------------------------------------------
(* The first StakedToken. *)

\* Fault: no early return, so that a transfer to oneself writes both changes
\* of one balance.
TouchedByTransferAlways(from, to) == {from, to} \ {ZERO}

\* The accounts whose balance changes; address(0) has no snapshots.
TouchedByTransfer(from, to) == IF from = to THEN {} ELSE {from, to} \ {ZERO}

\* _writeSnapshot of ERC20WithSnapshot: the log of balances is the one that
\* voting power goes on with.
WriteBalanceSnapshot(u, newBalance) == WriteSnapshot(snapshots[VOTING_POWER][u], newBalance)

\* _beforeTokenTransfer of ERC20WithSnapshot: balances still are what they
\* were, and the snapshot takes what they will be.
BeforeTokenTransferV1(from, to, amount) ==
    LET touched == TouchedByTransfer(from, to) IN
    /\ from \in touched => balances[from] >= amount
    /\ snapshots' = [snapshots EXCEPT ![VOTING_POWER] = [u \in Users |->
           CASE u \in touched /\ u = to -> WriteBalanceSnapshot(u, balances[u] + amount)
             [] u \in touched /\ u # to -> WriteBalanceSnapshot(u, balances[u] - amount)
             [] OTHER                   -> @[u]]]
    /\ UNCHANGED delegates

\* What stake, redeem and _transfer do to balances and snapshots; what they
\* do to rewards and cooldowns is in StakedToken.
StakeV1(to, amount) ==
    /\ TotalSupply + amount <= MAX_SUPPLY
    /\ BeforeTokenTransferV1(ZERO, to, amount)
    /\ balances' = [balances EXCEPT ![to] = @ + amount]
    /\ UNCHANGED <<blockNumber, revision>>

RedeemV1(from, amount) ==
    /\ BeforeTokenTransferV1(from, ZERO, amount)
    /\ balances[from] >= amount
    /\ balances' = [balances EXCEPT ![from] = @ - amount]
    /\ UNCHANGED <<blockNumber, revision>>

TransferV1(from, to, amount) ==
    /\ BeforeTokenTransferV1(from, to, amount)
    /\ balances[from] >= amount
    /\ balances' = [balances EXCEPT ![from] = @ - amount, ![to] = @ + amount]
    /\ UNCHANGED <<blockNumber, revision>>

----------------------------------------------------------------------------
(* The upgrade, at any block, and what follows. *)

\* upgradeToAndCall with initialize of StakedTokenV2, which touches neither
\* balances nor snapshots.
Upgrade ==
    /\ revision = 1
    /\ revision' = 2
    /\ UNCHANGED vars

NextV1 ==
    /\ revision = 1
    /\ \/ \E u \in Users, amount \in Amounts : StakeV1(u, amount) \/ RedeemV1(u, amount)
       \/ \E from, to \in Users, amount \in Amounts \cup {0} : TransferV1(from, to, amount)
       \/ NextBlock /\ UNCHANGED revision

NextV2 == revision = 2 /\ Next /\ UNCHANGED revision

NextUpgrade == NextV1 \/ Upgrade \/ NextV2

SpecUpgrade == InitUpgrade /\ [][NextUpgrade]_upgradeVars

----------------------------------------------------------------------------
(* Correctness.  PowerIsDelegatedBalance is required in both revisions. *)

VotingPromise == INSTANCE VotingPower WITH
    Types     <- {VOTING_POWER},
    delegatee <- [type \in {VOTING_POWER} |-> [u \in Users |-> GetDelegatee(type, u)]],
    block     <- blockNumber,
    past      <- [b \in 1..(blockNumber - 1) |-> [type \in {VOTING_POWER} |->
                     [u \in Users |-> GetPowerAtBlock(u, b, type)]]]

\* Voting power keeps its promise across the upgrade: what the second
\* implementation answers about a block of the first is the balance everybody
\* had at its end, also for an upgrade, a transfer and a delegation in one
\* block.
VotingKeepsPromise == VotingPromise!Spec

\* Proposition power at a past block never changes either, as the comment of
\* getPowerAtBlock has it ("the delegated power of a user at a certain
\* block").  The stakers of the first StakedToken refute it: until their
\* first proposition snapshot their power at past blocks is their balance of
\* now, and from then on it is zero.
PropositionPastIsFixed ==
    [][ revision = 2 =>
          \A u \in Users, b \in 1..(blockNumber - 1) :
              GetPowerAtBlock(u, b, PROPOSITION_POWER)'
                  = GetPowerAtBlock(u, b, PROPOSITION_POWER) ]_upgradeVars

=============================================================================
