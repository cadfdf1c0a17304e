---------------------- MODULE GovernancePowerDelegation ----------------------
(***************************************************************************)
(* GovernancePowerDelegationERC20 and the _beforeTokenTransfer hook of     *)
(* StakedTokenV2: two kinds of power, each delegated on its own, kept as   *)
(* one sequence of snapshots per account and found by binary search.       *)
(*                                                                         *)
(* The module stands for the token as governance sees it: balances change  *)
(* by mint, burn and transfer, each of which calls the hook while balances *)
(* still are what they were.  StakedTokenV2.tla puts the hook under the    *)
(* real stake, redeem and transfer.                                        *)
(***************************************************************************)
EXTENDS Integers, Sequences, Functions, FiniteSets

CONSTANTS
    Users,
    Types,            \* the kinds of power a run follows; no kind reads the
                      \* delegates or snapshots of the other
    ZERO,             \* address(0)
    InitialBalances,  \* balances before the first block of a run
    Amounts,          \* bound: amounts a transaction may carry
    MAX_SUPPLY,       \* bound: supply above which nothing is minted
    MAX_BLOCK         \* bound: last block

VARIABLES
    balances,
    delegates,    \* _votingDelegates and _propositionPowerDelegates
    snapshots,    \* _votingSnapshots and _propositionPowerSnapshots
    blockNumber

powerVars == <<delegates, snapshots>>
vars == <<balances, powerVars, blockNumber>>

VOTING_POWER == "VOTING_POWER"
PROPOSITION_POWER == "PROPOSITION_POWER"
DelegationType == {VOTING_POWER, PROPOSITION_POWER}

Snapshot == [blockNumber : Nat, value : Nat]

ASSUME GovernanceAssumption ==
    /\ IsFiniteSet(Users)
    /\ Types \subseteq DelegationType
    /\ ZERO \notin Users
    /\ InitialBalances \in [Users -> Nat]
    /\ Amounts \subseteq Nat
    /\ MAX_SUPPLY \in Nat
    /\ MAX_BLOCK \in Nat

TotalSupply == SumFunction(balances)

\* Balances minted before the upgrade have voting snapshots, which the first
\* StakedToken wrote, and no proposition snapshots.
Init ==
    /\ balances = InitialBalances
    /\ delegates = [type \in Types |-> [u \in Users |-> ZERO]]
    /\ snapshots = [type \in Types |-> [u \in Users |->
           IF type = VOTING_POWER /\ InitialBalances[u] # 0
           THEN <<[blockNumber |-> 1, value |-> InitialBalances[u]]>> ELSE <<>>]]
    /\ blockNumber = 2

----------------------------------------------------------------------------
(* Delegation and snapshots. *)

\* The account that holds the power of u's balance; address(0), the other
\* side of mint and burn, has none.
GetDelegatee(type, u) ==
    IF u = ZERO THEN ZERO
    ELSE IF delegates[type][u] = ZERO THEN u ELSE delegates[type][u]

Latest(log) == log[Len(log)]

\* Fault: an account without snapshots is taken to have no power.
PreviousPowerFromZero(type, u) ==
    IF snapshots[type][u] = <<>> THEN 0 ELSE Latest(snapshots[type][u]).value

\* The value a change starts from: the last snapshot, and without any the
\* balance before the transaction.
PreviousPower(type, u) ==
    IF snapshots[type][u] = <<>> THEN balances[u] ELSE Latest(snapshots[type][u]).value

\* Fault: a second write in one block adds a second snapshot for the block.
WriteSnapshotAlwaysAppend(log, newValue) ==
    Append(log, [blockNumber |-> blockNumber, value |-> newValue])

\* Fault: the last snapshot is overwritten whatever its block.
WriteSnapshotAlwaysOverwrite(log, newValue) ==
    IF log # <<>> THEN [log EXCEPT ![Len(log)].value = newValue]
    ELSE Append(log, [blockNumber |-> blockNumber, value |-> newValue])

\* A second write in one block replaces the first.
WriteSnapshot(log, newValue) ==
    IF log # <<>> /\ Latest(log).blockNumber = blockNumber
    THEN [log EXCEPT ![Len(log)].value = newValue]
    ELSE Append(log, [blockNumber |-> blockNumber, value |-> newValue])

\* The snapshots of one type once amount has moved between two delegatees.
MoveDelegatesByType(type, from, to, amount) ==
    [u \in Users |->
        CASE from # to /\ u = from ->
               WriteSnapshot(snapshots[type][u], PreviousPower(type, u) - amount)
          [] from # to /\ u = to ->
               WriteSnapshot(snapshots[type][u], PreviousPower(type, u) + amount)
          [] OTHER -> snapshots[type][u]]

\* previous.sub(amount) reverts below zero.
CanMoveDelegates(type, from, to, amount) ==
    from \notin {to, ZERO} => PreviousPower(type, from) >= amount

\* Fault: the power of the token's owners moves, not that of their delegatees.
BeforeTokenTransferOwners(from, to, amount) ==
    /\ \A type \in Types : CanMoveDelegates(type, from, to, amount)
    /\ snapshots' = [type \in Types |-> MoveDelegatesByType(type, from, to, amount)]
    /\ UNCHANGED delegates

BeforeTokenTransfer(from, to, amount) ==
    /\ \A type \in Types :
           CanMoveDelegates(type, GetDelegatee(type, from), GetDelegatee(type, to), amount)
    /\ snapshots' = [type \in Types |->
           MoveDelegatesByType(type, GetDelegatee(type, from), GetDelegatee(type, to), amount)]
    /\ UNCHANGED delegates

----------------------------------------------------------------------------
(* Reading a power. *)

\* Fault: a snapshot of the very block that is asked for is passed over.
BinarySearchSkipsEqual(log, b) ==
    LET search[bounds \in (1..Len(log)) \X (1..Len(log))] ==
            LET lower  == bounds[1]
                upper  == bounds[2]
                center == upper - (upper - lower) \div 2
            IN  IF upper <= lower THEN log[lower].value
                ELSE IF log[center].blockNumber < b THEN search[<<center, upper>>]
                ELSE search[<<lower, center - 1>>]
    IN  search[<<1, Len(log)>>]

\* The loop of _searchByBlockNumber, on a log indexed from 1.
BinarySearch(log, b) ==
    LET search[bounds \in (1..Len(log)) \X (1..Len(log))] ==
            LET lower  == bounds[1]
                upper  == bounds[2]
                center == upper - (upper - lower) \div 2
            IN  IF upper <= lower THEN log[lower].value
                ELSE IF log[center].blockNumber = b THEN log[center].value
                ELSE IF log[center].blockNumber < b THEN search[<<center, upper>>]
                ELSE search[<<lower, center - 1>>]
    IN  search[<<1, Len(log)>>]

SearchByBlockNumber(type, u, b) ==
    LET log == snapshots[type][u] IN
    IF log = <<>> THEN balances[u]
    ELSE IF Latest(log).blockNumber <= b THEN Latest(log).value
    ELSE IF log[1].blockNumber > b THEN 0
    ELSE BinarySearch(log, b)

GetPowerAtBlock(u, b, type) == SearchByBlockNumber(type, u, b)
GetPowerCurrent(u, type) == SearchByBlockNumber(type, u, blockNumber)

----------------------------------------------------------------------------
(* Transactions. *)

Mint(to, amount) ==
    /\ TotalSupply + amount <= MAX_SUPPLY
    /\ BeforeTokenTransfer(ZERO, to, amount)
    /\ balances' = [balances EXCEPT ![to] = @ + amount]
    /\ UNCHANGED blockNumber

\* Fault: only the power is checked, not the balance.
BurnUnchecked(from, amount) ==
    /\ BeforeTokenTransfer(from, ZERO, amount)
    /\ balances' = [balances EXCEPT ![from] = @ - amount]
    /\ UNCHANGED blockNumber

Burn(from, amount) ==
    /\ BeforeTokenTransfer(from, ZERO, amount)
    /\ balances[from] >= amount
    /\ balances' = [balances EXCEPT ![from] = @ - amount]
    /\ UNCHANGED blockNumber

Transfer(from, to, amount) ==
    /\ BeforeTokenTransfer(from, to, amount)
    /\ balances[from] >= amount
    /\ balances' = [balances EXCEPT ![from] = @ - amount, ![to] = @ + amount]
    /\ UNCHANGED blockNumber

\* _delegateByType for each type of types; the powers are independent, so the
\* order in which delegate() treats them does not matter.
DelegateTypes(delegator, delegatee, types) ==
    /\ \A type \in types :
           CanMoveDelegates(type, GetDelegatee(type, delegator), delegatee, balances[delegator])
    /\ delegates' = [type \in Types |->
           IF type \in types THEN [delegates[type] EXCEPT ![delegator] = delegatee]
                             ELSE delegates[type]]
    /\ snapshots' = [type \in Types |->
           IF type \in types
           THEN MoveDelegatesByType(type, GetDelegatee(type, delegator), delegatee,
                                    balances[delegator])
           ELSE snapshots[type]]
    /\ UNCHANGED <<balances, blockNumber>>

DelegateByType(delegator, delegatee, type) == DelegateTypes(delegator, delegatee, {type})

Delegate(delegator, delegatee) == DelegateTypes(delegator, delegatee, Types)

NextBlock ==
    /\ blockNumber < MAX_BLOCK
    /\ blockNumber' = blockNumber + 1
    /\ UNCHANGED <<balances, powerVars>>

Next ==
    \/ \E u \in Users, amount \in Amounts : Mint(u, amount) \/ Burn(u, amount)
    \/ \E from, to \in Users, amount \in Amounts : Transfer(from, to, amount)
    \/ \E u, v \in Users, type \in Types : DelegateByType(u, v, type)
    \/ \E u, v \in Users : Delegate(u, v)
    \/ NextBlock

Spec == Init /\ [][Next]_vars

----------------------------------------------------------------------------
(* Correctness. *)

\* Every variable has its type.
TypeOK ==
    /\ balances \in [Users -> Nat]
    /\ delegates \in [Types -> [Users -> Users \cup {ZERO}]]
    /\ snapshots \in [Types -> [Users -> Seq(Snapshot)]]
    /\ blockNumber \in Nat

\* The power delegated to u: the balances of those who chose u, and of u
\* itself unless it chose somebody else.
DelegatedBalance(type, u) ==
    SumFunction([v \in Users |-> IF GetDelegatee(type, v) = u THEN balances[v] ELSE 0])

\* No power is lost, created or counted twice: the incremental updates of the
\* snapshots, in any order of mints, burns, transfers and delegations, agree
\* with the balances behind each delegatee.
PowerIsDelegatedBalance ==
    \A type \in Types, u \in Users : GetPowerCurrent(u, type) = DelegatedBalance(type, u)

\* The snapshots of an account are in strictly increasing block order, none
\* later than the current block: what the binary search needs.
SnapshotsOrdered ==
    \A type \in Types, u \in Users :
        LET log == snapshots[type][u] IN
        /\ \A i, j \in DOMAIN log : i < j => log[i].blockNumber < log[j].blockNumber
        /\ \A i \in DOMAIN log : log[i].blockNumber <= blockNumber

\* The power everybody had at a past block, as getPowerAtBlock tells it.
PastPower ==
    [b \in 1..(blockNumber - 1) |-> [type \in Types |-> [u \in Users |->
        GetPowerAtBlock(u, b, type)]]]

Promise == INSTANCE VotingPower WITH
    delegatee <- [type \in Types |-> [u \in Users |-> GetDelegatee(type, u)]],
    block     <- blockNumber,
    past      <- PastPower

\* Snapshots and binary search implement the promise: at every block, what
\* they say about any earlier block is the power everybody had at its end.
KeepsPromise == Promise!Spec

=============================================================================
