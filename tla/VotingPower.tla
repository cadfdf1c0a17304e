----------------------------- MODULE VotingPower -----------------------------
(***************************************************************************)
(* What a token with delegated governance power promises to the voting     *)
(* contracts, without snapshots: the power of an account is what the       *)
(* accounts that chose it as delegatee hold, and once a block is over, the *)
(* power everybody had at its end is a fact that no later step changes.    *)
(*                                                                         *)
(* GovernancePowerDelegation implements this specification.                *)
(***************************************************************************)
EXTENDS Naturals, Sequences, Functions

CONSTANTS Users, Types, InitialBalances, MAX_SUPPLY, MAX_BLOCK

VARIABLES
    balances,
    delegatee,   \* by type, the account each user's balance counts for
    block,       \* the block being built; blocks are counted from 1
    past         \* past[b][type][u]: the power of u at the end of block b

vars == <<balances, delegatee, block, past>>

Power(type, u) ==
    SumFunction([v \in Users |-> IF delegatee[type][v] = u THEN balances[v] ELSE 0])

AllPower == [type \in Types |-> [u \in Users |-> Power(type, u)]]

Init ==
    /\ balances = InitialBalances
    /\ delegatee = [type \in Types |-> [u \in Users |-> u]]
    /\ block = 2
    /\ past = <<AllPower>>

\* Tokens are minted, burned or moved: any change of balances.
ChangeBalances ==
    /\ balances' \in [Users -> 0..MAX_SUPPLY]
    /\ UNCHANGED <<delegatee, block, past>>

\* One account chooses a delegatee, for one type or for all.
ChooseDelegatee(u, v, types) ==
    /\ delegatee' = [type \in Types |->
           IF type \in types THEN [delegatee[type] EXCEPT ![u] = v] ELSE delegatee[type]]
    /\ UNCHANGED <<balances, block, past>>

EndBlock ==
    /\ block < MAX_BLOCK
    /\ block' = block + 1
    /\ past' = Append(past, AllPower)
    /\ UNCHANGED <<balances, delegatee>>

Next ==
    \/ ChangeBalances
    \/ \E u, v \in Users, types \in SUBSET Types : ChooseDelegatee(u, v, types)
    \/ EndBlock

Spec == Init /\ [][Next]_vars

=============================================================================
