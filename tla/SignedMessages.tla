---------------------------- MODULE SignedMessages ----------------------------
(***************************************************************************)
(* Acting for somebody else's account: allowances (approve, transferFrom), *)
(* permit, and delegation by signature, on top of the token as governance  *)
(* sees it.                                                                *)
(*                                                                         *)
(* A signed message is at large from the start: the contract cannot know   *)
(* when it was signed, anybody may submit it, in any order, at any time    *)
(* and again.  Permits and delegations count with one nonce per owner.  An *)
(* action named BySig or Permit is the submission of one message, whoever  *)
(* sends it; ecrecover finds the owner of the messages in Permits and      *)
(* Delegations and no other account of Users.                              *)
(***************************************************************************)
EXTENDS GovernancePowerDelegation, FiniteSets

CONSTANTS
    Spenders,      \* accounts and contracts that are given allowances
    Permits,       \* signed messages of permit
    Delegations,   \* those of delegateBySig and delegateByTypeBySig
    MAX_GRANTED    \* bound: what an owner grants one spender by transactions

VARIABLES
    allowances,
    nonces         \* _nonces

\* History variables: no transaction reads them.
VARIABLES
    executed,   \* the messages of an owner that took effect, in order
    granted,    \* what an owner gave a spender by its own transactions
    spent       \* what a spender took by transferFrom

historyVars == <<executed, granted, spent>>
signedVars == <<allowances, nonces, historyVars>>
allVars == <<vars, signedVars>>

\* A deadline is a block here where it is a time in the code.
ASSUME SignedAssumption ==
    /\ IsFiniteSet(Permits)
    /\ Permits \subseteq [owner : Users, spender : Spenders, value : Nat,
                          nonce : Nat, deadline : Nat]
    /\ Delegations \subseteq [owner : Users, delegatee : Users, types : SUBSET Types,
                              nonce : Nat, deadline : Nat]
    /\ MAX_GRANTED \in Nat

InitSigned ==
    /\ Init
    /\ allowances = [o \in Users |-> [s \in Spenders |-> 0]]
    /\ nonces = [o \in Users |-> 0]
    /\ executed = [o \in Users |-> <<>>]
    /\ granted = [o \in Users |-> [s \in Spenders |-> 0]]
    /\ spent = [o \in Users |-> [s \in Spenders |-> 0]]

----------------------------------------------------------------------------
(* Allowances. *)

\* _approve, with what the owner grants by it for the history.
SetAllowance(owner, spender, amount, grant) ==
    /\ granted[owner][spender] + grant <= MAX_GRANTED
    /\ allowances' = [allowances EXCEPT ![owner][spender] = amount]
    /\ granted' = [granted EXCEPT ![owner][spender] = @ + grant]
    /\ UNCHANGED <<vars, nonces, executed, spent>>

Approve(owner, spender, amount) == SetAllowance(owner, spender, amount, amount)

IncreaseAllowance(owner, spender, addedValue) ==
    SetAllowance(owner, spender, allowances[owner][spender] + addedValue, addedValue)

\* Fault: the subtraction is not checked.
DecreaseAllowanceUnchecked(owner, spender, subtractedValue) ==
    SetAllowance(owner, spender, allowances[owner][spender] - subtractedValue, 0)

DecreaseAllowance(owner, spender, subtractedValue) ==
    /\ allowances[owner][spender] >= subtractedValue
    /\ SetAllowance(owner, spender, allowances[owner][spender] - subtractedValue, 0)

\* Fault: the allowance is tested and not lowered.
TransferFromKeepingAllowance(spender, from, to, amount) ==
    /\ Transfer(from, to, amount)
    /\ allowances[from][spender] >= amount
    /\ spent' = [spent EXCEPT ![from][spender] = @ + amount]
    /\ UNCHANGED <<allowances, nonces, executed, granted>>

TransferFrom(spender, from, to, amount) ==
    /\ Transfer(from, to, amount)
    /\ allowances[from][spender] >= amount
    /\ allowances' = [allowances EXCEPT ![from][spender] = @ - amount]
    /\ spent' = [spent EXCEPT ![from][spender] = @ + amount]
    /\ UNCHANGED <<nonces, executed, granted>>

----------------------------------------------------------------------------
(* Messages. *)

\* Fault: a nonce in the past is taken as well.
AcceptOldNonce(m) ==
    /\ blockNumber <= m.deadline
    /\ m.nonce <= nonces[m.owner]
    /\ nonces' = [nonces EXCEPT ![m.owner] = @ + 1]
    /\ executed' = [executed EXCEPT ![m.owner] = Append(@, m)]

\* The nonce, the deadline and the next nonce.  permit computes the digest with
\* the current nonce, so that only a message signed for it recovers the owner;
\* the delegations compare the nonce they are given.
Accept(m) ==
    /\ blockNumber <= m.deadline
    /\ m.nonce = nonces[m.owner]
    /\ nonces' = [nonces EXCEPT ![m.owner] = @ + 1]
    /\ executed' = [executed EXCEPT ![m.owner] = Append(@, m)]

Permit(m) ==
    /\ Accept(m)
    /\ allowances' = [allowances EXCEPT ![m.owner][m.spender] = m.value]
    /\ UNCHANGED <<vars, granted, spent>>

\* Both delegateBySig (all types) and delegateByTypeBySig (one).
DelegateBySig(m) ==
    /\ Accept(m)
    /\ DelegateTypes(m.owner, m.delegatee, m.types)
    /\ UNCHANGED <<allowances, granted, spent>>

NextSigned ==
    \/ Next /\ UNCHANGED signedVars
    \/ \E owner \in Users, spender \in Spenders, amount \in Amounts \cup {0} :
           Approve(owner, spender, amount)
    \/ \E owner \in Users, spender \in Spenders, amount \in Amounts :
           IncreaseAllowance(owner, spender, amount) \/ DecreaseAllowance(owner, spender, amount)
    \/ \E spender \in Spenders, from, to \in Users, amount \in Amounts :
           TransferFrom(spender, from, to, amount)
    \/ \E m \in Permits : Permit(m)
    \/ \E m \in Delegations : DelegateBySig(m)

SpecSigned == InitSigned /\ [][NextSigned]_allVars

----------------------------------------------------------------------------
(* Correctness. *)

\* Every variable has its type.
SignedTypeOK ==
    /\ allowances \in [Users -> [Spenders -> Nat]]
    /\ nonces \in [Users -> Nat]
    /\ executed \in [Users -> Seq(Permits \cup Delegations)]
    /\ granted \in [Users -> [Spenders -> Nat]]
    /\ spent \in [Users -> [Spenders -> Nat]]

\* The messages of an owner take effect in the order of their nonces, without
\* a gap, each once, whatever the order in which they are submitted: a second
\* submission of any, or the submission of one signed for a nonce that another
\* kind of message took, has no effect.
InOrderOfNonces ==
    \A owner \in Users :
        /\ Len(executed[owner]) = nonces[owner]
        /\ \A i \in DOMAIN executed[owner] : executed[owner][i].nonce = i - 1

\* What the distinct permits that took effect allow a spender.
PermittedValue(owner, spender) ==
    SumFunction([m \in Permits |->
        IF m \in Range(executed[owner]) /\ m.spender = spender THEN m.value ELSE 0])

\* Nobody takes more of another's stake than that owner approved in
\* transactions and signed for, each signature counted once: neither a second
\* submission nor any order of approvals, permits and transfers lets an
\* allowance be spent twice.
SpentWithinGrants ==
    \A owner \in Users, spender \in Spenders :
        allowances[owner][spender] + spent[owner][spender]
            <= granted[owner][spender] + PermittedValue(owner, spender)

\* A message that is signed for the current nonce can be executed until its
\* deadline, whatever happened to balances, power and delegations since: no
\* move of power it makes can revert.
MessagesStayGood ==
    \A m \in Permits \cup Delegations :
        m.nonce = nonces[m.owner] /\ blockNumber <= m.deadline =>
            ENABLED (IF m \in Permits THEN Permit(m) ELSE DelegateBySig(m))

\* Power stays the balance behind each delegatee (PowerIsDelegatedBalance) and
\* the power of past blocks a fact (VotingPower), when others submit
\* delegations and transfer within their allowance.
SignedKeepsPromise == Promise!Spec

=============================================================================
