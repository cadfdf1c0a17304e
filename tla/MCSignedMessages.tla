--------------------------- MODULE MCSignedMessages ---------------------------
(* An owner's messages for two accounts: two permits and two delegations that  *)
(* compete for two nonces, and one that expires early.                         *)
EXTENDS SignedMessages

CONSTANTS owner, other

VotingOnly == {VOTING_POWER}
MCBalances == [u \in Users |-> IF u = owner THEN 1 ELSE 0]

MCPermit(nonce, deadline) ==
    [owner |-> owner, spender |-> other, value |-> 1, nonce |-> nonce, deadline |-> deadline]
MCDelegation(delegatee, nonce, deadline) ==
    [owner |-> owner, delegatee |-> delegatee, types |-> Types, nonce |-> nonce,
     deadline |-> deadline]

MCPermits == {MCPermit(0, 2), MCPermit(1, 3)}
MCDelegations == {MCDelegation(other, 0, 3), MCDelegation(owner, 1, 2)}

=============================================================================
