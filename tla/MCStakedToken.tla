----------------------------- MODULE MCStakedToken -----------------------------
(* Two users of a token staked for itself (stkAAVE: STAKED_TOKEN is also      *)
(* REWARD_TOKEN) with a cooldown of one second and a window of two, within    *)
(* the bounds of one of two scenarios.  Rewards: a distribution starts after  *)
(* the first second, is reconfigured and ends, two seconds before the last.   *)
(* Cooldowns: nothing is emitted, and what is left to interleave is stakes,   *)
(* transfers, cooldowns and redeems of more tokens, which may be paid back to *)
(* the users and staked again.  The contract may itself be paid in both.      *)
EXTENDS StakedToken, TLC

CONSTANTS u1, u2

MCUsers == {u1, u2}
MCRecipients == {SELF, u1, u2}
MCSymmetry == Permutations(MCUsers)

VARIABLE scenario   \* the bounds of this behaviour

Rewards == INSTANCE StakedToken WITH Amounts <- {1, 2}, Recipients <- {SELF}, UserFunds <- 1
Cooldowns == INSTANCE StakedToken WITH Emissions <- {0}, Quotes <- {0}, VaultFunds <- 0

MCInit ==
    \/ scenario = "rewards" /\ Rewards!Init
    \/ scenario = "cooldowns" /\ Cooldowns!Init

MCNext ==
    /\ \/ scenario = "rewards" /\ Rewards!Next
       \/ scenario = "cooldowns" /\ Cooldowns!Next
    /\ UNCHANGED scenario

MCSpec == MCInit /\ [][MCNext]_<<vars, scenario>>

\* With rewards, none are emitted in the first second, and a cooldown begins in
\* the first or third one: redeems are possible while the distribution goes on,
\* from the third second to the last.
MCBound ==
    scenario = "rewards" =>
        /\ now = GENESIS => assetData.emissionPerSecond = 0 /\ ~underquoted
        /\ \A u \in Users : activatedAt[u] \in {0, GENESIS, GENESIS + 2}

=============================================================================
