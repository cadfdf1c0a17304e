---------------------------- MODULE MCStakedTokenV2 ----------------------------
(* Two users of a token that emits nothing, so that the states are those of   *)
(* stakes, cooldowns and delegations.                                         *)
EXTENDS StakedTokenV2, TLC

VotingOnly == {"VOTING_POWER"}
MCSymmetry == Permutations(Users)

=============================================================================
