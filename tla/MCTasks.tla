------------------------------- MODULE MCTasks -------------------------------
(* Commands that operators give in one behaviour, next to each other, one     *)
(* after the other, and again after one was killed.                           *)
EXTENDS Proposals

Cmd(task, network, flags, params, env) ==
    [task |-> task, network |-> network, flags |-> flags, params |-> params, env |-> env]

Key == {"ETHERSCAN_KEY"}
Defender == {"DEFENDER_API_KEY", "DEFENDER_SECRET_KEY"}

\* Side by side: commands that share the file, and commands that share a chain.
Kovan == {Cmd("common-deployment", "kovan", {}, {}, {}),
          Cmd("initialize-StakedAave", "kovan", {}, {"admin"}, {})}
TwoNetworks == {Cmd("common-deployment", "main", {}, {"vaultAddress"}, {}),
                Cmd("deploy-AaveStakingHelper", "ropsten", {"verify"}, {}, Key)}
Unsupported == {Cmd("common-deployment", "coverage", {}, {}, {}),
                Cmd("dev-deployment", "hardhat", {}, {}, {}),
                Cmd("initialize-StakedAave", "hardhat", {}, {"admin"}, {}),
                Cmd("common-deployment", "hardhat", {"verify"}, {}, Key)}
OnTenderly == {Cmd("deploy-staked-bpt-rev2", "tenderly", {}, {}, Key),
               Cmd("common-deployment", "tenderly", {}, {"aaveAddress"}, {})}

\* One after the other.
Verified2 == {Cmd("common-deployment", "goerli", {"verify"}, {}, Key),
              Cmd("common-deployment", "goerli", {"verify"}, {}, {}),
              Cmd("deploy-StakedAave", "ropsten", {}, {}, {}),
              Cmd("verify-sc", "main", {}, {}, Key)}
Pools == {Cmd("deploy-CRP", "main", {"verify"}, {}, Key),
          Cmd("deploy-CRP", "hardhat", {}, {}, Key \cup {"MAINNET_FORK"}),
          Cmd("deploy-CRP", "kovan", {}, {}, Key \cup {"PRIVATE_KEY"}),
          Cmd("deploy-CRP", "ropsten", {}, {}, Key),
          Cmd("deploy-StakeUIHelper", "main", {}, {}, {})}

\* Proposals for main, and the scripts that rehearse them.
OnMain == {Cmd("proposal-stk-extensions", "main", {"defender"}, {}, Key \cup Defender),
           Cmd("proposal-stk-extensions", "main", {}, {"stkaaveimpl"}, Key),
           Cmd("deploy-staked-aave-rev3", "main", {"defender"}, {}, Key)}
Approvals == {Cmd("proposal-vault-approval", "main", {}, {"ipfsHash"}, {}),
              Cmd("proposal-vault-approval", "kovan", {}, {"ipfsHash"}, {}),
              Cmd("proposal-vault-approval:tenderly", "tenderly", {}, {}, {})}
Rehearsals == {Cmd("proposal-stk-aave-extension:tenderly", "tenderly", {"defender"}, {}, Key \cup Defender),
               Cmd("proposal-stk-aave-extension:tenderly", "main", {}, {}, Key \cup {"TENDERLY"}),
               Cmd("exec-stks:tenderly", "tenderly", {}, {}, {}),
               Cmd("no-exec-stks:tenderly", "tenderly", {}, {}, {}),
               Cmd("exec-stks:tenderly", "hardhat", {}, {}, {"MAINNET_FORK"})}

\* The same fork again, at the head that the command before has brought it to.
Fork == {"TENDERLY_FORK_ID", "TENDERLY_HEAD_ID"}
RehearsalsAgain ==
    {Cmd("proposal-stk-aave-extension:tenderly", "tenderly", {}, {}, Key \cup Fork),
     Cmd("proposal-vault-approval:tenderly", "main", {}, {}, Fork \cup {"TENDERLY"}),
     Cmd("exec-stks:tenderly", "tenderly", {}, {}, Fork),
     Cmd("no-exec-stks:tenderly", "tenderly", {}, {}, Fork)}
DeploymentsAgain ==
    {Cmd("deploy-StakedAave", "tenderly", {}, {}, Fork),
     Cmd("initialize-StakedAave", "tenderly", {}, {"admin"}, Fork),
     Cmd("proposal-stk-extensions", "tenderly", {}, {}, Key \cup Fork),
     Cmd("proposal-stk-aave-extension:tenderly", "tenderly", {}, {}, Key \cup Fork)}

MCSequential == {Verified2, Pools, OnMain, Rehearsals, RehearsalsAgain, DeploymentsAgain}
MCPlans == {Kovan, TwoNetworks, Unsupported, OnTenderly, Approvals} \cup MCSequential

=============================================================================
