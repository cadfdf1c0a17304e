----------------------------- MODULE TaskPrograms -----------------------------
(***************************************************************************)
(* The hardhat tasks as programs: what a task does once its command line   *)
(* and environment are known, in the order of the source.  A command is    *)
(*   [task, network, flags, params, env]                                   *)
(* with the flags, the optional parameters and the environment variables   *)
(* that are set.  A task that another one runs is a part of its program.   *)
(* A condition on the configuration that does not hold is a step that      *)
(* throws, where the code throws or exits.                                 *)
(***************************************************************************)
EXTENDS Networks, EtherscanVerification, Sequences

\* The flags a task declares, and the parameters whose presence it looks at.
Flags(task) ==
    CASE task \in {"common-deployment", "deploy-StakedAave", "deploy-AaveStakingHelper",
                  "deploy-StakeUIHelper", "deploy-CRP"} -> {"verify"}
      [] task \in {"dev-deployment", "initialize-StakedAave", "verify-sc"} -> {}
      [] OTHER -> {"defender"}

Params(task) ==
    CASE task \in {"common-deployment", "deploy-StakedAave"} -> {"vaultAddress", "aaveAddress"}
      [] task = "initialize-StakedAave" -> {"admin"}
      [] task = "proposal-stk-extensions" -> {"stkaaveimpl", "stkbptimpl"}
      [] task = "proposal-vault-approval" -> {"ipfsHash"}
      [] OTHER -> {}

\* What the tooling reads of the environment.
EnvironmentVariables ==
    {"ETHERSCAN_KEY", "DEFENDER_API_KEY", "DEFENDER_SECRET_KEY", "PRIVATE_KEY", "MAINNET_FORK",
     "TENDERLY", "TENDERLY_FORK_ID", "TENDERLY_HEAD_ID"}

Tasks ==
    {"common-deployment", "dev-deployment", "deploy-StakedAave", "initialize-StakedAave",
     "deploy-AaveStakingHelper", "deploy-StakeUIHelper", "deploy-staked-aave-rev3",
     "deploy-staked-bpt-rev2", "deploy-CRP", "verify-sc", "proposal-stk-extensions",
     "proposal-vault-approval", "proposal-stk-aave-extension:tenderly",
     "proposal-vault-approval:tenderly", "exec-stks:tenderly", "no-exec-stks:tenderly"}

Commands ==
    {c \in [task : Tasks, network : Network, flags : SUBSET {"verify", "defender"},
            params : SUBSET {"vaultAddress", "aaveAddress", "admin", "stkaaveimpl",
                             "stkbptimpl", "ipfsHash"},
            env : SUBSET EnvironmentVariables] :
        c.flags \subseteq Flags(c.task) /\ c.params \subseteq Params(c.task)}

Step(op, arg) == <<[op |-> op, arg |-> arg]>>

\* Why a program throws before it is run: the operator's configuration.
ConfigReasons == {"verification", "chain id", "admin", "secrets", "accounts", "params", "fork"}

Require(condition, reason) == IF condition THEN <<>> ELSE Step("throw", reason)

SetDRE == Step("set-dre", "")

Verify(c) == "verify" \in c.flags

\* Only a fork of tenderly signs for accounts it has no key of.
UsesTenderly(c) == c.network = "tenderly" \/ "TENDERLY" \in c.env

-----------------------------------------------------------------------------
(* helpers/contracts-helpers.ts, helpers/defender-utils.ts                   *)

\* The entry of id for the network of the command, from what was deployed.
RegisterContractInJsonDb(id, kind) ==
    Step("read", "") \o Step("write", [id |-> id, kind |-> kind])

DeployContract(kind, args) ==
    Step("deploy", [kind |-> kind, args |-> args]) \o RegisterContractInJsonDb(kind, kind)

WaitFor(kind) == Step("wait", kind)

\* checkVerification, called by a task for its flag --verify.
CheckedVerification(c) ==
    Require(Verify(c) => CheckVerification(c.network, c.env), "verification")

\* verifyContract: without a key it throws, elsewhere it only complains.
Verified(c, verify) ==
    IF ~verify THEN <<>>
    ELSE Require("ETHERSCAN_KEY" \in c.env, "verification")
         \o IF c.network \in SUPPORTED_ETHERSCAN_NETWORKS THEN Step("verify", "") ELSE <<>>

\* Fault: nobody looks at the chainId.
NoChainIdNeeded(c) == <<>>
RequireChainId(c) == Require(ChainId[c.network] # 0, "chain id")

GetDefenderRelaySigner(c) ==
    Require("defender" \in c.flags => {"DEFENDER_API_KEY", "DEFENDER_SECRET_KEY"} \subseteq c.env,
            "secrets")

-----------------------------------------------------------------------------
(* helpers/contracts-accessors.ts: contracts a task deploys.  The first and  *)
(* the stkToken implementations are registered before they are mined.        *)

DeployStakedAave(c, args, verify) == DeployContract("StakedAave", args) \o Verified(c, verify)

DeployStakedTokenV2Revision3(c, args, verify) ==
    DeployContract("StakedTokenV2Rev3", args) \o Verified(c, verify)

DeployStakedTokenBptRevision2(c, args, verify) ==
    DeployContract("StakedTokenBptRev2", args) \o Verified(c, verify)

DeployStakedTokenV3(c, args, verify) ==
    DeployContract("StakedTokenV3", args) \o Verified(c, verify)

\* Fault: the proxy is not waited for.
DeployProxyWithoutWait(c, verify) ==
    DeployContract("InitializableAdminUpgradeabilityProxy", {}) \o Verified(c, verify)

DeployInitializableAdminUpgradeabilityProxy(c, verify) ==
    DeployContract("InitializableAdminUpgradeabilityProxy", {})
    \o WaitFor("InitializableAdminUpgradeabilityProxy")
    \o Verified(c, verify)

DeployAaveStakingHelper(c, args, verify) ==
    DeployContract("AaveStakingHelper", args) \o Verified(c, verify)

DeployStakeUIHelper(c, args, verify) ==
    DeployContract("StakeUIHelper", args) \o Verified(c, verify)

\* Fault: the implementation is looked up under the name of its contract.
GetStakedAaveImplByContractName == Step("get", [as |-> "impl", id |-> "StakedAave"])

\* The address an entry of the database gives for this network.
GetStakedAaveProxy == Step("get", [as |-> "proxy", id |-> "StakedAave"])
GetStakedAaveImpl == Step("get", [as |-> "impl", id |-> "StakedAaveImpl"])

-----------------------------------------------------------------------------
(* tasks/deployments, tasks/migrations, tasks/misc                           *)

Param(c, name, default) == IF name \in c.params THEN "given" ELSE default

StakedAaveArgs(c) ==
    LET aave == Param(c, "aaveAddress", GetAaveTokenPerNetwork(c.network)) IN
    [stakedToken |-> aave, rewardsToken |-> aave,
     cooldownSeconds |-> GetCooldownSecondsPerNetwork(c.network),
     unstakeWindow |-> GetUnstakeWindowPerNetwork(c.network),
     rewardsVault |-> Param(c, "vaultAddress", GetAaveIncentivesVaultPerNetwork(c.network)),
     emissionManager |-> GetAaveAdminPerNetwork(c.network),
     distributionDuration |-> GetDistributionDurationPerNetwork(c.network)]

DeployStakedAaveTask(c) ==
    SetDRE \o CheckedVerification(c) \o RequireChainId(c)
    \o DeployStakedAave(c, StakedAaveArgs(c), FALSE)
    \o WaitFor("StakedAave")
    \o RegisterContractInJsonDb("StakedAaveImpl", "StakedAave")
    \o DeployInitializableAdminUpgradeabilityProxy(c, Verify(c))
    \o RegisterContractInJsonDb("StakedAave", "InitializableAdminUpgradeabilityProxy")

InitializeStakedAaveTask(c, admin) ==
    SetDRE \o Require(admin # "", "admin") \o RequireChainId(c)
    \o GetStakedAaveImpl \o GetStakedAaveProxy
    \o Step("initialize", admin)

CommonDeploymentTask(c) ==
    LET aaveAdmin == GetAaveAdminPerNetwork(c.network) IN
    SetDRE \o Require(aaveAdmin # "", "admin") \o CheckedVerification(c)
    \o DeployStakedAaveTask(c)
    \o InitializeStakedAaveTask(c, aaveAdmin)

DevDeploymentTask(c) == SetDRE \o DeployStakedAaveTask(c)

\* A helper of the token at the address given on the command line.
HelperTask(c, deploy, kind) ==
    SetDRE \o CheckedVerification(c) \o RequireChainId(c)
    \o deploy \o WaitFor(kind)
    \o RegisterContractInJsonDb(kind, kind)

DeployAaveStakingHelperTask(c) ==
    HelperTask(c,
        DeployAaveStakingHelper(c,
            [stkAave |-> "given", aave |-> GetAaveTokenPerNetwork(c.network)], Verify(c)),
        "AaveStakingHelper")

DeployStakeUIHelperTask(c) ==
    HelperTask(c,
        DeployStakeUIHelper(c,
            [priceOracle |-> "given", bptPriceFeed |-> ZERO_ADDRESS,
             aave |-> GetAaveTokenPerNetwork(c.network), stkAave |-> "given",
             bpt |-> ZERO_ADDRESS, stkBpt |-> ZERO_ADDRESS], Verify(c)),
        "StakeUIHelper")

\* Arguments of an implementation for the tokens of main.
RevisionArgs(stakedToken, governance) ==
    [stakedToken |-> stakedToken, rewardsToken |-> "0x7Fc6", cooldownSeconds |-> 864000,
     unstakeWindow |-> 172800, rewardsVault |-> "0x25F2", emissionManager |-> "0xEE56",
     governance |-> governance]

DeployStakedAaveRev3Task(c) ==
    SetDRE \o GetDefenderRelaySigner(c)
    \o DeployStakedTokenV2Revision3(c, RevisionArgs("0x7Fc6", ZERO_ADDRESS), TRUE)

DeployStakedBptRev2Task(c) ==
    SetDRE \o GetDefenderRelaySigner(c)
    \o DeployStakedTokenBptRevision2(c, RevisionArgs("0x41a0", "0xec56"), TRUE)

\* Accounts of the network: with a private key there is only one.
FifthAccount(c) == "PRIVATE_KEY" \in c.env => c.network \in {"hardhat", "ganache", "coverage"}

DeployCRPTask(c) ==
    SetDRE \o CheckedVerification(c) \o RequireChainId(c)
    \o Require(FifthAccount(c), "accounts")
    \o Step("newCrp", "")
    \o Step("subscribe", "")
    \o Step("awaitCrp", "")
    \o Step("tx", "approve AAVE") \o Step("tx", "approve WETH")
    \o Step("tx", "createPool") \o Step("tx", "setPublicSwap")
    \o DeployStakedTokenV3(c, RevisionArgs("CRPool", "0xec56"), TRUE)

\* The task runs set-DRE, and no task has that name.
VerifyScTask(c) == Step("throw", "unknown task")

-----------------------------------------------------------------------------
(* tasks/proposals                                                           *)

LongExecutor == [name |-> "long", duration |-> 64000, delay |-> 604800]
ShortExecutor == [name |-> "short", duration |-> 19200, delay |-> 86400]

\* Fault: the call of the first proxy is used for the second one too.
ProposeExtensionTaskSameCall(c) ==
    SetDRE \o GetDefenderRelaySigner(c)
    \o Step("create", [executor |-> LongExecutor, calls |->
            <<[target |-> "stkAave", impl |-> "StakedTokenV2Rev3"],
              [target |-> "stkBpt", impl |-> "StakedTokenV2Rev3"]>>])

ProposeExtensionTask(c) ==
    SetDRE \o GetDefenderRelaySigner(c)
    \o Step("create", [executor |-> LongExecutor, calls |->
            <<[target |-> "stkAave", impl |-> "StakedTokenV2Rev3"],
              [target |-> "stkBpt", impl |-> "StakedTokenBptRev2"]>>])

\* Fault: both implementations are deployed, or neither is.
ProposalStkExtensionsTaskOneParam(c) ==
    SetDRE \o GetDefenderRelaySigner(c)
    \o (IF "stkaaveimpl" \in c.params THEN <<>> ELSE DeployStakedAaveRev3Task(c))
    \o (IF "stkaaveimpl" \in c.params THEN <<>> ELSE DeployStakedBptRev2Task(c))
    \o ProposeExtensionTask(c)

\* Implementations that are not given are deployed first.
ProposalStkExtensionsTask(c) ==
    SetDRE \o GetDefenderRelaySigner(c)
    \o (IF "stkaaveimpl" \in c.params THEN <<>> ELSE DeployStakedAaveRev3Task(c))
    \o (IF "stkbptimpl" \in c.params THEN <<>> ELSE DeployStakedBptRev2Task(c))
    \o ProposeExtensionTask(c)

ProposeVaultApprovalTask(c) ==
    SetDRE \o GetDefenderRelaySigner(c)
    \o Step("create", [executor |-> ShortExecutor, calls |->
            <<[target |-> "stkAave", impl |-> "approve"],
              [target |-> "stkBpt", impl |-> "approve"]>>])

ProposalVaultApprovalTask(c) ==
    SetDRE \o Require("ipfsHash" \in c.params, "params") \o GetDefenderRelaySigner(c)
    \o ProposeVaultApprovalTask(c)

\* Ether for the first whale and AAVE for the proposer: so many transactions.
FundProposer(c, transactions) ==
    SetDRE \o GetDefenderRelaySigner(c)
    \o Require(UsesTenderly(c), "fork")
    \o Step("transactions", transactions)

AdvanceBlocks(n) == Step("advanceBlockTo", n)

\* Fault: queue is sent when the last blocks of the vote are still to come.
QueueAndExecuteEarly(votingDuration, delay) ==
    AdvanceBlocks(votingDuration - 3)
    \o Step("queue", "") \o Step("increaseTimeTenderly", delay + 10) \o Step("execute", "")

QueueAndExecute(votingDuration, delay) ==
    AdvanceBlocks(votingDuration + 1)
    \o Step("queue", "") \o Step("increaseTimeTenderly", delay + 10) \o Step("execute", "")

\* The id is the number of proposals there were before this one.
ProposeAndExecute(propose, executor) ==
    AdvanceBlocks(10)
    \o Step("getProposalsCount", "") \o propose
    \o AdvanceBlocks(1) \o Step("submitVote", "proposer")
    \o QueueAndExecute(executor.duration, executor.delay)

StkAaveExtensionTenderly(c) ==
    FundProposer(c, 4) \o ProposeAndExecute(ProposalStkExtensionsTask(c), LongExecutor)

VaultApprovalTenderly(c) ==
    FundProposer(c, 4)
    \o ProposeAndExecute(ProposalVaultApprovalTask([c EXCEPT !.params = @ \cup {"ipfsHash"}]),
                         ShortExecutor)

\* The turns of the holders (StakingRounds) end at the tenth, whom the list lacks.
StakingTurns == Step("throw", "undefined signer")

\* The proposal of these two scripts is number 14 of main; one of them votes,
\* queues and executes, the other lets as much time pass.
ExecStks(c) ==
    FundProposer(c, 3) \o AdvanceBlocks(10)
    \o Step("proposalId", 14)
    \o Step("submitVote", "whale") \o Step("submitVote", "whale2")
    \o QueueAndExecute(LongExecutor.duration, LongExecutor.delay)
    \o StakingTurns

NoExecStks(c) ==
    FundProposer(c, 3) \o AdvanceBlocks(10)
    \o AdvanceBlocks(LongExecutor.duration + 1)
    \o Step("increaseTimeTenderly", LongExecutor.delay + 10)
    \o StakingTurns

Program(c) ==
    CASE c.task = "common-deployment" -> CommonDeploymentTask(c)
      [] c.task = "dev-deployment" -> DevDeploymentTask(c)
      [] c.task = "deploy-StakedAave" -> DeployStakedAaveTask(c)
      [] c.task = "initialize-StakedAave" -> InitializeStakedAaveTask(c, Param(c, "admin", ""))
      [] c.task = "deploy-AaveStakingHelper" -> DeployAaveStakingHelperTask(c)
      [] c.task = "deploy-StakeUIHelper" -> DeployStakeUIHelperTask(c)
      [] c.task = "deploy-staked-aave-rev3" -> DeployStakedAaveRev3Task(c)
      [] c.task = "deploy-staked-bpt-rev2" -> DeployStakedBptRev2Task(c)
      [] c.task = "deploy-CRP" -> DeployCRPTask(c)
      [] c.task = "verify-sc" -> VerifyScTask(c)
      [] c.task = "proposal-stk-extensions" -> ProposalStkExtensionsTask(c)
      [] c.task = "proposal-vault-approval" -> ProposalVaultApprovalTask(c)
      [] c.task = "proposal-stk-aave-extension:tenderly" -> StkAaveExtensionTenderly(c)
      [] c.task = "proposal-vault-approval:tenderly" -> VaultApprovalTenderly(c)
      [] c.task = "exec-stks:tenderly" -> ExecStks(c)
      [] c.task = "no-exec-stks:tenderly" -> NoExecStks(c)

=============================================================================
