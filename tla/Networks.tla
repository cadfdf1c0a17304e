------------------------------- MODULE Networks -------------------------------
(***************************************************************************)
(* The networks the tooling knows and what it configures on each of them:  *)
(* hardhat.config.ts, the tables of helpers/constants.ts and the lookup    *)
(* getParamPerNetwork.  An address is a name; 0 stands for undefined.      *)
(***************************************************************************)
EXTENDS Integers

ZERO_ADDRESS == "0x0"

\* networks of hardhat.config.ts with the chainId each one sets.
ChainId ==
    [tenderly |-> 3030, kovan |-> 42, ropsten |-> 3, goerli |-> 5, main |-> 1,
     hardhat |-> 31337, ganache |-> 0, coverage |-> 0]

Network == DOMAIN ChainId

\* Fault: a network without a row of its own reads its own row.
GetParamPerNetworkByName(params, network) == params[network]

\* The destructuring drops the coverage row; whatever is not listed is main.
GetParamPerNetwork(params, network) ==
    params[IF network \in {"hardhat", "kovan", "goerli", "ropsten"} THEN network ELSE "main"]

AaveToken ==
    [coverage |-> ZERO_ADDRESS, hardhat |-> ZERO_ADDRESS, kovan |-> "0xe448",
     goerli |-> "0x8153", ropsten |-> "0x74dA", main |-> "0x9c04"]
GetAaveTokenPerNetwork(network) == GetParamPerNetwork(AaveToken, network)

CooldownSeconds ==
    [coverage |-> 3600, hardhat |-> 3600, kovan |-> 21600, goerli |-> 180,
     ropsten |-> 180, main |-> 864000]
GetCooldownSecondsPerNetwork(network) == GetParamPerNetwork(CooldownSeconds, network)

UnstakeWindow ==
    [coverage |-> 1800, hardhat |-> 1800, kovan |-> 10800, goerli |-> 240,
     ropsten |-> 240, main |-> 172800]
GetUnstakeWindowPerNetwork(network) == GetParamPerNetwork(UnstakeWindow, network)

\* On goerli nobody is the admin, and a string of zeros is not undefined.
AaveAdmin ==
    [coverage |-> ZERO_ADDRESS, hardhat |-> ZERO_ADDRESS, kovan |-> "0x8134",
     goerli |-> ZERO_ADDRESS, ropsten |-> "0xEd93", main |-> "0x8a2E"]
GetAaveAdminPerNetwork(network) == GetParamPerNetwork(AaveAdmin, network)

DistributionDuration ==
    [coverage |-> 86400, hardhat |-> 86400, kovan |-> 864000, goerli |-> 864000,
     ropsten |-> 864000, main |-> 12960000]
GetDistributionDurationPerNetwork(network) == GetParamPerNetwork(DistributionDuration, network)

AaveIncentivesVault ==
    [coverage |-> ZERO_ADDRESS, hardhat |-> ZERO_ADDRESS, kovan |-> ZERO_ADDRESS,
     goerli |-> ZERO_ADDRESS, ropsten |-> ZERO_ADDRESS, main |-> "0x253f"]
GetAaveIncentivesVaultPerNetwork(network) == GetParamPerNetwork(AaveIncentivesVault, network)

=============================================================================
