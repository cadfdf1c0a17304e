------------------------------ MODULE TaskProofs ------------------------------
(***************************************************************************)
(* Theorems about the deployment tooling, for every plan of commands and   *)
(* any number of processes.  First what holds of the program of any        *)
(* command, from the parts it is put together of; then what its steps keep. *)
(***************************************************************************)
EXTENDS Proposals, SequenceTheorems, TLAPS

-----------------------------------------------------------------------------
(* Programs and their parts                                                  *)

IsSequence(s) == Len(s) \in Nat /\ s = [i \in 1..Len(s) |-> s[i]]

\* A program whose parts are programs has the steps of the first, then those of
\* the second.
LEMMA ConcatProgram ==
    ASSUME NEW s, NEW t, IsSequence(s), IsSequence(t)
    PROVE  /\ IsSequence(s \o t)
           /\ Len(s \o t) = Len(s) + Len(t)
           /\ \A i \in 1..Len(s) : (s \o t)[i] = s[i]
           /\ \A i \in 1..Len(t) : (s \o t)[Len(s) + i] = t[i]
<1> DEFINE S == {s[i] : i \in 1..Len(s)} \cup {t[i] : i \in 1..Len(t)}
<1>1. s \in Seq(S)
    <2>1. \A i \in 1..Len(s) : s[i] \in S
        OBVIOUS
    <2> HIDE DEF S
    <2> QED  BY <2>1, IsASeq DEF IsSequence
<1>2. t \in Seq(S)
    <2>1. \A i \in 1..Len(t) : t[i] \in S
        OBVIOUS
    <2> HIDE DEF S
    <2> QED  BY <2>1, IsASeq DEF IsSequence
<1> HIDE DEF S
<1>3. /\ s \o t \in Seq(S)
      /\ Len(s \o t) = Len(s) + Len(t)
      /\ \A i \in 1..Len(s) + Len(t) :
            (s \o t)[i] = IF i <= Len(s) THEN s[i] ELSE t[i - Len(s)]
    BY <1>1, <1>2, ConcatProperties
<1>4. IsSequence(s \o t)
    BY <1>3, LenProperties DEF IsSequence
<1> QED  BY <1>3, <1>4 DEF IsSequence

LEMMA StepProgram ==
    ASSUME NEW op, NEW arg
    PROVE  /\ IsSequence(Step(op, arg))
           /\ Len(Step(op, arg)) = 1
           /\ Step(op, arg)[1].op = op
           /\ Step(op, arg)[1].arg = arg
BY DEF IsSequence, Step

LEMMA EmptyProgram == IsSequence(<<>>) /\ Len(<<>>) = 0
BY DEF IsSequence

-----------------------------------------------------------------------------
(* Steps that a program can reach                                            *)

Stops(s) == \E i \in 1..Len(s) : s[i].op = "throw"
Reaches(s, j) == \A i \in 1..(j - 1) : s[i].op # "throw"

ContractKinds ==
    {"StakedAave", "InitializableAdminUpgradeabilityProxy", "AaveStakingHelper", "StakeUIHelper",
     "StakedTokenV2Rev3", "StakedTokenBptRev2", "StakedTokenV3"}

ProposingTasks ==
    {"proposal-stk-extensions", "proposal-vault-approval",
     "proposal-stk-aave-extension:tenderly", "proposal-vault-approval:tenderly"}

\* A step does what the command's network is configured for; the file is
\* written right after it was read; only a script of proposals creates one.
Good(c, s, j) ==
    /\ s[j].op = "write" => j > 1 /\ s[j - 1].op = "read"
    /\ s[j].op = "deploy" => s[j].arg.kind \in ContractKinds
    /\ s[j].op = "deploy" /\ s[j].arg.kind = "StakedAave" =>
          s[j].arg.args = StakedAaveArgs(c) /\ ChainId[c.network] # 0
    /\ s[j].op = "initialize" =>
          \/ s[j].arg = "given" /\ "admin" \in c.params
          \/ s[j].arg = GetAaveAdminPerNetwork(c.network) /\ ChainId[c.network] # 0
    /\ s[j].op = "get" => s[j].arg.as \notin ContractKinds
    /\ s[j].op = "create" => c.task \in ProposingTasks

Sound(c, s) == IsSequence(s) /\ \A j \in 1..Len(s) : Reaches(s, j) => Good(c, s, j)

LEMMA StopsConcat ==
    ASSUME NEW s, NEW t, IsSequence(s), IsSequence(t), Stops(s) \/ Stops(t)
    PROVE  Stops(s \o t)
<1>1. Len(s) \in Nat /\ Len(t) \in Nat /\ Len(s \o t) = Len(s) + Len(t)
    BY ConcatProgram DEF IsSequence
<1>2. CASE Stops(s)
    <2>1. \A i \in 1..Len(s) : (s \o t)[i] = s[i] /\ i \in 1..Len(s \o t)
        BY <1>1, ConcatProgram
    <2> QED  BY <1>2, <2>1 DEF Stops
<1>3. CASE Stops(t)
    <2>1. PICK i \in 1..Len(t) : t[i].op = "throw"
        BY <1>3 DEF Stops
    <2>2. Len(s) + i \in 1..Len(s \o t) /\ (s \o t)[Len(s) + i] = t[i]
        BY <1>1, ConcatProgram
    <2> QED  BY <2>1, <2>2 DEF Stops
<1> QED  BY <1>2, <1>3

\* A part behind one that stops is never reached.
LEMMA SoundConcat ==
    ASSUME NEW c, NEW s, NEW t, Sound(c, s), IsSequence(t), Stops(s) \/ Sound(c, t)
    PROVE  Sound(c, s \o t)
<1> DEFINE u == s \o t
<1>1. /\ Len(s) \in Nat /\ Len(t) \in Nat
      /\ IsSequence(u)
      /\ Len(u) = Len(s) + Len(t)
      /\ \A i \in 1..Len(s) : u[i] = s[i]
      /\ \A i \in 1..Len(t) : u[Len(s) + i] = t[i]
    BY ConcatProgram DEF IsSequence, Sound
<1> HIDE DEF u
<1>2. SUFFICES ASSUME NEW j \in 1..Len(u), Reaches(u, j)
               PROVE  Good(c, u, j)
    BY <1>1 DEF Sound, u
<1>3. CASE j \in 1..Len(s)
    <2>1. \A i \in 1..j : u[i] = s[i]
        BY <1>1, <1>3
    <2>2. Reaches(s, j)
        BY <1>2, <2>1, <1>3, <1>1 DEF Reaches
    <2>3. Good(c, s, j)
        BY <2>2, <1>3 DEF Sound
    <2> QED  BY <2>1, <2>3, <1>3, <1>1 DEF Good
<1>4. CASE j \notin 1..Len(s)
    <2> DEFINE k == j - Len(s)
    <2>1. k \in 1..Len(t) /\ j = Len(s) + k
        BY <1>1, <1>2, <1>4
    <2>2. ~Stops(s)
        <3>1. \A i \in 1..Len(s) : i \in 1..(j - 1) /\ u[i] = s[i]
            BY <1>1, <2>1
        <3> QED  BY <3>1, <1>2 DEF Stops, Reaches
    <2>3. \A i \in 1..k : u[Len(s) + i] = t[i]
        BY <1>1, <2>1
    <2>4. Reaches(t, k)
        <3>1. \A i \in 1..(k - 1) : Len(s) + i \in 1..(j - 1) /\ u[Len(s) + i] = t[i]
            BY <1>1, <2>1, <2>3
        <3> QED  BY <3>1, <1>2 DEF Reaches
    <2>5. Good(c, t, k)
        BY <2>1, <2>2, <2>4 DEF Sound
    <2>6. k > 1 => u[j - 1] = t[k - 1] /\ j > 1
        <3>1. ASSUME k > 1 PROVE k - 1 \in 1..k /\ j - 1 = Len(s) + (k - 1) /\ j > 1
            BY <1>1, <2>1, <3>1
        <3> QED  BY <3>1, <2>3
    <2>7. u[j] = t[k]
        BY <2>1, <2>3
    <2> HIDE DEF k
    <2> QED  BY <2>5, <2>6, <2>7 DEF Good
<1> QED  BY <1>3, <1>4

\* A task connects to its network before anything else, or throws.
SoundTask(c, s) == Sound(c, s) /\ Len(s) >= 1 /\ s[1].op \in {"set-dre", "throw"}

LEMMA SoundParts ==
    /\ \A c, s : Sound(c, s) => IsSequence(s)
    /\ \A c, s : SoundTask(c, s) => Sound(c, s)
BY DEF Sound, SoundTask

LEMMA TaskConcat ==
    ASSUME NEW c, NEW s, NEW t, SoundTask(c, s), IsSequence(t), Stops(s) \/ Sound(c, t)
    PROVE  SoundTask(c, s \o t)
<1>1. Sound(c, s \o t)
    BY SoundConcat DEF SoundTask
<1>2. Len(s) \in Nat /\ Len(t) \in Nat /\ Len(s) >= 1 /\ Len(s \o t) = Len(s) + Len(t)
    BY ConcatProgram DEF SoundTask, Sound, IsSequence
<1>3. 1 \in 1..Len(s) /\ Len(s \o t) >= 1
    BY <1>2
<1>4. (s \o t)[1] = s[1]
    BY <1>3, ConcatProgram DEF SoundTask, Sound
<1> QED  BY <1>1, <1>3, <1>4 DEF SoundTask

-----------------------------------------------------------------------------
(* The parts of the programs                                                 *)

LEMMA SoundOneStep ==
    ASSUME NEW c, NEW op, NEW arg, Good(c, Step(op, arg), 1)
    PROVE  Sound(c, Step(op, arg))
<1>1. IsSequence(Step(op, arg)) /\ Len(Step(op, arg)) = 1
    BY StepProgram
<1>2. \A j \in 1..1 : j = 1
    OBVIOUS
<1> QED  BY <1>1, <1>2 DEF Sound

LEMMA SoundStep ==
    ASSUME NEW c, NEW op, NEW arg, op \notin {"write", "deploy", "get", "initialize", "create"}
    PROVE  Sound(c, Step(op, arg))
BY StepProgram DEF Sound, Good

LEMMA SoundGet ==
    ASSUME NEW c, NEW as, NEW id, as \notin ContractKinds
    PROVE  Sound(c, Step("get", [as |-> as, id |-> id]))
<1> DEFINE arg == [as |-> as, id |-> id]
           s == Step("get", arg)
<1>1. arg.as = as
    OBVIOUS
<1> HIDE DEF arg
<1>2. s[1].op = "get" /\ s[1].arg = arg
    BY StepProgram
<1> HIDE DEF s
<1>3. Good(c, s, 1)
    BY <1>1, <1>2 DEF Good
<1> QED  BY <1>3, SoundOneStep DEF s, arg

LEMMA StopsThrow == \A reason : Stops(Step("throw", reason))
BY StepProgram DEF Stops

LEMMA SoundEmpty == \A c : Sound(c, <<>>)
BY EmptyProgram DEF Sound

LEMMA SoundRequire ==
    ASSUME NEW c, NEW reason
    PROVE  Sound(c, Step("throw", reason)) /\ Stops(Step("throw", reason))
BY SoundStep, StopsThrow

LEMMA SoundRegister ==
    ASSUME NEW c, NEW id, NEW kind
    PROVE  Sound(c, RegisterContractInJsonDb(id, kind))
<1> DEFINE r == Step("read", "")
           w == Step("write", [id |-> id, kind |-> kind])
<1>1. /\ IsSequence(r) /\ Len(r) = 1 /\ r[1].op = "read"
      /\ IsSequence(w) /\ Len(w) = 1 /\ w[1].op = "write"
    BY StepProgram
<1> HIDE DEF r, w
<1>2. IsSequence(r \o w) /\ Len(r \o w) = 2 /\ (r \o w)[1] = r[1] /\ (r \o w)[2] = w[1]
    <2>1. IsSequence(r \o w) /\ Len(r \o w) = Len(r) + Len(w)
        BY <1>1, ConcatProgram
    <2>2. \A i \in 1..Len(r) : (r \o w)[i] = r[i]
        BY <1>1, ConcatProgram
    <2>3. \A i \in 1..Len(w) : (r \o w)[Len(r) + i] = w[i]
        BY <1>1, ConcatProgram
    <2>4. 1 \in 1..Len(r) /\ 1 \in 1..Len(w) /\ Len(r) + 1 = 2
        BY <1>1
    <2> QED  BY <1>1, <2>1, <2>2, <2>3, <2>4
<1>3. Sound(c, r \o w)
    BY <1>1, <1>2 DEF Sound, Good
<1> QED  BY <1>3 DEF RegisterContractInJsonDb, r, w

LEMMA DeployProgram ==
    ASSUME NEW kind, NEW args
    PROVE  IsSequence(DeployContract(kind, args))
BY StepProgram, ConcatProgram, SoundRegister DEF DeployContract, Sound

LEMMA SoundDeploy ==
    ASSUME NEW c, NEW kind \in ContractKinds, NEW args,
           kind = "StakedAave" => args = StakedAaveArgs(c) /\ ChainId[c.network] # 0
    PROVE  Sound(c, DeployContract(kind, args))
<1>1. Sound(c, Step("deploy", [kind |-> kind, args |-> args]))
    BY StepProgram DEF Sound, Good
<1>2. Sound(c, RegisterContractInJsonDb(kind, kind))
    BY SoundRegister
<1> QED  BY <1>1, <1>2, SoundConcat DEF DeployContract, Sound

LEMMA SoundVerified ==
    ASSUME NEW c, NEW d, NEW verify
    PROVE  Sound(c, Verified(d, verify))
<1>1. Sound(c, Require("ETHERSCAN_KEY" \in d.env, "verification"))
    BY SoundRequire, SoundEmpty DEF Require
<1>2. Sound(c, Step("verify", ""))
    BY SoundStep
<1>3. Sound(c, IF d.network \in SUPPORTED_ETHERSCAN_NETWORKS THEN Step("verify", "") ELSE <<>>)
    BY <1>2, SoundEmpty
<1> QED  BY <1>1, <1>3, SoundEmpty, SoundConcat DEF Verified, Sound

LEMMA SoundChecks ==
    ASSUME NEW c, NEW d
    PROVE  /\ SoundTask(c, SetDRE)
           /\ Sound(c, CheckedVerification(c))
           /\ Sound(c, RequireChainId(c))
           /\ ChainId[c.network] = 0 => Stops(RequireChainId(c))
           /\ Sound(c, GetDefenderRelaySigner(d))
<1>1. SoundTask(c, SetDRE)
    <2>1. Sound(c, SetDRE)
        BY SoundStep DEF SetDRE
    <2>2. Len(SetDRE) = 1 /\ SetDRE[1].op = "set-dre"
        BY StepProgram DEF SetDRE
    <2> QED  BY <2>1, <2>2 DEF SoundTask
<1>2. Sound(c, CheckedVerification(c))
    BY SoundRequire, SoundEmpty DEF CheckedVerification, Require
<1>3. Sound(c, RequireChainId(c)) /\ (ChainId[c.network] = 0 => Stops(RequireChainId(c)))
    BY SoundRequire, SoundEmpty DEF RequireChainId, Require
<1>4. Sound(c, GetDefenderRelaySigner(d))
    BY SoundRequire, SoundEmpty DEF GetDefenderRelaySigner, Require
<1> QED  BY <1>1, <1>2, <1>3, <1>4

LEMMA SoundWait == \A c, kind : Sound(c, WaitFor(kind))
BY SoundStep DEF WaitFor

LEMMA SoundProxy ==
    ASSUME NEW c
    PROVE  Sound(c, DeployInitializableAdminUpgradeabilityProxy(c, Verify(c)))
<1>1. Sound(c, DeployContract("InitializableAdminUpgradeabilityProxy", {}))
    BY SoundDeploy DEF ContractKinds
<1>2. Sound(c, WaitFor("InitializableAdminUpgradeabilityProxy"))
    BY SoundWait
<1>3. Sound(c, Verified(c, Verify(c)))
    BY SoundVerified
<1> QED
    BY <1>1, <1>2, <1>3, SoundConcat DEF DeployInitializableAdminUpgradeabilityProxy, Sound

LEMMA SoundDeployStakedAave ==
    ASSUME NEW c
    PROVE  SoundTask(c, DeployStakedAaveTask(c))
<1>1. /\ SoundTask(c, SetDRE)
      /\ Sound(c, CheckedVerification(c))
      /\ Sound(c, RequireChainId(c))
      /\ ChainId[c.network] = 0 => Stops(RequireChainId(c))
    BY SoundChecks
<1>2. /\ IsSequence(DeployStakedAave(c, StakedAaveArgs(c), FALSE))
      /\ ChainId[c.network] # 0 => Sound(c, DeployStakedAave(c, StakedAaveArgs(c), FALSE))
    <2>1. Sound(c, Verified(c, FALSE))
        BY SoundVerified
    <2>2. IsSequence(DeployContract("StakedAave", StakedAaveArgs(c)))
        BY DeployProgram
    <2>3. ChainId[c.network] # 0 => Sound(c, DeployContract("StakedAave", StakedAaveArgs(c)))
        BY SoundDeploy DEF ContractKinds
    <2> QED  BY <2>1, <2>2, <2>3, SoundConcat, ConcatProgram DEF DeployStakedAave, Sound
<1>3. Sound(c, WaitFor("StakedAave"))
    BY SoundWait
<1>4. Sound(c, RegisterContractInJsonDb("StakedAaveImpl", "StakedAave"))
    BY SoundRegister
<1>5. Sound(c, DeployInitializableAdminUpgradeabilityProxy(c, Verify(c)))
    BY SoundProxy
<1>6. Sound(c, RegisterContractInJsonDb("StakedAave", "InitializableAdminUpgradeabilityProxy"))
    BY SoundRegister
<1> QED
    BY <1>1, <1>2, <1>3, <1>4, <1>5, <1>6, SoundParts, TaskConcat, ConcatProgram, StopsConcat
    DEF DeployStakedAaveTask

\* With the admin of the network, or with the one of the command line.
LEMMA SoundInitialize ==
    ASSUME NEW c, NEW admin,
           \/ admin = GetAaveAdminPerNetwork(c.network)
           \/ admin = "given" /\ "admin" \in c.params
           \/ admin = ""
    PROVE  SoundTask(c, InitializeStakedAaveTask(c, admin))
<1>1. /\ SoundTask(c, SetDRE)
      /\ Sound(c, RequireChainId(c))
      /\ ChainId[c.network] = 0 => Stops(RequireChainId(c))
    BY SoundChecks
<1>2. /\ Sound(c, Require(admin # "", "admin"))
      /\ admin = "" => Stops(Require(admin # "", "admin"))
    BY SoundRequire, SoundEmpty DEF Require
<1>3. Sound(c, GetStakedAaveImpl) /\ Sound(c, GetStakedAaveProxy)
    BY SoundGet DEF GetStakedAaveImpl, GetStakedAaveProxy, ContractKinds
<1>4. /\ IsSequence(Step("initialize", admin))
      /\ ChainId[c.network] # 0 /\ admin # "" => Sound(c, Step("initialize", admin))
    <2> DEFINE s == Step("initialize", admin)
    <2>1. IsSequence(s) /\ Len(s) = 1 /\ s[1].op = "initialize" /\ s[1].arg = admin
        BY StepProgram
    <2> HIDE DEF s
    <2>2. ASSUME ChainId[c.network] # 0, admin # "" PROVE Sound(c, s)
        <3>1. \/ s[1].arg = "given" /\ "admin" \in c.params
              \/ s[1].arg = GetAaveAdminPerNetwork(c.network) /\ ChainId[c.network] # 0
            BY <2>1, <2>2
        <3>2. Good(c, s, 1)
            BY <2>1, <3>1 DEF Good
        <3> QED  BY <3>2, SoundOneStep DEF s
    <2> QED  BY <2>1, <2>2 DEF s
<1> QED
    BY <1>1, <1>2, <1>3, <1>4, SoundParts, TaskConcat, ConcatProgram, StopsConcat
    DEF InitializeStakedAaveTask

LEMMA SoundCommonDeployment ==
    ASSUME NEW c
    PROVE  SoundTask(c, CommonDeploymentTask(c)) /\ SoundTask(c, DevDeploymentTask(c))
<1> DEFINE admin == GetAaveAdminPerNetwork(c.network)
<1>1. SoundTask(c, SetDRE) /\ Sound(c, CheckedVerification(c))
    BY SoundChecks
<1>2. Sound(c, Require(admin # "", "admin"))
    BY SoundRequire, SoundEmpty DEF Require
<1>3. SoundTask(c, DeployStakedAaveTask(c))
    BY SoundDeployStakedAave
<1>4. SoundTask(c, InitializeStakedAaveTask(c, admin))
    BY SoundInitialize
<1> QED
    BY <1>1, <1>2, <1>3, <1>4, SoundParts, TaskConcat DEF CommonDeploymentTask, DevDeploymentTask

LEMMA SoundHelperTask ==
    ASSUME NEW c, NEW deploy, NEW kind, Sound(c, deploy)
    PROVE  SoundTask(c, HelperTask(c, deploy, kind))
<1>1. SoundTask(c, SetDRE) /\ Sound(c, CheckedVerification(c)) /\ Sound(c, RequireChainId(c))
    BY SoundChecks
<1>2. Sound(c, WaitFor(kind)) /\ Sound(c, RegisterContractInJsonDb(kind, kind))
    BY SoundWait, SoundRegister
<1> QED  BY <1>1, <1>2, SoundParts, TaskConcat DEF HelperTask

LEMMA SoundHelperTasks ==
    ASSUME NEW c
    PROVE  SoundTask(c, DeployAaveStakingHelperTask(c)) /\ SoundTask(c, DeployStakeUIHelperTask(c))
<1>1. Sound(c, Verified(c, Verify(c)))
    BY SoundVerified
<1>2. \A args : Sound(c, DeployContract("AaveStakingHelper", args))
    BY SoundDeploy DEF ContractKinds
<1>3. \A args : Sound(c, DeployAaveStakingHelper(c, args, Verify(c)))
    BY <1>1, <1>2, SoundConcat DEF DeployAaveStakingHelper, Sound
<1>4. \A args : Sound(c, DeployContract("StakeUIHelper", args))
    BY SoundDeploy DEF ContractKinds
<1>5. \A args : Sound(c, DeployStakeUIHelper(c, args, Verify(c)))
    BY <1>1, <1>4, SoundConcat DEF DeployStakeUIHelper, Sound
<1> QED
    BY <1>3, <1>5, SoundHelperTask DEF DeployAaveStakingHelperTask, DeployStakeUIHelperTask

LEMMA SoundRevisions ==
    ASSUME NEW c, NEW d
    PROVE  /\ SoundTask(c, DeployStakedAaveRev3Task(d))
           /\ SoundTask(c, DeployStakedBptRev2Task(d))
           /\ \A args : Sound(c, DeployStakedTokenV3(d, args, TRUE))
<1>1. Sound(c, Verified(d, TRUE))
    BY SoundVerified
<1>2. SoundTask(c, SetDRE) /\ Sound(c, GetDefenderRelaySigner(d))
    BY SoundChecks
<1>3. \A args : /\ Sound(c, DeployContract("StakedTokenV2Rev3", args))
                /\ Sound(c, DeployContract("StakedTokenBptRev2", args))
                /\ Sound(c, DeployContract("StakedTokenV3", args))
    BY SoundDeploy DEF ContractKinds
<1>4. \A args : Sound(c, DeployStakedTokenV2Revision3(d, args, TRUE))
    BY <1>1, <1>3, SoundConcat DEF DeployStakedTokenV2Revision3, Sound
<1>5. \A args : Sound(c, DeployStakedTokenBptRevision2(d, args, TRUE))
    BY <1>1, <1>3, SoundConcat DEF DeployStakedTokenBptRevision2, Sound
<1>6. \A args : Sound(c, DeployStakedTokenV3(d, args, TRUE))
    BY <1>1, <1>3, SoundConcat DEF DeployStakedTokenV3, Sound
<1>7. SoundTask(c, DeployStakedAaveRev3Task(d))
    BY <1>2, <1>4, SoundParts, TaskConcat DEF DeployStakedAaveRev3Task
<1>8. SoundTask(c, DeployStakedBptRev2Task(d))
    BY <1>2, <1>5, SoundParts, TaskConcat DEF DeployStakedBptRev2Task
<1> QED  BY <1>6, <1>7, <1>8

LEMMA SoundDeployCRP ==
    ASSUME NEW c
    PROVE  SoundTask(c, DeployCRPTask(c))
<1>1. SoundTask(c, SetDRE) /\ Sound(c, CheckedVerification(c)) /\ Sound(c, RequireChainId(c))
    BY SoundChecks
<1>2. Sound(c, Require(FifthAccount(c), "accounts"))
    BY SoundRequire, SoundEmpty DEF Require
<1>3. Sound(c, Step("newCrp", "")) /\ Sound(c, Step("subscribe", "")) /\ Sound(c, Step("awaitCrp", ""))
    BY SoundStep
<1>4. \A arg : Sound(c, Step("tx", arg))
    BY SoundStep
<1>5. Sound(c, DeployStakedTokenV3(c, RevisionArgs("CRPool", "0xec56"), TRUE))
    BY SoundRevisions
<1> QED  BY <1>1, <1>2, <1>3, <1>4, <1>5, SoundParts, TaskConcat DEF DeployCRPTask

LEMMA SoundCreate ==
    ASSUME NEW c, NEW arg, c.task \in ProposingTasks
    PROVE  Sound(c, Step("create", arg))
<1>1. Step("create", arg)[1].op = "create"
    BY StepProgram
<1>2. Good(c, Step("create", arg), 1)
    BY <1>1 DEF Good
<1> QED  BY <1>2, SoundOneStep

LEMMA SoundProposals ==
    ASSUME NEW c, NEW d, c.task \in ProposingTasks
    PROVE  /\ SoundTask(c, ProposalStkExtensionsTask(d))
           /\ SoundTask(c, ProposalVaultApprovalTask(d))
<1>1. SoundTask(c, SetDRE) /\ Sound(c, GetDefenderRelaySigner(d))
    BY SoundChecks
<1>2. \A arg : Sound(c, Step("create", arg))
    BY SoundCreate
<1>3. SoundTask(c, ProposeExtensionTask(d)) /\ SoundTask(c, ProposeVaultApprovalTask(d))
    BY <1>1, <1>2, SoundParts, TaskConcat DEF ProposeExtensionTask, ProposeVaultApprovalTask
<1>4. Sound(c, IF "stkaaveimpl" \in d.params THEN <<>> ELSE DeployStakedAaveRev3Task(d))
    BY SoundRevisions, SoundEmpty DEF SoundTask
<1>5. Sound(c, IF "stkbptimpl" \in d.params THEN <<>> ELSE DeployStakedBptRev2Task(d))
    BY SoundRevisions, SoundEmpty DEF SoundTask
<1>6. Sound(c, Require("ipfsHash" \in d.params, "params"))
    BY SoundRequire, SoundEmpty DEF Require
<1>7. SoundTask(c, ProposalStkExtensionsTask(d))
    BY <1>1, <1>3, <1>4, <1>5, SoundParts, TaskConcat DEF ProposalStkExtensionsTask
<1>8. SoundTask(c, ProposalVaultApprovalTask(d))
    BY <1>1, <1>3, <1>6, SoundParts, TaskConcat DEF ProposalVaultApprovalTask
<1> QED  BY <1>7, <1>8

LEMMA SoundRehearsals ==
    ASSUME NEW c
    PROVE  /\ c.task \in ProposingTasks =>
                 SoundTask(c, StkAaveExtensionTenderly(c)) /\ SoundTask(c, VaultApprovalTenderly(c))
           /\ SoundTask(c, ExecStks(c))
           /\ SoundTask(c, NoExecStks(c))
<1>1. SoundTask(c, SetDRE) /\ Sound(c, GetDefenderRelaySigner(c))
    BY SoundChecks
<1>2. \A n : SoundTask(c, FundProposer(c, n))
    <2>1. Sound(c, Require(UsesTenderly(c), "fork"))
        BY SoundRequire, SoundEmpty DEF Require
    <2>2. \A n : Sound(c, Step("transactions", n))
        BY SoundStep
    <2> QED  BY <1>1, <2>1, <2>2, SoundParts, TaskConcat DEF FundProposer
<1>3. \A n : Sound(c, AdvanceBlocks(n)) /\ Sound(c, Step("increaseTimeTenderly", n))
             /\ Sound(c, Step("proposalId", n))
    BY SoundStep DEF AdvanceBlocks
<1>4. /\ Sound(c, Step("queue", "")) /\ Sound(c, Step("execute", ""))
      /\ Sound(c, Step("getProposalsCount", "")) /\ Sound(c, Step("submitVote", "proposer"))
      /\ Sound(c, Step("submitVote", "whale")) /\ Sound(c, Step("submitVote", "whale2"))
    BY SoundStep
<1>5. \A duration, delay : Sound(c, QueueAndExecute(duration, delay))
    BY <1>3, <1>4, SoundConcat DEF QueueAndExecute, Sound
<1>6. ASSUME NEW propose, NEW executor, Sound(c, propose)
      PROVE  Sound(c, ProposeAndExecute(propose, executor))
    BY <1>3, <1>4, <1>5, <1>6, SoundParts, SoundConcat DEF ProposeAndExecute
<1>7. c.task \in ProposingTasks => SoundTask(c, StkAaveExtensionTenderly(c))
    BY <1>2, <1>6, SoundProposals, SoundParts, TaskConcat DEF StkAaveExtensionTenderly
<1>8. c.task \in ProposingTasks => SoundTask(c, VaultApprovalTenderly(c))
    BY <1>2, <1>6, SoundProposals, SoundParts, TaskConcat DEF VaultApprovalTenderly
<1>9. Sound(c, StakingTurns)
    BY SoundRequire DEF StakingTurns
<1>10. SoundTask(c, ExecStks(c))
    BY <1>2, <1>3, <1>4, <1>5, <1>9, SoundParts, TaskConcat DEF ExecStks
<1>11. SoundTask(c, NoExecStks(c))
    BY <1>2, <1>3, <1>9, SoundParts, TaskConcat DEF NoExecStks
<1> QED  BY <1>7, <1>8, <1>10, <1>11

-----------------------------------------------------------------------------
(* Where a program may throw for the operator's configuration                *)

ThrowsConfig(step) == step.op = "throw" /\ step.arg \in ConfigReasons

\* Nothing is sent before the last such throw that can be reached.
Careful(s) ==
    \A j \in 1..Len(s) : Reaches(s, j) /\ ThrowsConfig(s[j]) => \A i \in 1..(j - 1) : s[i].op = "set-dre"

Settled(s) == IsSequence(s) /\ \A j \in 1..Len(s) : ~ThrowsConfig(s[j])
Silent(s) == IsSequence(s) /\ Careful(s) /\ \A j \in 1..Len(s) : s[j].op \in {"set-dre", "throw"}

LEMMA CarefulConcat ==
    ASSUME NEW s, NEW t, IsSequence(s), IsSequence(t), Careful(s),
           Stops(s) \/ Settled(t) \/ (Silent(s) /\ Careful(t))
    PROVE  Careful(s \o t)
<1> DEFINE u == s \o t
<1>1. Len(s) \in Nat /\ Len(t) \in Nat /\ Len(u) = Len(s) + Len(t)
    BY ConcatProgram DEF IsSequence
<1>2. \A i \in 1..Len(s) : u[i] = s[i]
    BY ConcatProgram
<1>3. \A i \in 1..Len(t) : u[Len(s) + i] = t[i]
    BY ConcatProgram
<1> HIDE DEF u
<1>4. SUFFICES ASSUME NEW j \in 1..Len(u), Reaches(u, j), ThrowsConfig(u[j]),
                      NEW i \in 1..(j - 1)
               PROVE  u[i].op = "set-dre"
    BY <1>1 DEF Careful, u
<1>5. CASE j \in 1..Len(s)
    <2>1. \A k \in 1..j : u[k] = s[k]
        BY <1>1, <1>2, <1>5
    <2>2. Reaches(s, j) /\ ThrowsConfig(s[j])
        BY <1>4, <2>1, <1>5, <1>1 DEF Reaches
    <2>3. i \in 1..j
        BY <1>1, <1>4
    <2> QED  BY <2>1, <2>2, <2>3, <1>5, <1>4 DEF Careful
<1>6. CASE j \notin 1..Len(s)
    <2> DEFINE k == j - Len(s)
    <2>1. k \in 1..Len(t) /\ j = Len(s) + k
        BY <1>1, <1>4, <1>6
    <2>2. \A h \in 1..Len(s) : h \in 1..(j - 1) /\ u[h] = s[h]
        BY <1>1, <1>2, <2>1
    <2>3. ~Stops(s)
        BY <2>2, <1>4 DEF Stops, Reaches
    <2>4. ThrowsConfig(t[k])
        BY <1>4, <1>3, <2>1
    <2>5. Silent(s) /\ Careful(t)
        BY <2>1, <2>3, <2>4 DEF Settled
    <2>6. \A h \in 1..(k - 1) : Len(s) + h \in 1..(j - 1) /\ h \in 1..Len(t) /\ u[Len(s) + h] = t[h]
        BY <1>1, <1>3, <2>1
    <2>7. Reaches(t, k)
        BY <2>6, <1>4 DEF Reaches
    <2> HIDE DEF k
    <2>8. CASE i \in 1..Len(s)
        BY <2>8, <2>2, <2>3, <2>5 DEF Silent, Stops
    <2>9. CASE i \notin 1..Len(s)
        <3>1. i - Len(s) \in 1..(k - 1) /\ i = Len(s) + (i - Len(s))
            BY <1>1, <1>4, <2>1, <2>9
        <3>2. t[i - Len(s)].op = "set-dre"
            BY <2>1, <2>4, <2>5, <2>7, <3>1 DEF Careful
        <3> QED  BY <3>1, <3>2, <2>6
    <2> QED  BY <2>8, <2>9
<1> QED  BY <1>5, <1>6

LEMMA SettledConcat ==
    ASSUME NEW s, NEW t, Settled(s), Settled(t)
    PROVE  Settled(s \o t)
<1>1. /\ Len(s) \in Nat /\ Len(t) \in Nat /\ Len(s \o t) = Len(s) + Len(t)
      /\ IsSequence(s \o t)
    BY ConcatProgram DEF IsSequence, Settled
<1>2. \A i \in 1..Len(s) : (s \o t)[i] = s[i]
    BY ConcatProgram DEF Settled
<1>3. \A i \in 1..Len(t) : (s \o t)[Len(s) + i] = t[i]
    BY ConcatProgram DEF Settled
<1>4. \A i \in 1..Len(s \o t) : i \in 1..Len(s) \/ (i - Len(s) \in 1..Len(t) /\ i = Len(s) + (i - Len(s)))
    BY <1>1
<1> QED  BY <1>1, <1>2, <1>3, <1>4 DEF Settled

LEMMA SilentConcat ==
    ASSUME NEW s, NEW t, Silent(s), Silent(t)
    PROVE  Silent(s \o t)
<1>1. /\ Len(s) \in Nat /\ Len(t) \in Nat /\ Len(s \o t) = Len(s) + Len(t)
      /\ IsSequence(s \o t)
    BY ConcatProgram DEF IsSequence, Silent
<1>2. \A i \in 1..Len(s) : (s \o t)[i] = s[i]
    BY ConcatProgram DEF Silent
<1>3. \A i \in 1..Len(t) : (s \o t)[Len(s) + i] = t[i]
    BY ConcatProgram DEF Silent
<1>4. \A i \in 1..Len(s \o t) : i \in 1..Len(s) \/ (i - Len(s) \in 1..Len(t) /\ i = Len(s) + (i - Len(s)))
    BY <1>1
<1>5. Careful(s \o t)
    BY CarefulConcat DEF Silent
<1> QED  BY <1>1, <1>2, <1>3, <1>4, <1>5 DEF Silent

LEMMA SettledStep ==
    ASSUME NEW op, NEW arg, op # "throw"
    PROVE  Settled(Step(op, arg))
<1>1. /\ IsSequence(Step(op, arg)) /\ Len(Step(op, arg)) = 1
      /\ Step(op, arg)[1].op # "throw"
    BY StepProgram
<1>2. \A j \in 1..1 : j = 1
    OBVIOUS
<1> QED  BY <1>1, <1>2 DEF Settled, ThrowsConfig

LEMMA SettledEmpty == Settled(<<>>) /\ Silent(<<>>)
BY EmptyProgram DEF Settled, Silent, Careful

LEMMA SilentStep ==
    ASSUME NEW op \in {"set-dre", "throw"}, NEW arg
    PROVE  Silent(Step(op, arg))
<1>1. /\ IsSequence(Step(op, arg)) /\ Len(Step(op, arg)) = 1
      /\ Step(op, arg)[1].op \in {"set-dre", "throw"}
    BY StepProgram
<1>2. \A j \in 1..1 : j = 1 /\ 1..(j - 1) = {}
    OBVIOUS
<1>3. Careful(Step(op, arg))
    BY <1>1, <1>2 DEF Careful
<1> QED  BY <1>1, <1>2, <1>3 DEF Silent

\* A condition that does not hold stops the program, and one that holds adds nothing.
LEMMA SilentRequire ==
    ASSUME NEW condition, NEW reason
    PROVE  /\ Silent(Require(condition, reason))
           /\ condition => Settled(Require(condition, reason))
           /\ ~condition => Stops(Require(condition, reason))
BY SilentStep, SettledEmpty, StopsThrow DEF Require

LEMMA SettledParts ==
    /\ \A id, kind : Settled(RegisterContractInJsonDb(id, kind))
    /\ \A kind, args : Settled(DeployContract(kind, args))
    /\ \A kind : Settled(WaitFor(kind))
    /\ Settled(SetDRE) /\ Silent(SetDRE)
    /\ Settled(GetStakedAaveImpl) /\ Settled(GetStakedAaveProxy)
<1>1. \A id, kind : Settled(RegisterContractInJsonDb(id, kind))
    BY SettledStep, SettledConcat DEF RegisterContractInJsonDb
<1>2. \A kind, args : Settled(DeployContract(kind, args))
    BY <1>1, SettledStep, SettledConcat DEF DeployContract
<1>3. \A kind : Settled(WaitFor(kind))
    BY SettledStep DEF WaitFor
<1>4. Settled(SetDRE) /\ Silent(SetDRE)
    BY SettledStep, SilentStep DEF SetDRE
<1>5. Settled(GetStakedAaveImpl) /\ Settled(GetStakedAaveProxy)
    BY SettledStep DEF GetStakedAaveImpl, GetStakedAaveProxy
<1> QED  BY <1>1, <1>2, <1>3, <1>4, <1>5

\* Without --verify, or with the key, a verification throws nothing.
LEMMA SettledVerified ==
    ASSUME NEW c, NEW verify, verify => "ETHERSCAN_KEY" \in c.env
    PROVE  Settled(Verified(c, verify))
<1>1. verify => Settled(Require("ETHERSCAN_KEY" \in c.env, "verification"))
    BY SilentRequire
<1>2. Settled(Step("verify", ""))
    BY SettledStep
<1>3. Settled(IF c.network \in SUPPORTED_ETHERSCAN_NETWORKS THEN Step("verify", "") ELSE <<>>)
    BY <1>2, SettledEmpty
<1> QED  BY <1>1, <1>3, SettledEmpty, SettledConcat DEF Verified

\* The checks before a deployment: silent, and they stop when they do not hold.
Checked(c) == Verify(c) => CheckVerification(c.network, c.env)

LEMMA SilentChecks ==
    ASSUME NEW c
    PROVE  /\ Silent(CheckedVerification(c))
           /\ ~Checked(c) => Stops(CheckedVerification(c))
           /\ Silent(RequireChainId(c))
           /\ ChainId[c.network] # 0 => Settled(RequireChainId(c))
           /\ ChainId[c.network] = 0 => Stops(RequireChainId(c))
           /\ Checked(c) => Settled(Verified(c, Verify(c)))
           /\ Verify(c) /\ Checked(c) => Settled(Verified(c, TRUE))
<1>1. Silent(CheckedVerification(c)) /\ (~Checked(c) => Stops(CheckedVerification(c)))
    BY SilentRequire DEF CheckedVerification, Checked
<1>2. /\ Silent(RequireChainId(c))
      /\ ChainId[c.network] # 0 => Settled(RequireChainId(c))
      /\ ChainId[c.network] = 0 => Stops(RequireChainId(c))
    BY SilentRequire DEF RequireChainId
<1>3. Verify(c) /\ Checked(c) => "ETHERSCAN_KEY" \in c.env
    BY DEF Checked, CheckVerification
<1> QED  BY <1>1, <1>2, <1>3, SettledVerified

LEMMA SilentParts ==
    /\ \A s : Silent(s) => IsSequence(s) /\ Careful(s)
    /\ \A s : Settled(s) => IsSequence(s)
BY DEF Silent, Settled

LEMMA CarefulDeployStakedAave ==
    ASSUME NEW c
    PROVE  /\ Careful(DeployStakedAaveTask(c))
           /\ IsSequence(DeployStakedAaveTask(c))
           /\ ~Checked(c) \/ ChainId[c.network] = 0 => Stops(DeployStakedAaveTask(c))
<1> DEFINE head == SetDRE \o CheckedVerification(c) \o RequireChainId(c)
<1>1. Silent(head)
    BY SettledParts, SilentChecks, SilentConcat
<1>2. ~Checked(c) \/ ChainId[c.network] = 0 => Stops(head)
    BY SettledParts, SilentChecks, SilentParts, ConcatProgram, StopsConcat
<1> HIDE DEF head
<1>3. Settled(DeployStakedAave(c, StakedAaveArgs(c), FALSE))
    <2>1. Settled(Verified(c, FALSE))
        BY SettledVerified
    <2> QED  BY <2>1, SettledParts, SettledConcat DEF DeployStakedAave
<1>4. /\ IsSequence(DeployInitializableAdminUpgradeabilityProxy(c, Verify(c)))
      /\ Checked(c) => Settled(DeployInitializableAdminUpgradeabilityProxy(c, Verify(c)))
    <2>1. IsSequence(DeployInitializableAdminUpgradeabilityProxy(c, Verify(c)))
        BY SoundProxy, SoundParts
    <2>2. Checked(c) => Settled(DeployInitializableAdminUpgradeabilityProxy(c, Verify(c)))
        BY SettledParts, SilentChecks, SettledConcat DEF DeployInitializableAdminUpgradeabilityProxy
    <2> QED  BY <2>1, <2>2
<1>5. CASE ~Checked(c) \/ ChainId[c.network] = 0
    BY <1>1, <1>2, <1>3, <1>4, <1>5, SettledParts, SilentParts, ConcatProgram, StopsConcat,
       CarefulConcat DEF DeployStakedAaveTask, head
<1>6. CASE ~(~Checked(c) \/ ChainId[c.network] = 0)
    BY <1>1, <1>3, <1>4, <1>6, SettledParts, SilentParts, ConcatProgram, CarefulConcat
    DEF DeployStakedAaveTask, head
<1> QED  BY <1>5, <1>6

LEMMA CarefulCommonDeployment ==
    ASSUME NEW c
    PROVE  Careful(CommonDeploymentTask(c))
<1> DEFINE admin == GetAaveAdminPerNetwork(c.network)
           head == SetDRE \o Require(admin # "", "admin") \o CheckedVerification(c)
           body == head \o DeployStakedAaveTask(c)
<1>1. Silent(head)
    BY SettledParts, SilentChecks, SilentRequire, SilentConcat
<1>2. admin = "" => Stops(head)
    BY SettledParts, SilentChecks, SilentRequire, SilentParts, ConcatProgram, StopsConcat
<1> HIDE DEF head
<1>3. IsSequence(body) /\ Careful(body)
    BY <1>1, CarefulDeployStakedAave, SilentParts, ConcatProgram, CarefulConcat
<1>4. admin = "" \/ ChainId[c.network] = 0 => Stops(body)
    BY <1>1, <1>2, CarefulDeployStakedAave, SilentParts, StopsConcat
<1> HIDE DEF body
<1>5. admin # "" /\ ChainId[c.network] # 0 => Settled(InitializeStakedAaveTask(c, admin))
    <2>1. Settled(Step("initialize", admin))
        BY SettledStep
    <2>2. admin # "" => Settled(Require(admin # "", "admin"))
        BY SilentRequire
    <2>3. ChainId[c.network] # 0 => Settled(RequireChainId(c))
        BY SilentChecks
    <2> HIDE DEF admin
    <2> QED  BY <2>1, <2>2, <2>3, SettledParts, SettledConcat DEF InitializeStakedAaveTask
<1>6. IsSequence(InitializeStakedAaveTask(c, admin))
    BY SoundInitialize, SoundParts
<1>7. Careful(body \o InitializeStakedAaveTask(c, admin))
    BY <1>3, <1>4, <1>5, <1>6, CarefulConcat
<1> QED  BY <1>7 DEF CommonDeploymentTask, body, head

LEMMA CarefulHelperTask ==
    ASSUME NEW c, NEW deploy, NEW kind, IsSequence(deploy), Checked(c) => Settled(deploy)
    PROVE  Careful(HelperTask(c, deploy, kind))
<1> DEFINE head == SetDRE \o CheckedVerification(c) \o RequireChainId(c)
<1>1. Silent(head)
    BY SettledParts, SilentChecks, SilentConcat
<1>2. ~Checked(c) => Stops(head)
    BY SettledParts, SilentChecks, SilentParts, ConcatProgram, StopsConcat
<1> HIDE DEF head
<1>3. IsSequence(head \o deploy) /\ Careful(head \o deploy)
    BY <1>1, <1>2, SilentParts, ConcatProgram, CarefulConcat
<1> QED  BY <1>3, SettledParts, SilentParts, ConcatProgram, CarefulConcat DEF HelperTask, head

LEMMA CarefulHelperTasks ==
    ASSUME NEW c
    PROVE  Careful(DeployAaveStakingHelperTask(c)) /\ Careful(DeployStakeUIHelperTask(c))
<1>1. \A args : /\ IsSequence(DeployAaveStakingHelper(c, args, Verify(c)))
                /\ Checked(c) => Settled(DeployAaveStakingHelper(c, args, Verify(c)))
    BY SettledParts, SilentParts, SilentChecks, SettledConcat, ConcatProgram, SoundVerified, SoundParts
    DEF DeployAaveStakingHelper
<1>2. \A args : /\ IsSequence(DeployStakeUIHelper(c, args, Verify(c)))
                /\ Checked(c) => Settled(DeployStakeUIHelper(c, args, Verify(c)))
    BY SettledParts, SilentParts, SilentChecks, SettledConcat, ConcatProgram, SoundVerified, SoundParts
    DEF DeployStakeUIHelper
<1> QED
    BY <1>1, <1>2, CarefulHelperTask DEF DeployAaveStakingHelperTask, DeployStakeUIHelperTask

\* The pool is made only when everything the operator configures was looked at.
LEMMA CarefulDeployCRP ==
    ASSUME NEW c, Verify(c)
    PROVE  Careful(DeployCRPTask(c))
<1> DEFINE head == SetDRE \o CheckedVerification(c) \o RequireChainId(c)
                   \o Require(FifthAccount(c), "accounts")
           deploy == DeployStakedTokenV3(c, RevisionArgs("CRPool", "0xec56"), TRUE)
<1>1. Silent(head)
    BY SettledParts, SilentChecks, SilentRequire, SilentConcat
<1>2. ~Checked(c) => Stops(head)
    BY SettledParts, SilentChecks, SilentRequire, SilentParts, ConcatProgram, StopsConcat
<1>3. IsSequence(deploy)
    BY SoundRevisions, SoundParts
<1>4. Checked(c) => Settled(deploy)
    BY SettledParts, SilentChecks, SettledConcat DEF DeployStakedTokenV3
<1> HIDE DEF head, deploy
<1>5. /\ Settled(Step("newCrp", "")) /\ Settled(Step("subscribe", "")) /\ Settled(Step("awaitCrp", ""))
      /\ \A arg : Settled(Step("tx", arg))
    BY SettledStep
<1> DEFINE body == head \o Step("newCrp", "") \o Step("subscribe", "") \o Step("awaitCrp", "")
                   \o Step("tx", "approve AAVE") \o Step("tx", "approve WETH")
                   \o Step("tx", "createPool") \o Step("tx", "setPublicSwap")
<1>6. IsSequence(body) /\ Careful(body)
    BY <1>1, <1>5, SilentParts, ConcatProgram, CarefulConcat
<1>7. ~Checked(c) => Stops(body)
    BY <1>1, <1>2, <1>5, SilentParts, ConcatProgram, StopsConcat
<1> HIDE DEF body
<1>8. Careful(body \o deploy)
    BY <1>3, <1>4, <1>6, <1>7, CarefulConcat
<1> QED  BY <1>8 DEF DeployCRPTask, body, head, deploy

-----------------------------------------------------------------------------
(* The program of any command                                                *)

LEMMA SoundProgram ==
    ASSUME NEW c \in Commands
    PROVE  SoundTask(c, Program(c))
<1>1. c.task \in Tasks /\ c.flags \subseteq Flags(c.task) /\ c.params \subseteq Params(c.task)
    BY DEF Commands
<1>2. c.task \in {"common-deployment", "dev-deployment", "deploy-StakedAave"} =>
      SoundTask(c, Program(c))
    BY SoundCommonDeployment, SoundDeployStakedAave DEF Program
<1>3. c.task = "initialize-StakedAave" => SoundTask(c, Program(c))
    BY SoundInitialize DEF Program, Param
<1>4. c.task \in {"deploy-AaveStakingHelper", "deploy-StakeUIHelper", "deploy-CRP"} =>
      SoundTask(c, Program(c))
    BY SoundHelperTasks, SoundDeployCRP DEF Program
<1>5. c.task \in {"deploy-staked-aave-rev3", "deploy-staked-bpt-rev2"} => SoundTask(c, Program(c))
    BY SoundRevisions DEF Program
<1>6. c.task = "verify-sc" => SoundTask(c, Program(c))
    <2>1. Sound(c, VerifyScTask(c)) /\ Len(VerifyScTask(c)) = 1 /\ VerifyScTask(c)[1].op = "throw"
        BY SoundRequire, StepProgram DEF VerifyScTask
    <2> QED  BY <2>1 DEF SoundTask, Program
<1>7. c.task \in {"proposal-stk-extensions", "proposal-vault-approval"} => SoundTask(c, Program(c))
    <2>1. c.task \in {"proposal-stk-extensions", "proposal-vault-approval"} => c.task \in ProposingTasks
        BY DEF ProposingTasks
    <2> QED  BY <2>1, SoundProposals DEF Program
<1>8. c.task \in {"proposal-stk-aave-extension:tenderly", "proposal-vault-approval:tenderly"} =>
      SoundTask(c, Program(c))
    <2>1. c.task \in {"proposal-stk-aave-extension:tenderly", "proposal-vault-approval:tenderly"} =>
          c.task \in ProposingTasks
        BY DEF ProposingTasks
    <2> QED  BY <2>1, SoundRehearsals DEF Program
<1>9. c.task \in {"exec-stks:tenderly", "no-exec-stks:tenderly"} => SoundTask(c, Program(c))
    BY SoundRehearsals DEF Program
<1> QED  BY <1>1, <1>2, <1>3, <1>4, <1>5, <1>6, <1>7, <1>8, <1>9 DEF Tasks

LEMMA CarefulProgram ==
    ASSUME NEW c \in Commands, Verify(c)
    PROVE  Careful(Program(c))
<1>1. c.task \in {"common-deployment", "deploy-StakedAave", "deploy-AaveStakingHelper",
                  "deploy-StakeUIHelper", "deploy-CRP"}
    BY DEF Commands, Flags, Verify, Tasks
<1> QED
    BY <1>1, CarefulCommonDeployment, CarefulDeployStakedAave, CarefulHelperTasks, CarefulDeployCRP
    DEF Program

-----------------------------------------------------------------------------
(* One run: where it is in its program and what it holds                     *)

RunFields ==
    {"cmd", "status", "reason", "pc", "step", "start", "chain", "known", "copy", "verification",
     "crp", "done", "clean", "alone", "prepared"}

RunShape(r) == r = [field \in RunFields |-> r[field]]

\* The run is at a step that its program reaches.
Placed(r) ==
    /\ r.cmd \in Commands
    /\ r.pc \in 1..Len(Program(r.cmd))
    /\ r.step = Program(r.cmd)[r.pc]
    /\ Reaches(Program(r.cmd), r.pc)

Connected(r) == r.chain \in {NoChain, ChainOf(r)} /\ (r.pc > 1 => r.chain = ChainOf(r))

VerificationShape(v) ==
    v = [active |-> v.active, times |-> v.times, relatedSources |-> v.relatedSources, file |-> v.file]

Verifying(r) ==
    VerificationShape(r.verification) /\ (r.verification.active => r.verification.file)

SentNothing(r) == r.known = <<>> /\ r.crp = "none"

\* A run that only connected has sent nothing, nor has one that failed for its
\* configuration.
Thrifty(r) ==
    /\ (\A i \in 1..(r.pc - 1) : Program(r.cmd)[i].op = "set-dre") => SentNothing(r)
    /\ r.status = "failed" /\ r.reason \in ConfigReasons /\ Verify(r.cmd) => SentNothing(r)

RunInv(r) == RunShape(r) /\ Placed(r) /\ Connected(r) /\ Verifying(r) /\ Thrifty(r)

LEMMA ProgramLength ==
    ASSUME NEW c \in Commands
    PROVE  /\ IsSequence(Program(c))
           /\ Len(Program(c)) \in Nat
           /\ Len(Program(c)) >= 1
           /\ Program(c)[1].op \in {"set-dre", "throw"}
BY SoundProgram DEF SoundTask, Sound, IsSequence

LEMMA EndedFields ==
    ASSUME NEW r, NEW status, RunShape(r)
    PROVE  LET e == Ended(r, status) IN
           /\ RunShape(e)
           /\ e.cmd = r.cmd /\ e.status = status /\ e.reason = r.reason /\ e.pc = 1
           /\ e.step = Program(r.cmd)[1] /\ e.start = r.start /\ e.chain = r.chain
           /\ e.known = <<>> /\ e.copy = <<>> /\ e.verification = NotVerifying /\ e.crp = "none"
           /\ e.clean = r.clean /\ e.alone = r.alone /\ e.prepared = r.prepared
BY DEF Ended, RunShape, RunFields

LEMMA EndedRun ==
    ASSUME NEW r, NEW status \in {"finished", "killed"}, RunInv(r)
    PROVE  RunInv(Ended(r, status))
<1> DEFINE e == Ended(r, status)
<1>1. /\ RunShape(e)
      /\ e.cmd = r.cmd /\ e.status = status /\ e.pc = 1
      /\ e.step = Program(r.cmd)[1] /\ e.start = r.start /\ e.chain = r.chain
      /\ e.known = <<>> /\ e.verification = NotVerifying /\ e.crp = "none"
    BY EndedFields DEF RunInv
<1> HIDE DEF e
<1>2. Placed(e)
    <2>1. r.cmd \in Commands
        BY DEF RunInv, Placed
    <2>2. 1 \in 1..Len(Program(r.cmd)) /\ 1..(1 - 1) = {}
        BY <2>1, ProgramLength
    <2> QED  BY <1>1, <2>1, <2>2 DEF Placed, Reaches
<1>3. Connected(e)
    BY <1>1 DEF RunInv, Connected, ChainOf
<1>4. Verifying(e)
    BY <1>1 DEF Verifying, VerificationShape, NotVerifying
<1>5. Thrifty(e)
    BY <1>1 DEF Thrifty, SentNothing
<1> QED  BY <1>1, <1>2, <1>3, <1>4, <1>5 DEF RunInv, e

LEMMA SteppedFields ==
    ASSUME NEW r, RunShape(r), r.pc < Len(Program(r.cmd))
    PROVE  LET n == Stepped(r) IN
           /\ RunShape(n)
           /\ n.cmd = r.cmd /\ n.status = r.status /\ n.reason = r.reason /\ n.pc = r.pc + 1
           /\ n.step = Program(r.cmd)[r.pc + 1] /\ n.start = r.start /\ n.chain = r.chain
           /\ n.known = r.known /\ n.copy = r.copy /\ n.verification = r.verification
           /\ n.crp = r.crp /\ n.done = r.done
           /\ n.clean = r.clean /\ n.alone = r.alone /\ n.prepared = r.prepared
BY DEF Stepped, RunShape, RunFields

LEMMA SteppedKeeps ==
    ASSUME NEW r, RunShape(r)
    PROVE  /\ Stepped(r).cmd = r.cmd /\ Stepped(r).start = r.start
           /\ Stepped(r).alone = r.alone
           /\ Stepped(r).status # "finished" =>
                 /\ Stepped(r).pc = r.pc + 1 /\ Stepped(r).status = r.status
                 /\ Stepped(r).known = r.known /\ Stepped(r).copy = r.copy
BY DEF Stepped, Ended, RunShape, RunFields

LEMMA FinishedLast ==
    ASSUME NEW r, RunShape(r), r.pc \in 1..Len(Program(r.cmd)), Len(Program(r.cmd)) \in Nat,
           r.status = "running"
    PROVE  Stepped(r).status = "finished" => r.pc = Len(Program(r.cmd))
<1>1. CASE r.pc < Len(Program(r.cmd))
    <2>1. Stepped(r).status = "running"
        BY <1>1, SteppedFields
    <2> QED  BY <2>1
<1>2. CASE ~(r.pc < Len(Program(r.cmd)))
    BY <1>2
<1> QED  BY <1>1, <1>2

\* A run that did its step is again as it should be.
LEMMA SteppedRun ==
    ASSUME NEW r, NEW run, RunInv(r), r.status = "running", r.step.op # "throw",
           RunShape(run), run.cmd = r.cmd, run.status = r.status, run.pc = r.pc, run.start = r.start,
           run.chain = ChainOf(r), Verifying(run),
           r.step.op = "set-dre" => run.known = r.known /\ run.crp = r.crp
    PROVE  RunInv(Stepped(run))
<1> DEFINE n == Stepped(run)
<1>1. /\ r.cmd \in Commands /\ r.pc \in 1..Len(Program(r.cmd))
      /\ r.step = Program(r.cmd)[r.pc] /\ Reaches(Program(r.cmd), r.pc)
    BY DEF RunInv, Placed
<1>2. Len(Program(r.cmd)) \in Nat
    BY <1>1, ProgramLength
<1>3. CASE run.pc < Len(Program(run.cmd))
    <2>1. /\ RunShape(n)
          /\ n.cmd = r.cmd /\ n.status = r.status /\ n.pc = r.pc + 1
          /\ n.step = Program(r.cmd)[r.pc + 1] /\ n.start = r.start /\ n.chain = ChainOf(r)
          /\ n.known = run.known /\ n.verification = run.verification /\ n.crp = run.crp
        BY <1>3, SteppedFields
    <2> HIDE DEF n
    <2>2. r.pc \in Int /\ r.pc + 1 \in 1..Len(Program(r.cmd)) /\ \A i \in 1..(r.pc + 1 - 1) : i \in 1..(r.pc - 1) \/ i = r.pc
        BY <1>1, <1>2, <1>3
    <2>3. Placed(n)
        BY <1>1, <2>1, <2>2 DEF Placed, Reaches
    <2>4. Connected(n)
        BY <2>1 DEF Connected, ChainOf
    <2>5. Verifying(n)
        BY <2>1 DEF Verifying
    <2>6. ASSUME \A i \in 1..(n.pc - 1) : Program(n.cmd)[i].op = "set-dre"
          PROVE  SentNothing(n)
        <3>1. \A i \in 1..(r.pc - 1) : i \in 1..(r.pc + 1 - 1)
            BY <2>2
        <3>2. r.pc \in 1..(r.pc + 1 - 1)
            BY <1>1, <2>2
        <3>3. r.step.op = "set-dre" /\ SentNothing(r)
            BY <1>1, <2>1, <2>6, <3>1, <3>2 DEF RunInv, Thrifty
        <3> QED  BY <2>1, <3>3 DEF SentNothing
    <2>7. n.status # "failed"
        BY <2>1
    <2> QED  BY <2>1, <2>3, <2>4, <2>5, <2>6, <2>7 DEF RunInv, Thrifty, n
<1>4. CASE ~(run.pc < Len(Program(run.cmd)))
    <2> DEFINE e == Ended(run, "finished")
    <2>1. n = e
        BY <1>4 DEF Stepped
    <2>2. /\ RunShape(e)
          /\ e.cmd = r.cmd /\ e.status = "finished" /\ e.pc = 1
          /\ e.step = Program(r.cmd)[1] /\ e.start = r.start /\ e.chain = ChainOf(r)
          /\ e.known = <<>> /\ e.verification = NotVerifying /\ e.crp = "none"
        BY EndedFields
    <2> HIDE DEF e
    <2>3. 1 \in 1..Len(Program(r.cmd)) /\ 1..(1 - 1) = {}
        BY <1>1, ProgramLength
    <2>4. Placed(e)
        BY <1>1, <2>2, <2>3 DEF Placed, Reaches
    <2>5. Connected(e) /\ Thrifty(e)
        BY <2>2 DEF Connected, ChainOf, Thrifty, SentNothing
    <2>6. Verifying(e)
        BY <2>2 DEF Verifying, VerificationShape, NotVerifying
    <2> QED  BY <2>1, <2>2, <2>4, <2>5, <2>6 DEF RunInv
<1> QED  BY <1>3, <1>4

\* A run that fails stays where it is.
LEMMA FailedRun ==
    ASSUME NEW r, NEW f, RunInv(r), r.status = "running",
           RunShape(f), f.cmd = r.cmd, f.status = "failed", f.pc = r.pc, f.step = r.step,
           f.start = r.start, f.chain = r.chain, f.known = r.known, f.verification = r.verification,
           f.crp = r.crp,
           \/ r.step.op = "throw" /\ f.reason = r.step.arg
           \/ f.reason \notin ConfigReasons
           \/ ~Verify(r.cmd)
    PROVE  RunInv(f)
<1>1. Placed(f) /\ Connected(f) /\ Verifying(f)
    BY DEF RunInv, Placed, Connected, ChainOf, Verifying
<1>2. ASSUME \A i \in 1..(f.pc - 1) : Program(f.cmd)[i].op = "set-dre"
      PROVE  SentNothing(f)
    BY <1>2 DEF RunInv, Thrifty, SentNothing
<1>3. ASSUME f.reason \in ConfigReasons, Verify(f.cmd)
      PROVE  SentNothing(f)
    <2>1. r.cmd \in Commands /\ r.pc \in 1..Len(Program(r.cmd)) /\ Reaches(Program(r.cmd), r.pc)
        BY DEF RunInv, Placed
    <2>2. ThrowsConfig(Program(r.cmd)[r.pc])
        BY <1>3 DEF RunInv, Placed, ThrowsConfig
    <2>3. \A i \in 1..(r.pc - 1) : Program(r.cmd)[i].op = "set-dre"
        BY <1>3, <2>1, <2>2, CarefulProgram DEF Careful
    <2> QED  BY <1>2, <2>3
<1> QED  BY <1>1, <1>2, <1>3 DEF RunInv, Thrifty

-----------------------------------------------------------------------------
(* All runs                                                                  *)

RunsInv ==
    /\ plan \in Plans
    /\ starts \in Nat
    /\ \A p \in DOMAIN runs :
          RunInv(runs[p]) /\ runs[p].cmd \in plan /\ runs[p].start \in 1..starts
    /\ \A p, q \in DOMAIN runs : runs[p].start = runs[q].start => p = q

\* Steps from which a run knows an address, or a number, more.
LearningOps == {"deploy", "get", "getProposalsCount", "proposalId"}

\* Only the run of p changes, by one step, and it is again as it should be.
Moves(p) ==
    /\ DOMAIN runs' = DOMAIN runs
    /\ \A q \in DOMAIN runs \ {p} : runs'[q] = runs[q]
    /\ RunInv(runs'[p])
    /\ runs'[p].cmd = runs[p].cmd
    /\ runs'[p].start = runs[p].start
    /\ runs'[p].alone = runs[p].alone
    /\ runs'[p].status = "running" =>
          /\ \/ runs'[p].pc = runs[p].pc + 1
             \/ /\ runs[p].step.op = "verify" /\ runs'[p].pc = runs[p].pc
                /\ runs'[p].copy = runs[p].copy
          /\ runs[p].step.op \notin LearningOps => runs'[p].known = runs[p].known
    /\ runs'[p].status = "finished" => runs[p].pc = Len(Program(runs[p].cmd))

\* The runs are those of before, whatever else they did.
SameCommands ==
    /\ plan' = plan /\ starts' = starts /\ DOMAIN runs' = DOMAIN runs
    /\ \A q \in DOMAIN runs : runs'[q].cmd = runs[q].cmd /\ runs'[q].start = runs[q].start

LEMMA MovesKeep ==
    ASSUME NEW p, p \in DOMAIN runs, RunsInv, Moves(p), plan' = plan, starts' = starts
    PROVE  RunsInv'
<1>1. \A q \in DOMAIN runs' :
         RunInv(runs'[q]) /\ runs'[q].cmd = runs[q].cmd /\ runs'[q].start = runs[q].start
    BY DEF Moves, RunsInv
<1>2. DOMAIN runs' = DOMAIN runs
    BY DEF Moves
<1> QED  BY <1>1, <1>2 DEF RunsInv

LEMMA ContinueMoves ==
    ASSUME NEW p, NEW run, RunsInv, Running(p), runs[p].step.op # "throw", Continue(p, run),
           RunShape(run), run.cmd = runs[p].cmd, run.status = runs[p].status, run.pc = runs[p].pc,
           run.start = runs[p].start, run.alone = runs[p].alone, run.chain = ChainOf(runs[p]),
           Verifying(run),
           runs[p].step.op = "set-dre" => run.crp = runs[p].crp,
           runs[p].step.op \notin LearningOps => run.known = runs[p].known
    PROVE  Moves(p) /\ (runs'[p].status = "running" => runs'[p].known = run.known /\ runs'[p].copy = run.copy)
<1>1. p \in DOMAIN runs /\ runs[p].status = "running" /\ RunInv(runs[p])
    BY DEF Running, RunsInv
<1>2. RunInv(Stepped(run))
    BY <1>1, SteppedRun DEF LearningOps
<1>3. /\ Stepped(run).cmd = run.cmd /\ Stepped(run).start = run.start
      /\ Stepped(run).alone = run.alone
      /\ Stepped(run).status = "running" =>
            /\ Stepped(run).pc = run.pc + 1
            /\ Stepped(run).known = run.known /\ Stepped(run).copy = run.copy
    BY SteppedKeeps
<1>4. /\ DOMAIN runs' = DOMAIN runs
      /\ runs'[p] = Stepped(run)
      /\ \A q \in DOMAIN runs \ {p} : runs'[q] = runs[q]
    BY <1>1 DEF Continue
<1>5. run.pc \in 1..Len(Program(run.cmd)) /\ Len(Program(run.cmd)) \in Nat
    BY <1>1, ProgramLength DEF RunInv, Placed
<1>6. Stepped(run).status = "finished" => runs[p].pc = Len(Program(runs[p].cmd))
    BY <1>1, <1>5, FinishedLast
<1> QED  BY <1>2, <1>3, <1>4, <1>6 DEF Moves

\* The chain of a run that is past its first step.
LEMMA ConnectedRun ==
    ASSUME NEW p, RunsInv, Running(p), runs[p].step.op \notin {"set-dre", "throw"}
    PROVE  runs[p].chain = ChainOf(runs[p])
<1>1. RunInv(runs[p])
    BY DEF Running, RunsInv
<1>2. /\ runs[p].cmd \in Commands
      /\ runs[p].pc \in 1..Len(Program(runs[p].cmd))
      /\ runs[p].step = Program(runs[p].cmd)[runs[p].pc]
    BY <1>1 DEF RunInv, Placed
<1>3. runs[p].pc # 1
    BY <1>2, ProgramLength
<1>4. Len(Program(runs[p].cmd)) \in Nat
    BY <1>2, ProgramLength
<1>5. runs[p].pc > 1
    BY <1>2, <1>3, <1>4
<1> QED  BY <1>1, <1>5 DEF RunInv, Connected

\* Steps after which the run holds something else, or nothing else.
LEMMA ContinueUnchanged ==
    ASSUME NEW p, NEW op, op \notin {"set-dre", "throw"}, RunsInv, At(p, op), Continue(p, runs[p])
    PROVE  Moves(p)
<1>1. Running(p) /\ runs[p].step.op = op /\ RunInv(runs[p])
    BY DEF At, Running, RunsInv
<1>2. RunShape(runs[p]) /\ Verifying(runs[p])
    BY <1>1 DEF RunInv
<1>3. runs[p].chain = ChainOf(runs[p])
    BY <1>1, ConnectedRun
<1> QED  BY <1>1, <1>2, <1>3, ContinueMoves

LEMMA ThrowsMoves ==
    ASSUME NEW p, NEW reason, RunsInv, Running(p), Throws(p, reason),
           \/ runs[p].step.op = "throw" /\ reason = runs[p].step.arg
           \/ reason \notin ConfigReasons
           \/ ~Verify(runs[p].cmd)
    PROVE  Moves(p)
<1>1. p \in DOMAIN runs /\ runs[p].status = "running" /\ RunInv(runs[p])
    BY DEF Running, RunsInv
<1> DEFINE r == runs[p]
           f == [r EXCEPT !.status = "failed", !.reason = reason]
<1>2. /\ DOMAIN runs' = DOMAIN runs
      /\ runs'[p] = f
      /\ \A q \in DOMAIN runs \ {p} : runs'[q] = runs[q]
    BY <1>1 DEF Throws
<1> HIDE DEF r
<1>3. RunShape(r)
    BY <1>1 DEF RunInv, r
<1>4. /\ RunShape(f) /\ f.cmd = r.cmd /\ f.status = "failed" /\ f.reason = reason /\ f.pc = r.pc
      /\ f.alone = r.alone
      /\ f.step = r.step /\ f.start = r.start /\ f.chain = r.chain /\ f.known = r.known
      /\ f.verification = r.verification /\ f.crp = r.crp
    BY <1>3 DEF RunShape, RunFields
<1> HIDE DEF f
<1>5. RunInv(f)
    BY <1>1, <1>4, FailedRun DEF r
<1> QED  BY <1>2, <1>4, <1>5 DEF Moves, r

LEMMA ThrowMoves ==
    ASSUME NEW p \in Procs, RunsInv, Throw(p)
    PROVE  Moves(p)
<1>1. Running(p) /\ runs[p].step.op = "throw" /\ Throws(p, runs[p].step.arg)
    BY DEF Throw, At, Arg
<1> QED  BY <1>1, ThrowsMoves

LEMMA ShapedRun ==
    ASSUME NEW p, RunsInv, Running(p)
    PROVE  /\ p \in DOMAIN runs /\ RunInv(runs[p]) /\ RunShape(runs[p]) /\ Verifying(runs[p])
           /\ runs[p].status = "running"
BY DEF Running, RunsInv, RunInv

\* set-dre writes the chain of the run, and what it found there, or nothing.
LEMMA ConnectContinues ==
    ASSUME NEW p, Connect(p)
    PROVE  /\ At(p, "set-dre") /\ plan' = plan /\ db' = db /\ starts' = starts /\ faults' = faults
           /\ \/ runs[p].chain # NoChain /\ Continue(p, runs[p])
              \/ \E ready : Continue(p, [runs[p] EXCEPT !.chain = ChainOf(runs[p]), !.prepared = ready])
<1>1. ASSUME NEW ready, SetDre(p, ready)
      PROVE  /\ At(p, "set-dre") /\ plan' = plan /\ db' = db /\ starts' = starts /\ faults' = faults
             /\ \/ runs[p].chain # NoChain /\ Continue(p, runs[p])
                \/ \E v : Continue(p, [runs[p] EXCEPT !.chain = ChainOf(runs[p]), !.prepared = v])
    <2>1. CASE runs[p].chain # NoChain
        BY <1>1, <2>1 DEF SetDre
    <2>2. CASE runs[p].chain = NoChain
        <3>1. Continue(p, [runs[p] EXCEPT !.chain = ChainOf(runs[p]), !.prepared = ready])
            BY <1>1, <2>2 DEF SetDre
        <3> QED  BY <1>1, <3>1 DEF SetDre
    <2> QED  BY <2>1, <2>2
<1>2. CASE ~HasMain(runs[p].cmd) \/ ChainOf(runs[p]) \in DOMAIN governance \cup DOMAIN contracts
    <2> DEFINE ready == Prepared(runs[p].cmd, ContractsOn(ChainOf(runs[p])))
    <2>1. SetDre(p, ready)
        BY <1>2 DEF Connect
    <2> HIDE DEF ready
    <2> QED  BY <2>1, <1>1
<1>3. CASE ~(~HasMain(runs[p].cmd) \/ ChainOf(runs[p]) \in DOMAIN governance \cup DOMAIN contracts)
    <2>1. PICK head \in Heads(runs[p].cmd) : SetDre(p, ReadyAt(runs[p].cmd, head))
        BY <1>3 DEF Connect
    <2> DEFINE ready == ReadyAt(runs[p].cmd, head)
    <2>2. SetDre(p, ready)
        BY <2>1
    <2> HIDE DEF ready
    <2> QED  BY <2>2, <1>1
<1> QED  BY <1>2, <1>3

LEMMA ConnectMoves ==
    ASSUME NEW p \in Procs, RunsInv, Connect(p)
    PROVE  Moves(p) /\ (runs'[p].status = "running" => runs'[p].copy = runs[p].copy)
<1> DEFINE r == runs[p]
<1>1. Running(p) /\ r.step.op = "set-dre" /\ RunInv(r)
    BY ConnectContinues, ShapedRun DEF At
<1>2. RunShape(r) /\ Verifying(r)
    BY <1>1 DEF RunInv
<1>3. CASE r.chain # NoChain /\ Continue(p, r)
    <2>1. r.chain = ChainOf(r)
        BY <1>1, <1>3 DEF RunInv, Connected
    <2> QED  BY <1>1, <1>2, <1>3, <2>1, ContinueMoves DEF LearningOps
<1>4. CASE \E ready : Continue(p, [r EXCEPT !.chain = ChainOf(r), !.prepared = ready])
    <2> DEFINE chain == ChainOf(r)
    <2>1. PICK ready : Continue(p, [r EXCEPT !.chain = chain, !.prepared = ready])
        BY <1>4
    <2> DEFINE run == [r EXCEPT !.chain = chain, !.prepared = ready]
    <2>2. Continue(p, run) /\ chain = ChainOf(r)
        BY <2>1
    <2> HIDE DEF chain
    <2>3. /\ RunShape(run) /\ run.cmd = r.cmd /\ run.status = r.status /\ run.pc = r.pc
          /\ run.start = r.start /\ run.alone = r.alone /\ run.chain = chain
          /\ run.verification = r.verification
          /\ run.known = r.known /\ run.crp = r.crp /\ run.copy = r.copy
        BY <1>2 DEF RunShape, RunFields
    <2>4. Verifying(run)
        BY <1>2, <2>3 DEF Verifying
    <2> HIDE DEF run
    <2> QED  BY <1>1, <2>2, <2>3, <2>4, ContinueMoves
<1> QED  BY <1>3, <1>4, ConnectContinues

\* Continue with one of the fields that nothing else depends on.
LEMMA ContinueWith ==
    ASSUME NEW p, NEW run, NEW op, op \notin {"set-dre", "throw"}, RunsInv, At(p, op), Continue(p, run),
           RunShape(run), run.cmd = runs[p].cmd, run.status = runs[p].status, run.pc = runs[p].pc,
           run.start = runs[p].start, run.alone = runs[p].alone, run.chain = runs[p].chain,
           Verifying(run), op \notin LearningOps => run.known = runs[p].known
    PROVE  Moves(p) /\ (runs'[p].status = "running" => runs'[p].known = run.known /\ runs'[p].copy = run.copy)
<1>1. Running(p) /\ runs[p].step.op = op
    BY DEF At
<1>2. runs[p].chain = ChainOf(runs[p])
    BY <1>1, ConnectedRun
<1> QED  BY <1>1, <1>2, ContinueMoves

LEMMA LearnedRun ==
    ASSUME NEW r, NEW v, RunShape(r), Verifying(r)
    PROVE  LET run == [r EXCEPT !.known = v] IN
           /\ RunShape(run) /\ Verifying(run) /\ run.cmd = r.cmd /\ run.status = r.status
           /\ run.pc = r.pc /\ run.start = r.start /\ run.alone = r.alone /\ run.chain = r.chain
           /\ run.known = v
BY DEF RunShape, RunFields, Verifying

LEMMA ReadRun ==
    ASSUME NEW r, NEW v, RunShape(r), Verifying(r)
    PROVE  LET run == [r EXCEPT !.copy = v] IN
           /\ RunShape(run) /\ Verifying(run) /\ run.cmd = r.cmd /\ run.status = r.status
           /\ run.pc = r.pc /\ run.start = r.start /\ run.alone = r.alone /\ run.chain = r.chain
           /\ run.known = r.known /\ run.copy = v
BY DEF RunShape, RunFields, Verifying

\* Continue with another value of a field that the program's course ignores.
LEMMA ContinueWithField ==
    ASSUME NEW p, NEW v, NEW op, op \notin {"set-dre", "throw"}, RunsInv, At(p, op),
           \/ Continue(p, runs[p])
           \/ op \in LearningOps /\ Continue(p, [runs[p] EXCEPT !.known = v])
           \/ Continue(p, [runs[p] EXCEPT !.copy = v])
           \/ Continue(p, [runs[p] EXCEPT !.crp = v])
           \/ Continue(p, [runs[p] EXCEPT !.done = v])
    PROVE  Moves(p)
<1> DEFINE r == runs[p]
<1>1. Running(p)
    BY DEF At
<1>2. RunShape(r) /\ Verifying(r)
    BY <1>1, ShapedRun
<1>3. CASE Continue(p, r)
    BY <1>2, <1>3, ContinueWith
<1>4. CASE op \in LearningOps /\ Continue(p, [r EXCEPT !.known = v])
    <2> DEFINE run == [r EXCEPT !.known = v]
    <2>1. /\ RunShape(run) /\ Verifying(run) /\ run.cmd = r.cmd /\ run.status = r.status
          /\ run.pc = r.pc /\ run.start = r.start /\ run.alone = r.alone /\ run.chain = r.chain
        BY <1>2, LearnedRun
    <2>2. Continue(p, run)
        BY <1>4
    <2> HIDE DEF run
    <2> QED  BY <1>4, <2>1, <2>2, ContinueWith
<1>5. CASE Continue(p, [r EXCEPT !.copy = v])
    BY <1>2, <1>5, ReadRun, ContinueWith
<1>6. ASSUME NEW run \in {[r EXCEPT !.crp = v], [r EXCEPT !.done = v]},
             Continue(p, run)
      PROVE  Moves(p)
    <2>1. /\ RunShape(run) /\ Verifying(run) /\ run.cmd = r.cmd /\ run.status = r.status
          /\ run.pc = r.pc /\ run.start = r.start /\ run.alone = r.alone /\ run.chain = r.chain
          /\ run.known = r.known
        BY <1>2 DEF RunShape, RunFields, Verifying
    <2> QED  BY <1>6, <2>1, ContinueWith
<1> QED  BY <1>3, <1>4, <1>5, <1>6

LEMMA DeployMoves ==
    ASSUME NEW p \in Procs, RunsInv, Deploy(p)
    PROVE  Moves(p)
BY ContinueWithField DEF Deploy, LearningOps

LEMMA ReadDbMoves ==
    ASSUME NEW p \in Procs, RunsInv, ReadDb(p)
    PROVE  Moves(p)
BY ContinueWithField DEF ReadDb

LEMMA WriteDbMoves ==
    ASSUME NEW p \in Procs, RunsInv, WriteDb(p)
    PROVE  Moves(p)
BY ContinueWithField DEF WriteDb

\* What a failed transaction and a revert are called is no matter of configuration.
LEMMA ThrowsTransaction ==
    ASSUME NEW p, NEW reason \in {"transaction", "revert", "not registered"}, RunsInv, Running(p),
           Throws(p, reason)
    PROVE  Moves(p)
BY ThrowsMoves DEF ConfigReasons

LEMMA WaitForTxMoves ==
    ASSUME NEW p \in Procs, RunsInv, WaitForTx(p)
    PROVE  Moves(p)
<1>1. At(p, "wait") /\ Running(p) /\ (Throws(p, "transaction") \/ Continue(p, runs[p]))
    BY DEF WaitForTx, At
<1> QED  BY <1>1, ThrowsTransaction, ContinueWithField

LEMMA GetMoves ==
    ASSUME NEW p \in Procs, RunsInv, Get(p)
    PROVE  Moves(p)
<1>1. At(p, "get") /\ Running(p)
    BY DEF Get, At
<1>2. \/ Throws(p, "not registered")
      \/ \E v : Continue(p, [runs[p] EXCEPT !.known = v])
    BY DEF Get
<1> QED  BY <1>1, <1>2, ThrowsTransaction, ContinueWithField DEF LearningOps

LEMMA InitializeMoves ==
    ASSUME NEW p \in Procs, RunsInv, Initialize(p)
    PROVE  Moves(p)
<1>1. At(p, "initialize") /\ Running(p) /\ (Throws(p, "revert") \/ Continue(p, runs[p]))
    BY DEF Initialize, At
<1> QED  BY <1>1, ThrowsTransaction, ContinueWithField

LEMMA CrpMoves ==
    ASSUME NEW p \in Procs, RunsInv, NewCrp(p) \/ Subscribe(p) \/ AwaitCrp(p) \/ Transact(p)
    PROVE  Moves(p)
<1>1. CASE NewCrp(p)
    BY <1>1, ContinueWithField DEF NewCrp
<1>2. CASE Subscribe(p)
    <2>1. At(p, "subscribe") /\ \E v : Continue(p, [runs[p] EXCEPT !.crp = v])
        BY <1>2 DEF Subscribe
    <2> QED  BY <2>1, ContinueWithField
<1>3. CASE AwaitCrp(p)
    BY <1>3, ContinueWithField DEF AwaitCrp
<1>4. CASE Transact(p)
    <2>1. At(p, "tx") /\ Running(p)
        BY <1>4 DEF Transact, At
    <2>2. Throws(p, "revert") \/ \E v : Continue(p, [runs[p] EXCEPT !.done = v])
        BY <1>4 DEF Transact
    <2> QED  BY <2>1, <2>2, ThrowsTransaction, ContinueWithField
<1> QED  BY <1>1, <1>2, <1>3, <1>4

\* A retry keeps the file; an attempt that ends the verification ends its need.
LEMMA RetryKeepsFile ==
    ASSUME NEW v, NEW answer, VerificationShape(v), v.active => v.file
    PROVE  LET w == RunTaskWithRetry(v, answer) IN
           VerificationShape(w) /\ (w.active => w.file)
BY DEF RunTaskWithRetry, Retry, VerificationShape

LEMMA VerifyStepMoves ==
    ASSUME NEW p \in Procs, RunsInv, VerifyStep(p)
    PROVE  Moves(p)
<1> DEFINE r == runs[p]
<1>1. At(p, "verify") /\ Running(p)
    BY DEF VerifyStep, At
<1>2. p \in DOMAIN runs /\ RunInv(r) /\ RunShape(r) /\ Verifying(r) /\ r.status = "running"
    BY <1>1, ShapedRun
<1>3. ASSUME NEW v, VerificationShape(v), v.active => v.file, r' = [r EXCEPT !.verification = v],
             DOMAIN runs' = DOMAIN runs, \A q \in DOMAIN runs \ {p} : runs'[q] = runs[q]
      PROVE  Moves(p)
    <2> DEFINE run == [r EXCEPT !.verification = v]
    <2>1. /\ RunShape(run) /\ run.cmd = r.cmd /\ run.status = "running" /\ run.pc = r.pc
          /\ run.step = r.step /\ run.start = r.start /\ run.chain = r.chain
          /\ run.verification = v /\ run.known = r.known /\ run.crp = r.crp /\ run.reason = r.reason
          /\ run.alone = r.alone /\ run.copy = r.copy
        BY <1>2 DEF RunShape, RunFields
    <2> HIDE DEF run
    <2>2. RunInv(run)
        BY <1>2, <1>3, <2>1
        DEF RunInv, Placed, Connected, ChainOf, Verifying, Thrifty, SentNothing
    <2>3. r.step.op = "verify"
        BY <1>1 DEF At
    <2> QED  BY <1>3, <2>1, <2>2, <2>3 DEF Moves, run
<1>4. CASE ~r.verification.active
    <2>1. runs' = [runs EXCEPT ![p].verification = VerifyContract]
        BY <1>4 DEF VerifyStep
    <2>2. VerificationShape(VerifyContract) /\ VerifyContract.file
        BY DEF VerificationShape, VerifyContract
    <2>3. r' = [r EXCEPT !.verification = VerifyContract]
        BY <1>2, <2>1
    <2>4. DOMAIN runs' = DOMAIN runs /\ \A q \in DOMAIN runs \ {p} : runs'[q] = runs[q]
        BY <2>1
    <2> QED  BY <1>3, <2>2, <2>3, <2>4
<1>5. CASE r.verification.active
    <2>1. PICK answer \in Answers :
            LET v == RunTaskWithRetry(r.verification, answer)
                run == [r EXCEPT !.verification = v]
            IN IF v.active THEN runs' = [runs EXCEPT ![p] = run]
               ELSE Continue(p, [run EXCEPT !.verification = NotVerifying])
        BY <1>5 DEF VerifyStep
    <2> DEFINE v == RunTaskWithRetry(r.verification, answer)
    <2>2. VerificationShape(v) /\ (v.active => v.file)
        BY <1>2, RetryKeepsFile DEF Verifying
    <2> HIDE DEF v
    <2>3. CASE v.active
        <3>1. runs' = [runs EXCEPT ![p] = [r EXCEPT !.verification = v]]
            BY <2>1, <2>3 DEF v
        <3>2. r' = [r EXCEPT !.verification = v]
            BY <1>2, <3>1
        <3>3. DOMAIN runs' = DOMAIN runs /\ \A q \in DOMAIN runs \ {p} : runs'[q] = runs[q]
            BY <3>1
        <3> QED  BY <1>3, <2>2, <3>2, <3>3
    <2>4. CASE ~v.active
        <3> DEFINE run == [[r EXCEPT !.verification = v] EXCEPT !.verification = NotVerifying]
        <3>1. Continue(p, run)
            BY <2>1, <2>4 DEF v
        <3>2. /\ RunShape(run) /\ run.cmd = r.cmd /\ run.status = r.status /\ run.pc = r.pc
              /\ run.start = r.start /\ run.alone = r.alone /\ run.chain = r.chain
              /\ run.known = r.known /\ run.verification = NotVerifying
            BY <1>2 DEF RunShape, RunFields
        <3> HIDE DEF run
        <3>3. Verifying(run)
            BY <3>2 DEF Verifying, VerificationShape, NotVerifying
        <3> QED  BY <1>1, <3>1, <3>2, <3>3, ContinueWith
    <2> QED  BY <2>3, <2>4
<1> QED  BY <1>4, <1>5

\* The step a run is at is one its program reaches, and does what it should.
LEMMA GoodStep ==
    ASSUME NEW p, RunsInv, Running(p)
    PROVE  Good(runs[p].cmd, Program(runs[p].cmd), runs[p].pc)
<1>1. /\ runs[p].cmd \in Commands /\ runs[p].pc \in 1..Len(Program(runs[p].cmd))
      /\ Reaches(Program(runs[p].cmd), runs[p].pc)
    BY ShapedRun DEF RunInv, Placed
<1> QED  BY <1>1, SoundProgram DEF SoundTask, Sound

LEMMA StepOfProgram ==
    ASSUME NEW p, RunsInv, Running(p)
    PROVE  runs[p].step = Program(runs[p].cmd)[runs[p].pc] /\ runs[p].cmd \in Commands
BY ShapedRun DEF RunInv, Placed

LEMMA CreateMoves ==
    ASSUME NEW p \in Procs, RunsInv, Create(p)
    PROVE  Moves(p)
<1>1. At(p, "create") /\ Running(p) /\ runs[p].step.op = "create"
    BY DEF Create, At
<1>2. CASE Throws(p, "revert")
    BY <1>1, <1>2, ThrowsTransaction
<1>3. CASE Continue(p, runs[p])
    BY <1>1, <1>3, ContinueWithField
<1> QED  BY <1>2, <1>3 DEF Create, MinedOrRevert

LEMMA GovernanceMoves ==
    ASSUME NEW p \in Procs, RunsInv, GovernanceStep(p)
    PROVE  Moves(p)
<1>1. CASE Connect(p)
    BY <1>1, ConnectMoves
<1>2. CASE Transactions(p)
    <2>1. At(p, "transactions") /\ Running(p)
        BY <1>2 DEF Transactions, At
    <2>2. Continue(p, runs[p]) \/ Throws(p, "revert")
        BY <1>2 DEF Transactions
    <2> QED  BY <2>1, <2>2, ThrowsTransaction, ContinueWithField
<1>3. CASE AdvanceBlockTo(p)
    BY <1>3, ContinueWithField DEF AdvanceBlockTo
<1>4. CASE IncreaseTimeTenderly(p)
    BY <1>4, ContinueWithField DEF IncreaseTimeTenderly
<1>5. CASE GetProposalsCount(p)
    <2>1. CASE At(p, "getProposalsCount")
               /\ Continue(p, [runs[p] EXCEPT !.known = Put(@, "proposalId", On(p).count)])
        BY <2>1, ContinueWithField DEF LearningOps
    <2>2. CASE At(p, "proposalId")
               /\ Continue(p, [runs[p] EXCEPT !.known = Put(@, "proposalId", Arg(p))])
        BY <2>2, ContinueWithField DEF LearningOps
    <2> QED  BY <1>5, <2>1, <2>2 DEF GetProposalsCount
<1>6. CASE Create(p)
    BY <1>6, CreateMoves
<1>7. CASE SubmitVote(p) \/ Queue(p) \/ Execute(p)
    <2>1. \E op \in {"submitVote", "queue", "execute"} : At(p, op)
        BY <1>7 DEF SubmitVote, Queue, Execute
    <2>2. Running(p)
        BY <2>1 DEF At
    <2>3. Continue(p, runs[p]) \/ Throws(p, "revert")
        BY <1>7 DEF SubmitVote, Queue, Execute, MinedOrRevert
    <2> QED  BY <2>1, <2>2, <2>3, ThrowsTransaction, ContinueWithField
<1> QED  BY <1>1, <1>2, <1>3, <1>4, <1>5, <1>6, <1>7 DEF GovernanceStep

LEMMA DeploymentMoves ==
    ASSUME NEW p \in Procs, RunsInv, DeploymentStep(p)
    PROVE  Moves(p)
BY ThrowMoves, DeployMoves, ReadDbMoves, WriteDbMoves, WaitForTxMoves, VerifyStepMoves, GetMoves,
   InitializeMoves, CrpMoves DEF DeploymentStep

\* A step of a process leaves the plan and the number of commands alone.
LEMMA TaskStepMoves ==
    ASSUME NEW p \in Procs, RunsInv, TaskStep(p)
    PROVE  Moves(p) /\ plan' = plan /\ starts' = starts /\ Running(p)
<1>1. CASE GovernanceStep(p)
    <2>1. CASE Connect(p)
        BY <1>1, <2>1, ConnectContinues, GovernanceMoves DEF At
    <2>2. CASE ~Connect(p)
        <3>1. plan' = plan /\ starts' = starts
            BY <1>1, <2>2 DEF GovernanceStep, Transactions, AdvanceBlockTo,
               IncreaseTimeTenderly, GetProposalsCount, Create, SubmitVote, Queue, Execute
        <3>2. Running(p)
            BY <1>1, <2>2 DEF GovernanceStep, Transactions, AdvanceBlockTo,
               IncreaseTimeTenderly, GetProposalsCount, Create, SubmitVote, Queue, Execute, At
        <3> QED  BY <1>1, <3>1, <3>2, GovernanceMoves
    <2> QED  BY <2>1, <2>2
<1>2. CASE DeploymentStep(p)
    <2>1. plan' = plan /\ starts' = starts
        BY <1>2 DEF DeploymentStep, Throw, Deploy, ReadDb, WriteDb, WaitForTx, VerifyStep, Get,
           Initialize, NewCrp, Subscribe, AwaitCrp, Transact
    <2>2. Running(p)
        BY <1>2 DEF DeploymentStep, Throw, Deploy, ReadDb, WriteDb, WaitForTx, VerifyStep, Get,
           Initialize, NewCrp, Subscribe, AwaitCrp, Transact, At
    <2> QED  BY <1>2, <2>1, <2>2, DeploymentMoves
<1> QED  BY <1>1, <1>2 DEF TaskStep

-----------------------------------------------------------------------------
(* Steps of the environment                                                  *)

LEMMA FaultMoves ==
    ASSUME NEW p \in Procs, RunsInv, Kill(p) \/ Fault(p)
    PROVE  Moves(p) /\ plan' = plan /\ starts' = starts /\ Running(p)
<1> DEFINE r == runs[p]
<1>1. CASE Kill(p)
    <2>1. Running(p) /\ plan' = plan /\ starts' = starts
        BY <1>1 DEF Kill
    <2>2. p \in DOMAIN runs /\ RunInv(r) /\ RunShape(r)
        BY <2>1, ShapedRun
    <2>3. /\ DOMAIN runs' = DOMAIN runs /\ r' = Ended(r, "killed")
          /\ \A q \in DOMAIN runs \ {p} : runs'[q] = runs[q]
        BY <1>1, <2>2 DEF Kill
    <2>4. /\ RunInv(Ended(r, "killed"))
          /\ Ended(r, "killed").cmd = r.cmd /\ Ended(r, "killed").start = r.start
          /\ Ended(r, "killed").alone = r.alone /\ Ended(r, "killed").status = "killed"
        BY <2>2, EndedRun, EndedFields
    <2> QED  BY <2>1, <2>3, <2>4 DEF Moves
<1>2. CASE Fault(p)
    <2>1. Running(p) /\ plan' = plan /\ starts' = starts
        BY <1>2 DEF Fault, At
    <2>2. p \in DOMAIN runs /\ RunInv(r) /\ RunShape(r) /\ r.status = "running"
        BY <2>1, ShapedRun
    <2> DEFINE f == [r EXCEPT !.status = "failed", !.reason = "transaction", !.clean = FALSE]
    <2>3. /\ DOMAIN runs' = DOMAIN runs /\ r' = f
          /\ \A q \in DOMAIN runs \ {p} : runs'[q] = runs[q]
        BY <1>2, <2>2 DEF Fault, TransactionFails
    <2>4. /\ RunShape(f) /\ f.cmd = r.cmd /\ f.status = "failed" /\ f.reason = "transaction"
          /\ f.alone = r.alone /\ f.pc = r.pc /\ f.step = r.step /\ f.start = r.start /\ f.chain = r.chain
          /\ f.known = r.known /\ f.verification = r.verification /\ f.crp = r.crp
        BY <2>2 DEF RunShape, RunFields
    <2> HIDE DEF f
    <2>5. RunInv(f)
        BY <2>2, <2>4, FailedRun DEF ConfigReasons
    <2> QED  BY <2>1, <2>3, <2>4, <2>5 DEF Moves
<1> QED  BY <1>1, <1>2

\* Whether a run was alone, or met a failed transaction, changes nothing else.
LEMMA MarkedRun ==
    ASSUME NEW r, NEW v, RunInv(r)
    PROVE  /\ RunInv([r EXCEPT !.clean = v]) /\ RunInv([r EXCEPT !.alone = v])
           /\ [r EXCEPT !.clean = v].cmd = r.cmd /\ [r EXCEPT !.alone = v].cmd = r.cmd
           /\ [r EXCEPT !.clean = v].start = r.start /\ [r EXCEPT !.alone = v].start = r.start
<1>1. RunShape(r)
    BY DEF RunInv
<1>2. ASSUME NEW m \in {[r EXCEPT !.clean = v], [r EXCEPT !.alone = v]}
      PROVE  RunInv(m) /\ m.cmd = r.cmd /\ m.start = r.start
    <2>1. /\ RunShape(m) /\ m.cmd = r.cmd /\ m.status = r.status /\ m.reason = r.reason
          /\ m.pc = r.pc /\ m.step = r.step /\ m.start = r.start /\ m.chain = r.chain
          /\ m.known = r.known /\ m.verification = r.verification /\ m.crp = r.crp
        BY <1>1 DEF RunShape, RunFields
    <2> QED
        BY <2>1 DEF RunInv, Placed, Connected, ChainOf, Verifying, Thrifty, SentNothing
<1> QED  BY <1>2

LEMMA NewRunInv ==
    ASSUME NEW c \in Commands, NEW alone
    PROVE  RunInv(NewRun(c, alone)) /\ NewRun(c, alone).cmd = c /\ NewRun(c, alone).start = starts + 1
<1> DEFINE r == NewRun(c, alone)
<1>1. /\ RunShape(r) /\ r.cmd = c /\ r.status = "running" /\ r.pc = 1 /\ r.step = Program(c)[1]
      /\ r.start = starts + 1 /\ r.chain = NoChain /\ r.known = <<>> /\ r.crp = "none"
      /\ r.verification = NotVerifying
    BY DEF NewRun, RunShape, RunFields
<1> HIDE DEF r
<1>2. 1 \in 1..Len(Program(c)) /\ 1..(1 - 1) = {}
    BY ProgramLength
<1>3. Placed(r) /\ Connected(r)
    BY <1>1, <1>2 DEF Placed, Reaches, Connected
<1>4. Verifying(r) /\ Thrifty(r)
    BY <1>1 DEF Verifying, VerificationShape, NotVerifying, Thrifty, SentNothing
<1> QED  BY <1>1, <1>3, <1>4 DEF RunInv, r

LEMMA FailedToMine ==
    ASSUME NEW chain, NEW a, RunsInv, FailToMine(chain, a)
    PROVE  SameCommands /\ \A q \in DOMAIN runs : RunInv(runs'[q])
<1>1. plan' = plan /\ starts' = starts /\ runs' = [q \in DOMAIN runs |-> [runs[q] EXCEPT !.clean = FALSE]]
    BY DEF FailToMine
<1>2. DOMAIN runs' = DOMAIN runs
    BY <1>1
<1>3. \A q \in DOMAIN runs : runs'[q] = [runs[q] EXCEPT !.clean = FALSE]
    BY <1>1
<1>4. \A q \in DOMAIN runs :
        RunInv(runs'[q]) /\ runs'[q].cmd = runs[q].cmd /\ runs'[q].start = runs[q].start
    <2> TAKE q \in DOMAIN runs
    <2>1. runs'[q] = [runs[q] EXCEPT !.clean = FALSE] /\ RunInv(runs[q])
        BY <1>3 DEF RunsInv
    <2>2. /\ RunInv([runs[q] EXCEPT !.clean = FALSE])
          /\ [runs[q] EXCEPT !.clean = FALSE].cmd = runs[q].cmd
          /\ [runs[q] EXCEPT !.clean = FALSE].start = runs[q].start
        BY <2>1, MarkedRun
    <2> QED  BY <2>1, <2>2
<1> QED  BY <1>1, <1>2, <1>4 DEF SameCommands

LEMMA FailToMineKeeps ==
    ASSUME NEW chain, NEW a, RunsInv, FailToMine(chain, a)
    PROVE  RunsInv'
BY FailedToMine DEF RunsInv, SameCommands

\* A command that is started gets a number of its own.
LEMMA StartedRuns ==
    ASSUME NEW p \in Procs, NEW c \in plan, PlansAssumption, RunsInv, Start(p, c)
    PROVE  /\ plan' = plan /\ starts' = starts + 1
           /\ DOMAIN runs' = DOMAIN runs \cup {p}
           /\ \A q \in DOMAIN runs' : RunInv(runs'[q])
           /\ runs'[p].cmd = c /\ runs'[p].start = starts + 1
           /\ \A q \in DOMAIN runs' \ {p} :
                 runs'[q].cmd = runs[q].cmd /\ runs'[q].start = runs[q].start
<1> DEFINE others == {q \in DOMAIN runs \ {p} : Running(q)}
           alone(q) == runs[q].alone /\ q \notin others
           marked == [q \in DOMAIN runs |-> [runs[q] EXCEPT !.alone = alone(q)]]
           new == NewRun(c, others = {})
<1>1. plan' = plan /\ starts' = starts + 1 /\ runs' = Put(marked, p, new)
    BY DEF Start
<1>2. c \in Commands
    BY DEF RunsInv, PlansAssumption
<1>3. RunInv(new) /\ new.cmd = c /\ new.start = starts + 1
    BY <1>2, NewRunInv
<1>4. \A q \in DOMAIN runs :
        RunInv(marked[q]) /\ marked[q].cmd = runs[q].cmd /\ marked[q].start = runs[q].start
    <2> TAKE q \in DOMAIN runs
    <2> HIDE DEF alone
    <2>1. marked[q] = [runs[q] EXCEPT !.alone = alone(q)]
        OBVIOUS
    <2> HIDE DEF marked
    <2>2. RunInv(runs[q])
        BY DEF RunsInv
    <2>3. /\ RunInv([runs[q] EXCEPT !.alone = alone(q)])
          /\ [runs[q] EXCEPT !.alone = alone(q)].cmd = runs[q].cmd
          /\ [runs[q] EXCEPT !.alone = alone(q)].start = runs[q].start
        BY <2>2, MarkedRun
    <2> QED  BY <2>1, <2>3
<1>5. DOMAIN marked = DOMAIN runs
    OBVIOUS
<1> HIDE DEF marked, new
<1>6. DOMAIN runs' = DOMAIN runs \cup {p}
    BY <1>1, <1>5 DEF Put
<1>7. \A q \in DOMAIN runs' : runs'[q] = IF q = p THEN new ELSE marked[q]
    BY <1>1, <1>5 DEF Put
<1> QED  BY <1>1, <1>3, <1>4, <1>6, <1>7

LEMMA StartKeeps ==
    ASSUME NEW p \in Procs, NEW c \in plan, PlansAssumption, RunsInv, Start(p, c)
    PROVE  RunsInv'
<1>1. \A q \in DOMAIN runs' :
        /\ RunInv(runs'[q]) /\ runs'[q].cmd \in plan'
        /\ runs'[q].start = IF q = p THEN starts + 1 ELSE runs[q].start
        /\ q # p => q \in DOMAIN runs
    <2>1. /\ plan' = plan /\ DOMAIN runs' = DOMAIN runs \cup {p}
          /\ \A q \in DOMAIN runs' : RunInv(runs'[q])
          /\ runs'[p].cmd = c /\ runs'[p].start = starts + 1
          /\ \A q \in DOMAIN runs' \ {p} :
                runs'[q].cmd = runs[q].cmd /\ runs'[q].start = runs[q].start
        BY StartedRuns
    <2>2. \A q \in DOMAIN runs : runs[q].cmd \in plan
        BY DEF RunsInv
    <2> QED  BY <2>1, <2>2
<1>2. /\ starts \in Nat
      /\ \A q \in DOMAIN runs : runs[q].start \in 1..starts
      /\ \A q, s \in DOMAIN runs : runs[q].start = runs[s].start => q = s
    BY DEF RunsInv
<1>3. plan' = plan /\ starts' = starts + 1
    BY StartedRuns
<1>4. \A q \in DOMAIN runs' : runs'[q].start \in 1..(starts + 1)
    BY <1>1, <1>2
<1>5. \A q, s \in DOMAIN runs' : runs'[q].start = runs'[s].start => q = s
    BY <1>1, <1>2
<1> QED  BY <1>1, <1>2, <1>3, <1>4, <1>5 DEF RunsInv

LEMMA RunsInit == PlansAssumption /\ Init => RunsInv
BY DEF Init, InitRunner, RunsInv

LEMMA RunsStep == PlansAssumption /\ RunsInv /\ [Next]_vars => RunsInv'
<1> SUFFICES ASSUME PlansAssumption, RunsInv, [Next]_vars PROVE RunsInv'
    OBVIOUS
<1>1. CASE \E p \in Procs : TaskStep(p)
    <2>1. PICK p \in Procs : TaskStep(p)
        BY <1>1
    <2> QED  BY <2>1, TaskStepMoves, MovesKeep, ShapedRun
<1>2. CASE \E p \in Procs : \E c \in plan : Start(p, c)
    BY <1>2, StartKeeps
<1>3. CASE \E p \in Procs : Kill(p) \/ Fault(p)
    <2>1. PICK p \in Procs : Kill(p) \/ Fault(p)
        BY <1>3
    <2> QED  BY <2>1, FaultMoves, MovesKeep, ShapedRun
<1>4. CASE Chain
    BY <1>4 DEF Chain, Mine, RunsInv
<1>5. CASE \E chain \in DOMAIN contracts : \E a \in DOMAIN contracts[chain] : FailToMine(chain, a)
    BY <1>5, FailToMineKeeps
<1>6. CASE UNCHANGED vars
    BY <1>6 DEF vars, RunsInv
<1> QED  BY <1>1, <1>2, <1>3, <1>4, <1>5, <1>6 DEF Next, Environment

\* Every run, of any command and whatever else runs or fails: it is at a step of its
\* program that it reaches, on the chain its network leads to, verifying only what it
\* wrote the arguments of; and if it verifies and failed for its configuration, it has
\* sent nothing.
THEOREM RunsAlways == Spec => []RunsInv
BY RunsInit, RunsStep, PlansAssumption, PTL DEF Spec

\* runTaskWithRetry, for every plan of commands: an attempt to verify that is
\* under way finds the file with the constructor's arguments.
THEOREM VerifyingFindsItsFile == Spec => []ParamsFileWhileVerifying
<1>1. RunsInv => ParamsFileWhileVerifying
    BY DEF RunsInv, RunInv, Verifying, ParamsFileWhileVerifying
<1> QED  BY <1>1, RunsAlways, PTL

\* The checks before a deployment, for every command of any task: a command
\* with --verify that fails for its configuration has sent nothing.
THEOREM ConfigurationFailsForFree == Spec => []NoGasLost
<1>1. RunsInv => NoGasLost
    BY DEF RunsInv, RunInv, Thrifty, SentNothing, NoGasLost
<1> QED  BY <1>1, RunsAlways, PTL

-----------------------------------------------------------------------------
(* Contracts and the network they are configured for                         *)

LEMMA AppendSequence ==
    ASSUME NEW s, NEW e, IsSequence(s)
    PROVE  /\ IsSequence(Append(s, e))
           /\ Len(Append(s, e)) = Len(s) + 1
           /\ \A i \in 1..Len(s) : Append(s, e)[i] = s[i]
           /\ Append(s, e)[Len(s) + 1] = e
<1> DEFINE S == {s[i] : i \in 1..Len(s)} \cup {e}
<1>1. s \in Seq(S)
    <2>1. \A i \in 1..Len(s) : s[i] \in S
        OBVIOUS
    <2> HIDE DEF S
    <2> QED  BY <2>1, IsASeq DEF IsSequence
<1>2. e \in S
    OBVIOUS
<1> HIDE DEF S
<1>3. /\ Append(s, e) \in Seq(S)
      /\ Len(Append(s, e)) = Len(s) + 1
      /\ \A i \in 1..Len(s) : Append(s, e)[i] = s[i]
      /\ Append(s, e)[Len(s) + 1] = e
    BY <1>1, <1>2, AppendProperties
<1>4. IsSequence(Append(s, e))
    BY <1>3, LenProperties DEF IsSequence
<1> QED  BY <1>3, <1>4

ContractFields == {"kind", "args", "impl", "admin", "network", "state"}

\* What the property says of one contract.
Configured(chain, this, commands) ==
    /\ this.network \in NetworksOf(commands, chain)
    /\ this.kind = "StakedAave" =>
          /\ this.args.cooldownSeconds = OwnParams(CooldownSeconds, this.network)
          /\ this.args.unstakeWindow = OwnParams(UnstakeWindow, this.network)
          /\ this.args.emissionManager = OwnParams(AaveAdmin, this.network)
          /\ this.args.stakedToken \in {"given", OwnParams(AaveToken, this.network)}
    /\ this.impl # 0 /\ "admin" \notin UNION {c.params : c \in commands} =>
          \E network \in NetworksOf(commands, chain) : this.admin = OwnParams(AaveAdmin, network)

ContractInv(chain, this, commands) ==
    /\ this = [field \in ContractFields |-> this[field]]
    /\ this.state \in {"sent", "mined", "failed"}
    /\ Configured(chain, this, commands)

ContractsInv ==
    \A chain \in DOMAIN contracts :
        /\ IsSequence(contracts[chain])
        /\ \A a \in 1..Len(contracts[chain]) : ContractInv(chain, contracts[chain][a], plan)

\* A network with a chainId has a row of its own, or the row of main.
LEMMA OwnRow ==
    ASSUME NEW params, NEW network \in Network, ChainId[network] # 0
    PROVE  GetParamPerNetwork(params, network) = OwnParams(params, network)
<1>1. network \in {"tenderly", "kovan", "ropsten", "goerli", "main", "hardhat"}
    BY DEF Network, ChainId
<1> QED  BY <1>1 DEF GetParamPerNetwork, OwnParams

LEMMA StakedAaveConfigured ==
    ASSUME NEW c \in Commands, ChainId[c.network] # 0
    PROVE  LET args == StakedAaveArgs(c) IN
           /\ args.cooldownSeconds = OwnParams(CooldownSeconds, c.network)
           /\ args.unstakeWindow = OwnParams(UnstakeWindow, c.network)
           /\ args.emissionManager = OwnParams(AaveAdmin, c.network)
           /\ args.stakedToken \in {"given", OwnParams(AaveToken, c.network)}
<1>1. c.network \in Network
    BY DEF Commands
<1> QED
    BY <1>1, OwnRow DEF StakedAaveArgs, Param, GetCooldownSecondsPerNetwork,
       GetUnstakeWindowPerNetwork, GetAaveAdminPerNetwork, GetAaveTokenPerNetwork

\* The chain of a run is one that commands for its network reach.
LEMMA ChainOfNetwork ==
    ASSUME NEW p, RunsInv, Running(p)
    PROVE  runs[p].cmd.network \in NetworksOf(plan, ChainOf(runs[p]))
<1> DEFINE c == runs[p].cmd
           chain == ChainOf(runs[p])
<1>1. c \in plan
    BY DEF RunsInv, Running
<1>2. CASE UsesTenderly(c)
    <2>1. chain[1] = "tenderly"
        BY <1>2 DEF ChainOf
    <2> QED  BY <1>1, <1>2, <2>1 DEF NetworksOf
<1>3. CASE ~UsesTenderly(c)
    <2>1. chain[1] = c.network /\ c.network # "tenderly"
        BY <1>3 DEF ChainOf, UsesTenderly
    <2> QED  BY <2>1 DEF NetworksOf
<1> QED  BY <1>2, <1>3

\* One more contract on one chain, or one contract of it written over, or a
\* new chain with contracts of another one.
LEMMA ContractsGrow ==
    ASSUME NEW chain, NEW s, ContractsInv, plan' = plan, IsSequence(s),
           contracts' = Put(contracts, chain, s),
           \A a \in 1..Len(s) : ContractInv(chain, s[a], plan)
    PROVE  ContractsInv'
<1> SUFFICES ASSUME NEW other \in DOMAIN contracts'
             PROVE  /\ IsSequence(contracts'[other])
                    /\ \A a \in 1..Len(contracts'[other]) : ContractInv(other, contracts'[other][a], plan)
    BY DEF ContractsInv
<1>1. CASE other = chain
    BY <1>1 DEF Put
<1>2. CASE other # chain
    BY <1>2 DEF Put, ContractsInv
<1> QED  BY <1>1, <1>2

LEMMA ContractsOnChain ==
    ASSUME NEW chain, ContractsInv
    PROVE  /\ IsSequence(ContractsOn(chain)) /\ Len(ContractsOn(chain)) \in Nat
           /\ \A a \in 1..Len(ContractsOn(chain)) :
                 ContractInv(chain, ContractsOn(chain)[a], plan)
<1>1. CASE chain \in DOMAIN contracts
    BY <1>1 DEF ContractsInv, ContractsOn, IsSequence
<1>2. CASE chain \notin DOMAIN contracts
    BY <1>2, EmptyProgram DEF ContractsOn
<1> QED  BY <1>1, <1>2

\* A deployment: the new contract is configured for the network of the command.
LEMMA DeployConfigures ==
    ASSUME NEW p \in Procs, RunsInv, ContractsInv, Deploy(p)
    PROVE  ContractsInv'
<1> DEFINE r == runs[p]
           chain == r.chain
           new == [kind |-> Arg(p).kind, args |-> Arg(p).args, impl |-> 0, admin |-> "",
                   network |-> r.cmd.network, state |-> IF Private(r.cmd) THEN "mined" ELSE "sent"]
           s == ContractsOn(chain)
<1>1. At(p, "deploy") /\ Running(p) /\ r.step.op = "deploy"
    BY DEF Deploy, At
<1>2. contracts' = Put(contracts, chain, Append(s, new)) /\ plan' = plan /\ starts' = starts
    BY DEF Deploy
<1>4. /\ IsSequence(s) /\ Len(s) \in Nat
      /\ \A a \in 1..Len(s) : ContractInv(chain, s[a], plan)
    BY ContractsOnChain
<1>5. ContractInv(chain, new, plan)
    <2>1. /\ r.cmd \in Commands
          /\ Arg(p).kind = "StakedAave" => Arg(p).args = StakedAaveArgs(r.cmd) /\ ChainId[r.cmd.network] # 0
        BY <1>1, GoodStep, StepOfProgram DEF Good, Arg
    <2>2. /\ new = [field \in ContractFields |-> new[field]]
          /\ new.kind = Arg(p).kind /\ new.args = Arg(p).args /\ new.impl = 0
          /\ new.network = r.cmd.network /\ new.state \in {"sent", "mined", "failed"}
        BY DEF ContractFields
    <2> HIDE DEF new
    <2>3. new.network \in NetworksOf(plan, chain)
        BY <1>1, <2>2, ConnectedRun, ChainOfNetwork
    <2>4. Configured(chain, new, plan)
        BY <2>1, <2>2, <2>3, StakedAaveConfigured DEF Configured
    <2> QED  BY <2>2, <2>3, <2>4 DEF ContractInv
<1> HIDE DEF s, new
<1>6. /\ IsSequence(Append(s, new)) /\ Len(Append(s, new)) = Len(s) + 1
      /\ \A i \in 1..Len(s) : Append(s, new)[i] = s[i]
      /\ Append(s, new)[Len(s) + 1] = new
    BY <1>4, AppendSequence
<1>7. \A a \in 1..(Len(s) + 1) : a \in 1..Len(s) \/ a = Len(s) + 1
    BY <1>4
<1>8. \A a \in 1..Len(Append(s, new)) : ContractInv(chain, Append(s, new)[a], plan)
    BY <1>4, <1>5, <1>6, <1>7
<1> QED  BY <1>2, <1>6, <1>8, ContractsGrow

\* One contract of a chain written over by one that is as it should be.
LEMMA ContractReplaced ==
    ASSUME NEW chain \in DOMAIN contracts, NEW a \in DOMAIN contracts[chain], NEW new,
           ContractsInv, plan' = plan,
           contracts' = [contracts EXCEPT ![chain] = [@ EXCEPT ![a] = new]],
           ContractInv(chain, new, plan)
    PROVE  ContractsInv'
<1> DEFINE old == contracts[chain]
           s == [old EXCEPT ![a] = new]
<1>1. /\ IsSequence(old) /\ Len(old) \in Nat
      /\ \A i \in 1..Len(old) : ContractInv(chain, old[i], plan)
    BY DEF ContractsInv, IsSequence
<1>2. s = [i \in 1..Len(old) |-> IF i = a THEN new ELSE old[i]]
    BY <1>1 DEF IsSequence
<1>3. contracts' = Put(contracts, chain, s)
    <2>1. contracts' = [contracts EXCEPT ![chain] = s]
        OBVIOUS
    <2> HIDE DEF s
    <2>2. [contracts EXCEPT ![chain] = s] = [k \in DOMAIN contracts |-> IF k = chain THEN s ELSE contracts[k]]
        OBVIOUS
    <2> QED  BY <2>1, <2>2 DEF Put
<1> HIDE DEF s, old
<1>4. IsSequence(s) /\ Len(s) = Len(old)
    <2>1. s \in Seq({s[i] : i \in 1..Len(old)})
        <3>1. \A i \in 1..Len(old) : s[i] \in {s[j] : j \in 1..Len(old)}
            OBVIOUS
        <3>2. s = [i \in 1..Len(old) |-> s[i]]
            BY <1>2
        <3> QED  BY <1>1, <3>1, <3>2, IsASeq
    <2>2. DOMAIN s = 1..Len(s) /\ Len(s) \in Nat /\ DOMAIN s = 1..Len(old)
        BY <1>2, <2>1, LenProperties
    <2>3. Len(s) = Len(old)
        BY <1>1, <2>2
    <2> QED  BY <1>2, <2>2, <2>3 DEF IsSequence
<1>5. \A i \in 1..Len(s) : ContractInv(chain, s[i], plan)
    BY <1>1, <1>2, <1>4
<1> QED  BY <1>3, <1>4, <1>5, ContractsGrow

LEMMA MinedConfigured ==
    ASSUME NEW chain \in DOMAIN contracts, NEW a \in DOMAIN contracts[chain],
           NEW state \in {"mined", "failed"}, ContractsInv, plan' = plan,
           contracts' = [contracts EXCEPT ![chain][a].state = state]
    PROVE  ContractsInv'
<1> DEFINE old == contracts[chain][a]
           new == [old EXCEPT !.state = state]
<1>1. ContractInv(chain, old, plan)
    <2>1. IsSequence(contracts[chain]) /\ Len(contracts[chain]) \in Nat
        BY DEF ContractsInv, IsSequence
    <2>2. a \in 1..Len(contracts[chain])
        BY <2>1 DEF IsSequence
    <2> QED  BY <2>2 DEF ContractsInv
<1>2. contracts' = [contracts EXCEPT ![chain] = [@ EXCEPT ![a] = new]]
    OBVIOUS
<1> HIDE DEF old
<1>3. /\ new = [field \in ContractFields |-> new[field]]
      /\ new.kind = old.kind /\ new.args = old.args /\ new.impl = old.impl
      /\ new.admin = old.admin /\ new.network = old.network /\ new.state = state
    BY <1>1 DEF ContractInv, ContractFields
<1> HIDE DEF new
<1>4. ContractInv(chain, new, plan)
    BY <1>1, <1>3 DEF ContractInv, Configured
<1> QED  BY <1>2, <1>4, ContractReplaced

LEMMA InitializeConfigures ==
    ASSUME NEW p \in Procs, RunsInv, ContractsInv, Initialize(p)
    PROVE  ContractsInv'
<1> DEFINE r == runs[p]
           chain == r.chain
           proxy == r.known["proxy"]
           impl == r.known["impl"]
<1>1. At(p, "initialize") /\ Running(p) /\ r.step.op = "initialize" /\ plan' = plan
    BY DEF Initialize, At
<1>3. CASE contracts' = contracts
    BY <1>1, <1>3 DEF ContractsInv
<1>4. CASE /\ HasCode(chain, proxy)
           /\ contracts' = [contracts EXCEPT ![chain][proxy].impl = impl,
                                             ![chain][proxy].admin = Arg(p)]
    <2> DEFINE old == contracts[chain][proxy]
               new == [old EXCEPT !.impl = impl, !.admin = Arg(p)]
    <2>1. chain \in DOMAIN contracts /\ proxy \in DOMAIN contracts[chain]
        <3>1. DOMAIN <<>> = {}
            OBVIOUS
        <3> QED  BY <1>4, <3>1 DEF HasCode, ContractsOn
    <2>2. ContractInv(chain, old, plan)
        <3>1. IsSequence(contracts[chain])
            BY <2>1 DEF ContractsInv
        <3>2. proxy \in 1..Len(contracts[chain])
            BY <2>1, <3>1 DEF IsSequence
        <3> QED  BY <2>1, <3>2 DEF ContractsInv
    <2>3. contracts' = [contracts EXCEPT ![chain] = [@ EXCEPT ![proxy] = new]]
        BY <1>4, <2>1
    <2>4. chain = ChainOf(r)
        BY <1>1, ConnectedRun
    <2>5. r.cmd.network \in NetworksOf(plan, chain)
        BY <1>1, <2>4, ChainOfNetwork
    <2>6. \/ Arg(p) = "given" /\ "admin" \in r.cmd.params
          \/ Arg(p) = GetAaveAdminPerNetwork(r.cmd.network) /\ ChainId[r.cmd.network] # 0
        BY <1>1, GoodStep, StepOfProgram DEF Good, Arg
    <2>7. r.cmd \in plan /\ r.cmd.network \in Network
        BY <1>1, StepOfProgram DEF RunsInv, Running, Commands
    <2>8. \/ "admin" \in UNION {c.params : c \in plan}
          \/ Arg(p) = OwnParams(AaveAdmin, r.cmd.network)
        BY <2>6, <2>7, OwnRow DEF GetAaveAdminPerNetwork
    <2> HIDE DEF old
    <2>9. /\ new = [field \in ContractFields |-> new[field]]
          /\ new.kind = old.kind /\ new.args = old.args /\ new.network = old.network
          /\ new.admin = Arg(p) /\ new.state = old.state
        BY <2>2 DEF ContractInv, ContractFields
    <2> HIDE DEF new
    <2>10. ContractInv(chain, new, plan)
        BY <2>2, <2>5, <2>8, <2>9 DEF ContractInv, Configured
    <2> QED  BY <1>1, <2>1, <2>3, <2>10, ContractReplaced
<1> QED  BY <1>3, <1>4 DEF Initialize

\* A head that a process goes on from: a new one of main, or one reached before.
LEMMA HeadFound ==
    ASSUME NEW c, NEW head \in Heads(c)
    PROVE  \/ head.contracts = <<>> /\ head.governance \in {MainAt(start14) : start14 \in {50, 50 - LongExecutor.duration}}
           \/ /\ UsesTenderly(c)
              /\ \E k \in DOMAIN governance :
                    /\ k[1] = "tenderly" /\ head.contracts = ContractsOn(k)
                    /\ head.governance = governance[k]
<1>1. CASE head \in NewForks
    BY <1>1 DEF NewForks
<1>2. CASE UsesTenderly(c) /\ head \in ForksOfTenderly
    BY <1>2 DEF ForksOfTenderly
<1> QED  BY <1>1, <1>2 DEF Heads

\* What set-dre does to the chains: nothing, or there is a new one.
LEMMA ConnectFinds ==
    ASSUME NEW p, Connect(p)
    PROVE  \/ contracts' = contracts /\ governance' = governance
           \/ /\ ChainOf(runs[p]) \notin DOMAIN contracts
              /\ \E head \in Heads(runs[p].cmd) :
                    /\ contracts' = Put(contracts, ChainOf(runs[p]), head.contracts)
                    /\ governance' = Put(governance, ChainOf(runs[p]), head.governance)
<1>1. CASE ~HasMain(runs[p].cmd) \/ ChainOf(runs[p]) \in DOMAIN governance \cup DOMAIN contracts
    BY <1>1 DEF Connect
<1>2. CASE ~(~HasMain(runs[p].cmd) \/ ChainOf(runs[p]) \in DOMAIN governance \cup DOMAIN contracts)
    <2>1. PICK head \in Heads(runs[p].cmd) :
            /\ contracts' = Put(contracts, ChainOf(runs[p]), head.contracts)
            /\ governance' = Put(governance, ChainOf(runs[p]), head.governance)
        BY <1>2 DEF Connect
    <2> QED  BY <1>2, <2>1
<1> QED  BY <1>1, <1>2

LEMMA ConnectConfigures ==
    ASSUME NEW p, ContractsInv, Connect(p)
    PROVE  ContractsInv'
<1> DEFINE chain == ChainOf(runs[p])
<1>1. plan' = plan
    BY ConnectContinues
<1>2. CASE contracts' = contracts
    BY <1>1, <1>2 DEF ContractsInv
<1>3. ASSUME NEW head \in Heads(runs[p].cmd), contracts' = Put(contracts, chain, head.contracts)
      PROVE  ContractsInv'
    <2>1. CASE head.contracts = <<>>
        <3>1. IsSequence(<<>>) /\ 1..Len(<<>>) = {}
            BY EmptyProgram
        <3> HIDE DEF chain
        <3> QED  BY <1>1, <1>3, <2>1, <3>1, ContractsGrow
    <2>2. ASSUME UsesTenderly(runs[p].cmd), NEW k, k[1] = "tenderly", head.contracts = ContractsOn(k)
          PROVE  ContractsInv'
        <3>1. NetworksOf(plan, chain) = NetworksOf(plan, k)
            BY <2>2 DEF NetworksOf, ChainOf
        <3> DEFINE s == ContractsOn(k)
        <3>2. /\ IsSequence(s) /\ \A a \in 1..Len(s) : ContractInv(k, s[a], plan)
              /\ contracts' = Put(contracts, chain, s)
            BY <1>3, <2>2, ContractsOnChain
        <3> HIDE DEF s, chain
        <3>3. \A a \in 1..Len(s) : ContractInv(chain, s[a], plan)
            BY <3>1, <3>2 DEF ContractInv, Configured
        <3> QED  BY <1>1, <3>2, <3>3, ContractsGrow
    <2> QED  BY <2>1, <2>2, HeadFound
<1> QED  BY <1>2, <1>3, ConnectFinds

LEMMA ContractsStep == PlansAssumption /\ RunsInv /\ ContractsInv /\ [Next]_vars => ContractsInv'
<1> SUFFICES ASSUME PlansAssumption, RunsInv, ContractsInv, [Next]_vars PROVE ContractsInv'
    OBVIOUS
<1>1. CASE plan' = plan /\ contracts' = contracts
    BY <1>1 DEF ContractsInv
<1>2. ASSUME NEW p \in Procs, TaskStep(p) PROVE ContractsInv'
    <2>1. plan' = plan
        BY <1>2, TaskStepMoves
    <2>2. CASE Deploy(p)
        BY <2>2, DeployConfigures
    <2>3. CASE Initialize(p)
        BY <2>3, InitializeConfigures
    <2>4. CASE Connect(p)
        BY <2>4, ConnectConfigures
    <2>5. CASE contracts' = contracts
        BY <1>1, <2>1, <2>5
    <2> QED
        BY <1>2, <2>2, <2>3, <2>4, <2>5
        DEF TaskStep, GovernanceStep, DeploymentStep, Transactions, AdvanceBlockTo,
            IncreaseTimeTenderly, GetProposalsCount, Create, SubmitVote, Queue, Execute, Throw,
            ReadDb, WriteDb, WaitForTx, VerifyStep, Get, NewCrp, Subscribe, AwaitCrp, Transact
<1>3. CASE (\E p \in Procs : \E c \in plan : Start(p, c)) \/ (\E p \in Procs : Kill(p) \/ Fault(p))
    BY <1>1, <1>3 DEF Start, Kill, Fault
<1>4. CASE \E chain \in DOMAIN contracts : \E a \in DOMAIN contracts[chain] :
             Mine(chain, a) \/ FailToMine(chain, a)
    <2>1. PICK chain \in DOMAIN contracts : \E a \in DOMAIN contracts[chain] :
             Mine(chain, a) \/ FailToMine(chain, a)
        BY <1>4
    <2>2. PICK a \in DOMAIN contracts[chain] : Mine(chain, a) \/ FailToMine(chain, a)
        BY <2>1
    <2>3. plan' = plan /\ \E state \in {"mined", "failed"} : contracts' = [contracts EXCEPT ![chain][a].state = state]
        BY <2>2 DEF Mine, FailToMine
    <2> QED  BY <2>3, MinedConfigured
<1>5. CASE UNCHANGED vars
    BY <1>1, <1>5 DEF vars
<1> QED  BY <1>2, <1>3, <1>4, <1>5 DEF Next, Environment, Chain

LEMMA ContractsInit == Init => ContractsInv
BY DEF Init, InitRunner, ContractsInv

\* The tables of constants.ts, for every plan of commands and any processes: a
\* StakedAave is configured, and a proxy given, for a network whose commands
\* reach the chain it is on.
THEOREM ConfigurationFitsNetwork == Spec => []ConfiguredForItsNetwork
<1>1. ContractsInv => ConfiguredForItsNetwork
    <2> SUFFICES ASSUME ContractsInv, NEW chain \in DOMAIN contracts, NEW a \in DOMAIN contracts[chain]
                 PROVE  Configured(chain, contracts[chain][a], plan)
        BY DEF ConfiguredForItsNetwork, Configured
    <2>1. IsSequence(contracts[chain])
        BY DEF ContractsInv
    <2>2. a \in 1..Len(contracts[chain])
        BY <2>1 DEF IsSequence
    <2> QED  BY <2>2 DEF ContractsInv, ContractInv
<1> QED  BY <1>1, ContractsInit, ContractsStep, RunsAlways, PlansAssumption, PTL DEF Spec

-----------------------------------------------------------------------------
(* The file and the commands that share it                                   *)

\* Between read and write a run that is alone has the file in its hands.
CopyIsFile(r, file) ==
    r.status = "running" /\ r.alone /\ r.pc > 1 /\ Program(r.cmd)[r.pc - 1].op = "read" =>
        r.copy = file

AloneInv ==
    /\ \A p, q \in DOMAIN runs :
          p # q /\ runs[p].status = "running" /\ runs[q].status = "running" => ~runs[p].alone
    /\ \A p \in DOMAIN runs : CopyIsFile(runs[p], db)

LEMMA FileStep ==
    ASSUME NEW p \in Procs, TaskStep(p)
    PROVE  /\ runs[p].step.op # "write" => db' = db
           /\ runs[p].step.op = "read" => ReadDb(p)
           /\ db' = db \/ WriteDb(p)
<1>1. CASE DeploymentStep(p)
    <2>1. CASE WriteDb(p)
        BY <2>1 DEF WriteDb, At
    <2>2. CASE ReadDb(p)
        BY <2>2 DEF ReadDb, At
    <2>3. CASE Throw(p) \/ Deploy(p) \/ WaitForTx(p) \/ VerifyStep(p) \/ Get(p)
        BY <2>3 DEF Throw, Deploy, WaitForTx, VerifyStep, Get, At
    <2>4. CASE Initialize(p) \/ NewCrp(p) \/ Subscribe(p) \/ AwaitCrp(p) \/ Transact(p)
        BY <2>4 DEF Initialize, NewCrp, Subscribe, AwaitCrp, Transact, At
    <2> QED  BY <1>1, <2>1, <2>2, <2>3, <2>4 DEF DeploymentStep
<1>2. CASE Connect(p)
    BY <1>2, ConnectContinues DEF At
<1>3. CASE GovernanceStep(p) /\ ~Connect(p)
    BY <1>3 DEF GovernanceStep, Transactions, AdvanceBlockTo,
       IncreaseTimeTenderly, GetProposalsCount, Create, SubmitVote, Queue, Execute, At
<1> QED  BY <1>1, <1>2, <1>3 DEF TaskStep

LEMMA ReadCopies ==
    ASSUME NEW p \in Procs, RunsInv, ReadDb(p), runs'[p].status = "running"
    PROVE  runs'[p].copy = db /\ db' = db
<1>1. At(p, "read") /\ Running(p) /\ db' = db /\ Continue(p, [runs[p] EXCEPT !.copy = db])
    BY DEF ReadDb, At
<1>2. RunShape(runs[p]) /\ Verifying(runs[p])
    BY <1>1, ShapedRun
<1> DEFINE run == [runs[p] EXCEPT !.copy = db]
<1>3. /\ RunShape(run) /\ Verifying(run) /\ run.cmd = runs[p].cmd /\ run.status = runs[p].status
      /\ run.pc = runs[p].pc /\ run.start = runs[p].start /\ run.alone = runs[p].alone
      /\ run.chain = runs[p].chain /\ run.known = runs[p].known /\ run.copy = db
    BY <1>2, ReadRun
<1>4. Continue(p, run)
    BY <1>1
<1> HIDE DEF run
<1>5. runs'[p].copy = run.copy
    BY <1>1, <1>3, <1>4, ContinueWith
<1> QED  BY <1>1, <1>3, <1>5

LEMMA AloneTaskStep ==
    ASSUME NEW p \in Procs, RunsInv, AloneInv, TaskStep(p)
    PROVE  AloneInv'
<1>1. /\ DOMAIN runs' = DOMAIN runs
      /\ \A q \in DOMAIN runs \ {p} : runs'[q] = runs[q]
      /\ runs'[p].cmd = runs[p].cmd /\ runs'[p].alone = runs[p].alone
      /\ runs'[p].status = "running" =>
            \/ runs'[p].pc = runs[p].pc + 1
            \/ /\ runs[p].step.op = "verify" /\ runs'[p].pc = runs[p].pc
               /\ runs'[p].copy = runs[p].copy
      /\ p \in DOMAIN runs /\ runs[p].status = "running" /\ Running(p)
    BY TaskStepMoves DEF Moves, Running
<1>2. \A q, s \in DOMAIN runs' :
        q # s /\ runs'[q].status = "running" /\ runs'[s].status = "running" => ~runs'[q].alone
    BY <1>1 DEF AloneInv
<1>3. ASSUME NEW q \in DOMAIN runs', q # p
      PROVE  CopyIsFile(runs'[q], db')
    BY <1>1, <1>3 DEF AloneInv, CopyIsFile
<1>4. CopyIsFile(runs'[p], db')
    <2> SUFFICES ASSUME runs'[p].status = "running", runs'[p].alone, runs'[p].pc > 1,
                        Program(runs'[p].cmd)[runs'[p].pc - 1].op = "read"
                 PROVE  runs'[p].copy = db'
        BY DEF CopyIsFile
    <2>1. CASE runs'[p].pc = runs[p].pc + 1
        <3>1. runs[p].pc \in Int /\ runs[p].step = Program(runs[p].cmd)[runs[p].pc]
            BY <1>1, ShapedRun DEF RunInv, Placed
        <3>2. runs'[p].pc - 1 = runs[p].pc
            BY <2>1, <3>1
        <3>3. runs[p].step.op = "read"
            BY <1>1, <3>1, <3>2
        <3> QED  BY <3>3, FileStep, ReadCopies
    <2>2. CASE /\ runs[p].step.op = "verify" /\ runs'[p].pc = runs[p].pc
               /\ runs'[p].copy = runs[p].copy
        <3>1. db' = db
            BY <2>2, FileStep
        <3>2. CopyIsFile(runs[p], db)
            BY <1>1 DEF AloneInv
        <3> QED  BY <1>1, <2>2, <3>1, <3>2 DEF CopyIsFile
    <2> QED  BY <1>1, <2>1, <2>2
<1> QED  BY <1>1, <1>2, <1>3, <1>4 DEF AloneInv

LEMMA FaultStops ==
    ASSUME NEW p \in Procs, RunsInv, Kill(p) \/ Fault(p)
    PROVE  runs'[p].status \in {"killed", "failed"}
<1>1. p \in DOMAIN runs
    BY FaultMoves DEF Running
<1>2. RunShape(runs[p])
    BY <1>1 DEF RunsInv, RunInv
<1>3. CASE Kill(p)
    <2>1. runs'[p] = Ended(runs[p], "killed")
        BY <1>1, <1>3 DEF Kill
    <2>2. Ended(runs[p], "killed").status = "killed"
        BY <1>2, EndedFields
    <2> QED  BY <2>1, <2>2
<1>4. CASE Fault(p)
    <2>1. runs'[p] = [runs[p] EXCEPT !.status = "failed", !.reason = "transaction", !.clean = FALSE]
        BY <1>1, <1>4 DEF Fault, TransactionFails
    <2> QED  BY <1>2, <2>1 DEF RunShape, RunFields
<1> QED  BY <1>3, <1>4

LEMMA AloneFault ==
    ASSUME NEW p \in Procs, RunsInv, AloneInv, Kill(p) \/ Fault(p)
    PROVE  AloneInv'
<1>1. /\ DOMAIN runs' = DOMAIN runs
      /\ \A q \in DOMAIN runs \ {p} : runs'[q] = runs[q]
      /\ p \in DOMAIN runs
    BY FaultMoves DEF Moves, Running
<1>2. runs'[p].status # "running"
    BY FaultStops
<1>3. db' = db
    BY DEF Kill, Fault
<1> QED  BY <1>1, <1>2, <1>3 DEF AloneInv, CopyIsFile

LEMMA UnmarkedFields ==
    ASSUME NEW r, NEW v, RunShape(r)
    PROVE  /\ LET m == [r EXCEPT !.alone = v] IN
              /\ m.status = r.status /\ m.cmd = r.cmd /\ m.pc = r.pc /\ m.copy = r.copy
              /\ m.known = r.known /\ m.chain = r.chain /\ m.alone = v
           /\ LET m == [r EXCEPT !.clean = v] IN
              /\ m.status = r.status /\ m.cmd = r.cmd /\ m.pc = r.pc /\ m.copy = r.copy
              /\ m.known = r.known /\ m.chain = r.chain /\ m.alone = r.alone
BY DEF RunShape, RunFields

\* A command joins those that run: neither it nor they are alone any more.
LEMMA StartedAlone ==
    ASSUME NEW p \in Procs, NEW c \in plan, RunsInv, Start(p, c)
    PROVE  /\ DOMAIN runs' = DOMAIN runs \cup {p}
           /\ runs'[p].pc = 1 /\ runs'[p].known = <<>>
           /\ runs'[p].alone => \A q \in DOMAIN runs \ {p} : runs[q].status # "running"
           /\ \A q \in DOMAIN runs \ {p} :
                 /\ runs'[q].status = runs[q].status /\ runs'[q].cmd = runs[q].cmd
                 /\ runs'[q].pc = runs[q].pc /\ runs'[q].copy = runs[q].copy
                 /\ runs'[q].known = runs[q].known /\ runs'[q].chain = runs[q].chain
                 /\ runs[q].status = "running" => ~runs'[q].alone
<1> DEFINE others == {q \in DOMAIN runs \ {p} : Running(q)}
           alone(q) == runs[q].alone /\ q \notin others
           marked == [q \in DOMAIN runs |-> [runs[q] EXCEPT !.alone = alone(q)]]
           new == NewRun(c, others = {})
<1>1. runs' = Put(marked, p, new)
    BY DEF Start
<1>2. new.pc = 1 /\ new.known = <<>> /\ (new.alone => others = {})
    BY DEF NewRun
<1>3. \A q \in DOMAIN runs :
        /\ marked[q].status = runs[q].status /\ marked[q].cmd = runs[q].cmd
        /\ marked[q].pc = runs[q].pc /\ marked[q].copy = runs[q].copy
        /\ marked[q].known = runs[q].known /\ marked[q].chain = runs[q].chain
        /\ marked[q].alone = alone(q)
    <2> TAKE q \in DOMAIN runs
    <2> HIDE DEF alone
    <2>1. marked[q] = [runs[q] EXCEPT !.alone = alone(q)]
        OBVIOUS
    <2> HIDE DEF marked
    <2>2. RunShape(runs[q])
        BY DEF RunsInv, RunInv
    <2>3. LET m == [runs[q] EXCEPT !.alone = alone(q)] IN
          /\ m.status = runs[q].status /\ m.cmd = runs[q].cmd /\ m.pc = runs[q].pc
          /\ m.copy = runs[q].copy /\ m.known = runs[q].known /\ m.chain = runs[q].chain
          /\ m.alone = alone(q)
        BY <2>2, UnmarkedFields
    <2> QED  BY <2>1, <2>3
<1>4. DOMAIN marked = DOMAIN runs
    OBVIOUS
<1> HIDE DEF marked, new
<1>5. DOMAIN runs' = DOMAIN runs \cup {p}
    BY <1>1, <1>4 DEF Put
<1>6. \A q \in DOMAIN runs' : runs'[q] = IF q = p THEN new ELSE marked[q]
    BY <1>1, <1>4 DEF Put
<1>7. \A q \in DOMAIN runs \ {p} : q \in others <=> runs[q].status = "running"
    BY DEF Running
<1>8. runs'[p] = new
    BY <1>5, <1>6
<1>9. new.alone => \A q \in DOMAIN runs \ {p} : runs[q].status # "running"
    BY <1>2, <1>7
<1>10. \A q \in DOMAIN runs \ {p} : runs[q].status = "running" => ~marked[q].alone
    BY <1>3, <1>7
<1>11. \A q \in DOMAIN runs \ {p} : runs'[q] = marked[q]
    BY <1>5, <1>6
<1> HIDE DEF others, alone
<1> QED  BY <1>2, <1>3, <1>5, <1>8, <1>9, <1>10, <1>11

LEMMA AloneStart ==
    ASSUME NEW p \in Procs, NEW c \in plan, RunsInv, AloneInv, Start(p, c)
    PROVE  AloneInv'
<1>1. db' = db
    BY DEF Start
<1>2. /\ DOMAIN runs' = DOMAIN runs \cup {p}
      /\ runs'[p].pc = 1
      /\ runs'[p].alone => \A q \in DOMAIN runs \ {p} : runs[q].status # "running"
      /\ \A q \in DOMAIN runs \ {p} :
            /\ runs'[q].status = runs[q].status
            /\ runs[q].status = "running" => ~runs'[q].alone
    BY StartedAlone
<1>3. \A q, s \in DOMAIN runs' :
        q # s /\ runs'[q].status = "running" /\ runs'[s].status = "running" => ~runs'[q].alone
    BY <1>2
<1>4. \A q \in DOMAIN runs' : CopyIsFile(runs'[q], db')
    BY <1>2 DEF CopyIsFile
<1> QED  BY <1>3, <1>4 DEF AloneInv

LEMMA AloneFailToMine ==
    ASSUME NEW chain, NEW a, RunsInv, AloneInv, FailToMine(chain, a)
    PROVE  AloneInv'
<1>1. db' = db /\ runs' = [q \in DOMAIN runs |-> [runs[q] EXCEPT !.clean = FALSE]]
    BY DEF FailToMine
<1>2. DOMAIN runs' = DOMAIN runs
    BY <1>1
<1>3. \A q \in DOMAIN runs :
        /\ runs'[q].status = runs[q].status /\ runs'[q].cmd = runs[q].cmd
        /\ runs'[q].pc = runs[q].pc /\ runs'[q].copy = runs[q].copy
        /\ runs'[q].alone = runs[q].alone
    <2> TAKE q \in DOMAIN runs
    <2>1. runs'[q] = [runs[q] EXCEPT !.clean = FALSE] /\ RunShape(runs[q])
        BY <1>1 DEF RunsInv, RunInv
    <2> QED  BY <2>1 DEF RunShape, RunFields
<1> QED  BY <1>1, <1>2, <1>3 DEF AloneInv, CopyIsFile

LEMMA AloneStep == PlansAssumption /\ RunsInv /\ AloneInv /\ [Next]_vars => AloneInv'
<1> SUFFICES ASSUME PlansAssumption, RunsInv, AloneInv, [Next]_vars PROVE AloneInv'
    OBVIOUS
<1>1. CASE \E p \in Procs : TaskStep(p)
    BY <1>1, AloneTaskStep
<1>2. CASE \E p \in Procs : \E c \in plan : Start(p, c)
    BY <1>2, AloneStart
<1>3. CASE \E p \in Procs : Kill(p) \/ Fault(p)
    BY <1>3, AloneFault
<1>4. CASE Chain
    BY <1>4 DEF Chain, Mine, AloneInv
<1>5. CASE \E chain \in DOMAIN contracts : \E a \in DOMAIN contracts[chain] : FailToMine(chain, a)
    BY <1>5, AloneFailToMine
<1>6. CASE UNCHANGED vars
    BY <1>6 DEF vars, AloneInv
<1> QED  BY <1>1, <1>2, <1>3, <1>4, <1>5, <1>6 DEF Next, Environment

LEMMA AloneInit == Init => AloneInv
BY DEF Init, InitRunner, AloneInv

\* What one step may do to the entries of the file.
EntriesKept ==
    \A key \in DOMAIN db :
        \/ key \in DOMAIN db' /\ db'[key] = db[key]
        \/ \E p \in DOMAIN runs : At(p, "write") /\ (~runs[p].alone \/ runs[p].cmd.network = key[2])

LEMMA WriteKeeps ==
    ASSUME NEW p \in Procs, RunsInv, AloneInv, WriteDb(p)
    PROVE  EntriesKept
<1> SUFFICES ASSUME NEW key \in DOMAIN db, runs[p].alone, runs[p].cmd.network # key[2]
             PROVE  key \in DOMAIN db' /\ db'[key] = db[key]
    BY DEF EntriesKept, WriteDb, At, Running
<1>1. At(p, "write") /\ Running(p) /\ p \in DOMAIN runs /\ runs[p].status = "running"
    BY DEF WriteDb, At, Running
<1>2. runs[p].pc > 1 /\ Program(runs[p].cmd)[runs[p].pc - 1].op = "read"
    BY <1>1, GoodStep, StepOfProgram DEF Good, At
<1>3. runs[p].copy = db
    BY <1>1, <1>2 DEF AloneInv, CopyIsFile
<1>4. \E v : db' = Put(db, <<Arg(p).id, runs[p].cmd.network>>, v)
    BY <1>3 DEF WriteDb, SetEntry
<1>5. key # <<Arg(p).id, runs[p].cmd.network>>
    OBVIOUS
<1> QED  BY <1>4, <1>5 DEF Put

\* registerContractInJsonDb, for every plan of commands and any processes: an
\* entry changes by a command for its own network, or when commands run side by side.
THEOREM EntriesSurvive == Spec => RegistrationsSurvive
<1>1. RunsInv /\ AloneInv /\ [Next]_vars => EntriesKept \/ UNCHANGED runnerVars
    <2> SUFFICES ASSUME RunsInv, AloneInv, [Next]_vars PROVE EntriesKept \/ UNCHANGED runnerVars
        OBVIOUS
    <2>1. CASE db' = db
        BY <2>1 DEF EntriesKept
    <2>2. CASE \E p \in Procs : TaskStep(p)
        BY <2>1, <2>2, FileStep, WriteKeeps
    <2>3. CASE Environment
        <3>1. db' = db
            BY <2>3 DEF Environment, Start, Kill, Fault, Chain, Mine, FailToMine
        <3> QED  BY <2>1, <3>1
    <2>4. CASE UNCHANGED vars
        BY <2>4 DEF vars, runnerVars
    <2> QED  BY <2>2, <2>3, <2>4 DEF Next
<1>2. RunsInv /\ AloneInv /\ [Next]_vars =>
        [\A key \in DOMAIN db :
            (key \in DOMAIN db' /\ db'[key] = db[key])
            \/ \E p \in DOMAIN runs : At(p, "write") /\ (~runs[p].alone \/ runs[p].cmd.network = key[2])]_runnerVars
    BY <1>1 DEF EntriesKept
<1> QED
    BY <1>2, AloneInit, AloneStep, RunsAlways, PlansAssumption, PTL DEF Spec, RegistrationsSurvive

-----------------------------------------------------------------------------
(* What the program of a proposal names                                      *)

\* The kind is deployed by a step of s before the j-th.
DeploysBefore(s, j, kind) == \E m \in 1..(j - 1) : s[m].op = "deploy" /\ s[m].arg.kind = kind
Deploys(s, kind) == \E m \in 1..Len(s) : s[m].op = "deploy" /\ s[m].arg.kind = kind

Deployed(s) == {kind \in ContractKinds : Deploys(s, kind)}

\* A part that creates no proposal.
Plain(s) == IsSequence(s) /\ \A j \in 1..Len(s) : s[j].op # "create"

\* A proposal of a part has two calls, which approve, or name an implementation
\* that was given or is deployed in this part or in the ones before.
NamesCall(params, s, j, call, before) ==
    \/ call.impl = "approve"
    \/ /\ call.impl \in ContractKinds
       /\ \/ GivenAs(call.impl) \in params
          \/ call.impl \in before
          \/ DeploysBefore(s, j, call.impl)

Names(params, s, before) ==
    /\ IsSequence(s)
    /\ \A j \in 1..Len(s) : s[j].op = "create" =>
          /\ {1, 2} \subseteq DOMAIN s[j].arg.calls
          /\ \A i \in {1, 2} : NamesCall(params, s, j, s[j].arg.calls[i], before)

LEMMA PlainConcat ==
    ASSUME NEW s, NEW t, Plain(s), Plain(t)
    PROVE  Plain(s \o t)
<1>1. /\ Len(s) \in Nat /\ Len(t) \in Nat /\ IsSequence(s \o t) /\ Len(s \o t) = Len(s) + Len(t)
      /\ \A i \in 1..Len(s) : (s \o t)[i] = s[i]
      /\ \A i \in 1..Len(t) : (s \o t)[Len(s) + i] = t[i]
    BY ConcatProgram DEF Plain, IsSequence
<1> DEFINE u == s \o t
<1> HIDE DEF u
<1>2. ASSUME NEW j \in 1..Len(u) PROVE u[j].op # "create"
    <2>1. CASE j \in 1..Len(s)
        BY <1>1, <2>1 DEF Plain, u
    <2>2. CASE j \notin 1..Len(s)
        <3>1. j - Len(s) \in 1..Len(t) /\ j = Len(s) + (j - Len(s))
            BY <1>1, <2>2 DEF u
        <3> QED  BY <1>1, <3>1 DEF Plain, u
    <2> QED  BY <2>1, <2>2
<1> QED  BY <1>1, <1>2 DEF Plain, u

LEMMA PlainStep ==
    ASSUME NEW op, NEW arg, op # "create"
    PROVE  Plain(Step(op, arg))
<1>1. IsSequence(Step(op, arg)) /\ Len(Step(op, arg)) = 1 /\ Step(op, arg)[1].op = op
    BY StepProgram
<1>2. \A j \in 1..1 : j = 1
    OBVIOUS
<1> QED  BY <1>1, <1>2 DEF Plain

LEMMA PlainEmpty == Plain(<<>>)
BY EmptyProgram DEF Plain

LEMMA PlainNames ==
    ASSUME NEW params, NEW s, NEW before, Plain(s)
    PROVE  Names(params, s, before)
BY DEF Plain, Names

LEMMA DeploysConcat ==
    ASSUME NEW s, NEW t, NEW kind, IsSequence(s), IsSequence(t), Deploys(s, kind) \/ Deploys(t, kind)
    PROVE  Deploys(s \o t, kind)
<1>1. Len(s) \in Nat /\ Len(t) \in Nat /\ Len(s \o t) = Len(s) + Len(t)
    BY ConcatProgram DEF IsSequence
<1>2. CASE Deploys(s, kind)
    <2>1. \A m \in 1..Len(s) : (s \o t)[m] = s[m] /\ m \in 1..Len(s \o t)
        BY <1>1, ConcatProgram
    <2> QED  BY <1>2, <2>1 DEF Deploys
<1>3. CASE Deploys(t, kind)
    <2>1. PICK m \in 1..Len(t) : t[m].op = "deploy" /\ t[m].arg.kind = kind
        BY <1>3 DEF Deploys
    <2>2. Len(s) + m \in 1..Len(s \o t) /\ (s \o t)[Len(s) + m] = t[m]
        BY <1>1, ConcatProgram
    <2> QED  BY <2>1, <2>2 DEF Deploys
<1> QED  BY <1>2, <1>3

\* The second part may name what the first one deploys.
LEMMA NamesConcat ==
    ASSUME NEW params, NEW s, NEW t, NEW before,
           Names(params, s, before), Names(params, t, before \cup Deployed(s))
    PROVE  Names(params, s \o t, before)
<1> DEFINE u == s \o t
<1>1. /\ Len(s) \in Nat /\ Len(t) \in Nat /\ IsSequence(u) /\ Len(u) = Len(s) + Len(t)
      /\ \A i \in 1..Len(s) : u[i] = s[i]
      /\ \A i \in 1..Len(t) : u[Len(s) + i] = t[i]
    BY ConcatProgram DEF Names, IsSequence
<1> HIDE DEF u
<1> SUFFICES ASSUME NEW j \in 1..Len(u), u[j].op = "create"
             PROVE  /\ {1, 2} \subseteq DOMAIN u[j].arg.calls
                    /\ \A i \in {1, 2} : NamesCall(params, u, j, u[j].arg.calls[i], before)
    BY <1>1 DEF Names, u
<1>2. CASE j \in 1..Len(s)
    <2>1. u[j] = s[j] /\ s[j].op = "create"
        BY <1>1, <1>2
    <2>2. \A m \in 1..(j - 1) : u[m] = s[m]
        BY <1>1, <1>2
    <2>3. \A kind : DeploysBefore(s, j, kind) => DeploysBefore(u, j, kind)
        BY <2>2 DEF DeploysBefore
    <2>4. /\ {1, 2} \subseteq DOMAIN s[j].arg.calls
          /\ \A i \in {1, 2} : NamesCall(params, s, j, s[j].arg.calls[i], before)
        BY <1>2, <2>1 DEF Names
    <2> QED  BY <2>1, <2>3, <2>4 DEF NamesCall
<1>3. CASE j \notin 1..Len(s)
    <2> DEFINE k == j - Len(s)
    <2>1. k \in 1..Len(t) /\ j = Len(s) + k
        BY <1>1, <1>3
    <2>2. u[j] = t[k] /\ t[k].op = "create"
        BY <1>1, <2>1
    <2>3. \A kind : DeploysBefore(t, k, kind) => DeploysBefore(u, j, kind)
        <3>1. \A m \in 1..(k - 1) : Len(s) + m \in 1..(j - 1) /\ u[Len(s) + m] = t[m]
            BY <1>1, <2>1
        <3> HIDE DEF k
        <3> QED  BY <3>1 DEF DeploysBefore
    <2>4. \A kind : kind \in Deployed(s) => DeploysBefore(u, j, kind)
        <3>1. \A m \in 1..Len(s) : m \in 1..(j - 1) /\ u[m] = s[m]
            BY <1>1, <2>1
        <3> QED  BY <3>1 DEF Deployed, Deploys, DeploysBefore
    <2>5. /\ {1, 2} \subseteq DOMAIN t[k].arg.calls
          /\ \A i \in {1, 2} : NamesCall(params, t, k, t[k].arg.calls[i], before \cup Deployed(s))
        BY <2>1, <2>2 DEF Names
    <2> HIDE DEF k
    <2>6. \A call : NamesCall(params, t, k, call, before \cup Deployed(s)) =>
                    NamesCall(params, u, j, call, before)
        BY <2>3, <2>4 DEF NamesCall
    <2> QED  BY <2>2, <2>5, <2>6
<1> QED  BY <1>2, <1>3

\* Parts around a proposal do not change what it names.
LEMMA NamesAround ==
    ASSUME NEW params, NEW s, NEW t, NEW before,
           \/ Plain(s) /\ Names(params, t, before)
           \/ Names(params, s, before) /\ Plain(t)
    PROVE  Names(params, s \o t, before)
<1>1. CASE Plain(s) /\ Names(params, t, before)
    <2>1. Names(params, t, before \cup Deployed(s))
        BY <1>1 DEF Names, NamesCall
    <2> QED  BY <1>1, <2>1, PlainNames, NamesConcat
<1>2. CASE Names(params, s, before) /\ Plain(t)
    BY <1>2, PlainNames, NamesConcat
<1> QED  BY <1>1, <1>2

LEMMA PlainParts ==
    /\ Plain(SetDRE)
    /\ \A c : Plain(GetDefenderRelaySigner(c))
    /\ \A condition, reason : Plain(Require(condition, reason))
    /\ \A kind, args : Plain(DeployContract(kind, args)) /\ Deploys(DeployContract(kind, args), kind)
    /\ \A c, verify : Plain(Verified(c, verify))
    /\ \A n : Plain(AdvanceBlocks(n))
<1>1. Plain(SetDRE) /\ \A n : Plain(AdvanceBlocks(n))
    BY PlainStep DEF SetDRE, AdvanceBlocks
<1>2. \A condition, reason : Plain(Require(condition, reason))
    BY PlainStep, PlainEmpty DEF Require
<1>3. \A c : Plain(GetDefenderRelaySigner(c))
    BY <1>2 DEF GetDefenderRelaySigner
<1>4. ASSUME NEW kind, NEW args
      PROVE  Plain(DeployContract(kind, args)) /\ Deploys(DeployContract(kind, args), kind)
    <2> DEFINE arg == [kind |-> kind, args |-> args]
               d == Step("deploy", arg)
               r == RegisterContractInJsonDb(kind, kind)
    <2>1. arg.kind = kind
        OBVIOUS
    <2> HIDE DEF arg
    <2>2. Plain(d) /\ Len(d) = 1 /\ d[1].op = "deploy" /\ d[1].arg = arg
        BY PlainStep, StepProgram
    <2>3. Deploys(d, kind)
        BY <2>1, <2>2 DEF Deploys
    <2>4. Plain(r)
        BY PlainStep, PlainConcat DEF RegisterContractInJsonDb
    <2> HIDE DEF d, r
    <2>5. Plain(d \o r) /\ Deploys(d \o r, kind)
        BY <2>2, <2>3, <2>4, PlainConcat, DeploysConcat DEF Plain
    <2> QED  BY <2>5 DEF d, r, arg, DeployContract
<1>5. \A c, verify : Plain(Verified(c, verify))
    <2>1. Plain(Step("verify", ""))
        BY PlainStep
    <2> QED  BY <1>2, <2>1, PlainEmpty, PlainConcat DEF Verified
<1> QED  BY <1>1, <1>2, <1>3, <1>4, <1>5

LEMMA PlainRevisions ==
    ASSUME NEW c
    PROVE  /\ Plain(DeployStakedAaveRev3Task(c)) /\ Deploys(DeployStakedAaveRev3Task(c), "StakedTokenV2Rev3")
           /\ Plain(DeployStakedBptRev2Task(c)) /\ Deploys(DeployStakedBptRev2Task(c), "StakedTokenBptRev2")
<1>1. ASSUME NEW kind, NEW args
      PROVE  /\ Plain(DeployContract(kind, args) \o Verified(c, TRUE))
             /\ Deploys(DeployContract(kind, args) \o Verified(c, TRUE), kind)
    <2> DEFINE d == DeployContract(kind, args)
               v == Verified(c, TRUE)
    <2>1. Plain(d) /\ Deploys(d, kind) /\ Plain(v)
        BY PlainParts
    <2> HIDE DEF d, v
    <2>2. IsSequence(d) /\ IsSequence(v)
        BY <2>1 DEF Plain
    <2>3. Plain(d \o v) /\ Deploys(d \o v, kind)
        BY <2>1, <2>2, PlainConcat, DeploysConcat
    <2> QED  BY <2>3 DEF d, v
<1>2. Plain(SetDRE \o GetDefenderRelaySigner(c))
    BY PlainParts, PlainConcat
<1>3. \A args : /\ Plain(DeployStakedTokenV2Revision3(c, args, TRUE))
                /\ Deploys(DeployStakedTokenV2Revision3(c, args, TRUE), "StakedTokenV2Rev3")
    BY <1>1 DEF DeployStakedTokenV2Revision3
<1>4. \A args : /\ Plain(DeployStakedTokenBptRevision2(c, args, TRUE))
                /\ Deploys(DeployStakedTokenBptRevision2(c, args, TRUE), "StakedTokenBptRev2")
    BY <1>1 DEF DeployStakedTokenBptRevision2
<1>5. /\ Plain(DeployStakedAaveRev3Task(c))
      /\ Deploys(DeployStakedAaveRev3Task(c), "StakedTokenV2Rev3")
    BY <1>2, <1>3, PlainConcat, DeploysConcat DEF DeployStakedAaveRev3Task, Plain
<1>6. /\ Plain(DeployStakedBptRev2Task(c))
      /\ Deploys(DeployStakedBptRev2Task(c), "StakedTokenBptRev2")
    BY <1>2, <1>4, PlainConcat, DeploysConcat DEF DeployStakedBptRev2Task, Plain
<1> QED  BY <1>5, <1>6

\* The step that creates a proposal, with two calls of known implementations.
LEMMA NamesCreate ==
    ASSUME NEW params, NEW executor, NEW first, NEW second, NEW before,
           \A call \in {first, second} :
              \/ call.impl = "approve"
              \/ call.impl \in ContractKinds /\ (GivenAs(call.impl) \in params \/ call.impl \in before)
    PROVE  Names(params, Step("create", [executor |-> executor, calls |-> <<first, second>>]), before)
<1> DEFINE calls == <<first, second>>
           arg == [executor |-> executor, calls |-> calls]
           s == Step("create", arg)
<1>1. DOMAIN calls = {1, 2} /\ calls[1] = first /\ calls[2] = second
    OBVIOUS
<1> HIDE DEF calls
<1>2. arg.calls = calls
    OBVIOUS
<1> HIDE DEF arg
<1>3. IsSequence(s) /\ Len(s) = 1 /\ s[1].arg = arg
    BY StepProgram
<1> HIDE DEF s
<1>4. \A j \in 1..Len(s) : j = 1
    BY <1>3
<1>5. \A i \in {1, 2} : NamesCall(params, s, 1, calls[i], before)
    BY <1>1 DEF NamesCall
<1>6. Names(params, s, before)
    BY <1>1, <1>2, <1>3, <1>4, <1>5 DEF Names
<1> QED  BY <1>6 DEF s, arg, calls

\* Every implementation that is not given is deployed before the proposal.
LEMMA NamesExtension ==
    ASSUME NEW c
    PROVE  Names(c.params, ProposalStkExtensionsTask(c), {})
<1> DEFINE aave == IF "stkaaveimpl" \in c.params THEN <<>> ELSE DeployStakedAaveRev3Task(c)
           bpt == IF "stkbptimpl" \in c.params THEN <<>> ELSE DeployStakedBptRev2Task(c)
           checks == SetDRE \o GetDefenderRelaySigner(c)
           s == checks \o aave \o bpt
<1>1. Plain(checks)
    BY PlainParts, PlainConcat
<1>2. Plain(aave) /\ ("stkaaveimpl" \in c.params \/ Deploys(aave, "StakedTokenV2Rev3"))
    BY PlainRevisions, PlainEmpty
<1>3. Plain(bpt) /\ ("stkbptimpl" \in c.params \/ Deploys(bpt, "StakedTokenBptRev2"))
    BY PlainRevisions, PlainEmpty
<1> HIDE DEF checks, aave, bpt
<1>4. Plain(checks \o aave) /\ Plain(s)
    BY <1>1, <1>2, <1>3, PlainConcat
<1>5. "stkaaveimpl" \in c.params \/ Deploys(s, "StakedTokenV2Rev3")
    <2>1. ASSUME Deploys(aave, "StakedTokenV2Rev3") PROVE Deploys(s, "StakedTokenV2Rev3")
        <3>1. Deploys(checks \o aave, "StakedTokenV2Rev3")
            BY <1>1, <1>2, <2>1, DeploysConcat DEF Plain
        <3> QED  BY <1>3, <1>4, <3>1, DeploysConcat DEF Plain
    <2> QED  BY <1>2, <2>1
<1>6. "stkbptimpl" \in c.params \/ Deploys(s, "StakedTokenBptRev2")
    BY <1>3, <1>4, DeploysConcat DEF Plain
<1> HIDE DEF s
<1>7. Names(c.params, ProposeExtensionTask(c), {} \cup Deployed(s))
    <2> DEFINE first == [target |-> "stkAave", impl |-> "StakedTokenV2Rev3"]
               second == [target |-> "stkBpt", impl |-> "StakedTokenBptRev2"]
    <2>1. /\ "stkaaveimpl" \in c.params \/ "StakedTokenV2Rev3" \in Deployed(s)
          /\ "stkbptimpl" \in c.params \/ "StakedTokenBptRev2" \in Deployed(s)
        BY <1>5, <1>6 DEF Deployed, ContractKinds
    <2>2. \A call \in {first, second} :
            call.impl \in ContractKinds
            /\ (GivenAs(call.impl) \in c.params \/ call.impl \in {} \cup Deployed(s))
        BY <2>1 DEF GivenAs, ContractKinds
    <2>3. Names(c.params, Step("create", [executor |-> LongExecutor, calls |-> <<first, second>>]),
                {} \cup Deployed(s))
        <3> HIDE DEF first, second
        <3> QED  BY <2>2, NamesCreate
    <2>4. Plain(SetDRE \o GetDefenderRelaySigner(c))
        BY PlainParts, PlainConcat
    <2> QED  BY <2>3, <2>4, NamesAround DEF ProposeExtensionTask
<1>8. Names(c.params, s \o ProposeExtensionTask(c), {})
    BY <1>4, <1>7, PlainNames, NamesConcat DEF s
<1> QED  BY <1>8 DEF s, checks, aave, bpt, ProposalStkExtensionsTask

LEMMA NamesApproval ==
    ASSUME NEW params, NEW c
    PROVE  Names(params, ProposalVaultApprovalTask(c), {})
<1> DEFINE first == [target |-> "stkAave", impl |-> "approve"]
           second == [target |-> "stkBpt", impl |-> "approve"]
<1>1. \A call \in {first, second} : call.impl = "approve"
    OBVIOUS
<1>2. Names(params, Step("create", [executor |-> ShortExecutor, calls |-> <<first, second>>]), {})
    <2> HIDE DEF first, second
    <2> QED  BY <1>1, NamesCreate
<1>3. Plain(SetDRE \o GetDefenderRelaySigner(c))
    BY PlainParts, PlainConcat
<1>4. Names(params, ProposeVaultApprovalTask(c), {})
    BY <1>2, <1>3, NamesAround DEF ProposeVaultApprovalTask
<1>5. Plain(SetDRE \o Require("ipfsHash" \in c.params, "params") \o GetDefenderRelaySigner(c))
    BY PlainParts, PlainConcat
<1> QED  BY <1>4, <1>5, NamesAround DEF ProposalVaultApprovalTask

\* The rehearsals add nothing to what the proposal of their fork names.
LEMMA NamesRehearsal ==
    ASSUME NEW params, NEW c, NEW n, NEW propose, NEW executor, Names(params, propose, {})
    PROVE  Names(params, FundProposer(c, n) \o ProposeAndExecute(propose, executor), {})
<1>1. \A op, arg : op # "create" => Plain(Step(op, arg))
    BY PlainStep
<1>2. Plain(FundProposer(c, n))
    BY <1>1, PlainParts, PlainConcat DEF FundProposer
<1>3. \A duration, delay : Plain(QueueAndExecute(duration, delay))
    BY <1>1, PlainParts, PlainConcat DEF QueueAndExecute
<1>4. /\ Plain(AdvanceBlocks(10)) /\ Plain(Step("getProposalsCount", ""))
      /\ Plain(AdvanceBlocks(1)) /\ Plain(Step("submitVote", "proposer"))
      /\ Plain(QueueAndExecute(executor.duration, executor.delay))
    BY <1>1, <1>3, PlainParts
<1>5. Names(params, ProposeAndExecute(propose, executor), {})
    BY <1>4, PlainConcat, NamesAround DEF ProposeAndExecute
<1> QED  BY <1>2, <1>5, NamesAround

LEMMA NamesProgram ==
    ASSUME NEW c, c.task \in ProposingTasks
    PROVE  Names(c.params, Program(c), {})
<1>1. c.task = "proposal-stk-extensions" => Names(c.params, Program(c), {})
    BY NamesExtension DEF Program
<1>2. c.task = "proposal-vault-approval" => Names(c.params, Program(c), {})
    BY NamesApproval DEF Program
<1>3. Names(c.params, StkAaveExtensionTenderly(c), {})
    BY NamesExtension, NamesRehearsal DEF StkAaveExtensionTenderly
<1>4. Names(c.params, VaultApprovalTenderly(c), {})
    BY NamesApproval, NamesRehearsal DEF VaultApprovalTenderly
<1>5. c.task = "proposal-stk-aave-extension:tenderly" => Names(c.params, Program(c), {})
    BY <1>3 DEF Program
<1>6. c.task = "proposal-vault-approval:tenderly" => Names(c.params, Program(c), {})
    BY <1>4 DEF Program
<1> QED  BY <1>1, <1>2, <1>5, <1>6 DEF ProposingTasks

-----------------------------------------------------------------------------
(* What a run knows of the contracts of its chain                            *)

\* Contracts keep their address and kind, and a mined one stays mined.
Extends(before, after) ==
    \A chain \in DOMAIN before :
        /\ chain \in DOMAIN after
        /\ \A a \in DOMAIN before[chain] :
              /\ a \in DOMAIN after[chain]
              /\ after[chain][a].kind = before[chain][a].kind
              /\ before[chain][a].state = "mined" => after[chain][a].state = "mined"

\* They also keep their implementation and admin.
Preserves(before, after) ==
    /\ Extends(before, after)
    /\ \A chain \in DOMAIN before : \A a \in DOMAIN before[chain] :
          /\ after[chain][a].impl = before[chain][a].impl
          /\ after[chain][a].admin = before[chain][a].admin

NoneFailed(all) ==
    \A chain \in DOMAIN all : \A a \in DOMAIN all[chain] : all[chain][a].state \in {"sent", "mined"}

LEMMA ReplacedContract ==
    ASSUME NEW before, NEW after, NEW chain \in DOMAIN before, NEW a \in DOMAIN before[chain], NEW new,
           after = [before EXCEPT ![chain] = [@ EXCEPT ![a] = new]],
           new.kind = before[chain][a].kind,
           before[chain][a].state = "mined" => new.state = "mined"
    PROVE  /\ Extends(before, after)
           /\ new.impl = before[chain][a].impl /\ new.admin = before[chain][a].admin =>
                 Preserves(before, after)
           /\ NoneFailed(before) /\ new.state \in {"sent", "mined"} => NoneFailed(after)
<1>1. DOMAIN after = DOMAIN before
    OBVIOUS
<1>2. \A k \in DOMAIN before : after[k] = IF k = chain THEN [before[k] EXCEPT ![a] = new] ELSE before[k]
    OBVIOUS
<1>3. \A k \in DOMAIN before : \A i \in DOMAIN before[k] :
        after[k][i] = IF k = chain /\ i = a THEN new ELSE before[k][i]
    BY <1>2
<1>4. \A k \in DOMAIN before : DOMAIN after[k] = DOMAIN before[k]
    BY <1>2
<1>5. Extends(before, after)
    BY <1>1, <1>3, <1>4 DEF Extends
<1>6. ASSUME NoneFailed(before), new.state \in {"sent", "mined"} PROVE NoneFailed(after)
    BY <1>1, <1>3, <1>4, <1>6 DEF NoneFailed
<1>7. ASSUME new.impl = before[chain][a].impl, new.admin = before[chain][a].admin
      PROVE  Preserves(before, after)
    BY <1>3, <1>5, <1>7 DEF Preserves
<1> QED  BY <1>5, <1>6, <1>7

LEMMA AppendedContract ==
    ASSUME NEW before, NEW after, NEW chain, NEW s, NEW new, IsSequence(s),
           chain \in DOMAIN before => s = before[chain],
           chain \notin DOMAIN before => s = <<>>,
           after = Put(before, chain, Append(s, new))
    PROVE  /\ Extends(before, after) /\ Preserves(before, after)
           /\ NoneFailed(before) /\ new.state \in {"sent", "mined"} => NoneFailed(after)
           /\ chain \in DOMAIN after /\ Len(s) + 1 \in DOMAIN after[chain]
           /\ after[chain][Len(s) + 1] = new
<1> DEFINE t == Append(s, new)
<1>1. /\ IsSequence(t) /\ Len(t) = Len(s) + 1 /\ Len(s) \in Nat
      /\ \A i \in 1..Len(s) : t[i] = s[i]
      /\ t[Len(s) + 1] = new
    BY AppendSequence DEF IsSequence
<1> HIDE DEF t
<1>2. DOMAIN s = 1..Len(s) /\ DOMAIN t = 1..(Len(s) + 1)
    BY <1>1 DEF IsSequence
<1>3. \A i \in DOMAIN t : (i \in DOMAIN s /\ t[i] = s[i]) \/ i = Len(s) + 1
    BY <1>1, <1>2
<1>4. \A i \in DOMAIN s : i \in DOMAIN t /\ t[i] = s[i]
    BY <1>1, <1>2
<1>5. DOMAIN after = DOMAIN before \cup {chain}
    BY DEF Put
<1>6. \A k \in DOMAIN after : after[k] = IF k = chain THEN t ELSE before[k]
    BY DEF Put, t
<1>7. Extends(before, after) /\ Preserves(before, after)
    <2> SUFFICES ASSUME NEW k \in DOMAIN before, NEW i \in DOMAIN before[k]
                 PROVE  i \in DOMAIN after[k] /\ after[k][i] = before[k][i]
        BY <1>5 DEF Extends, Preserves
    <2>1. CASE k = chain
        BY <1>4, <1>5, <1>6, <2>1
    <2>2. CASE k # chain
        BY <1>5, <1>6, <2>2
    <2> QED  BY <2>1, <2>2
<1>8. ASSUME NoneFailed(before), new.state \in {"sent", "mined"} PROVE NoneFailed(after)
    <2> SUFFICES ASSUME NEW k \in DOMAIN after, NEW i \in DOMAIN after[k]
                 PROVE  after[k][i].state \in {"sent", "mined"}
        BY DEF NoneFailed
    <2>1. CASE k # chain
        BY <1>5, <1>6, <1>8, <2>1 DEF NoneFailed
    <2>2. CASE k = chain /\ i = Len(s) + 1
        BY <1>1, <1>6, <1>8, <2>2
    <2>3. CASE k = chain /\ i \in DOMAIN s /\ t[i] = s[i]
        <3>1. chain \in DOMAIN before
            <4>1. DOMAIN <<>> = {}
                OBVIOUS
            <4> QED  BY <2>3, <4>1
        <3> QED  BY <1>6, <1>8, <2>3, <3>1 DEF NoneFailed
    <2> QED  BY <1>3, <1>6, <2>1, <2>2, <2>3
<1>9. /\ chain \in DOMAIN after /\ Len(s) + 1 \in DOMAIN after[chain]
      /\ after[chain][Len(s) + 1] = new
    BY <1>1, <1>2, <1>5, <1>6
<1> QED  BY <1>7, <1>8, <1>9

\* A new chain takes nothing from the others.
LEMMA AddedChain ==
    ASSUME NEW before, NEW after, NEW chain, NEW s, chain \notin DOMAIN before,
           after = Put(before, chain, s)
    PROVE  /\ Extends(before, after) /\ Preserves(before, after)
           /\ NoneFailed(before) /\ (\A a \in DOMAIN s : s[a].state \in {"sent", "mined"}) => NoneFailed(after)
<1>1. /\ DOMAIN after = DOMAIN before \cup {chain}
      /\ \A k \in DOMAIN before : after[k] = before[k]
      /\ after[chain] = s
    BY DEF Put
<1>2. Extends(before, after) /\ Preserves(before, after)
    BY <1>1 DEF Extends, Preserves
<1>3. ASSUME NoneFailed(before), \A a \in DOMAIN s : s[a].state \in {"sent", "mined"}
      PROVE  NoneFailed(after)
    BY <1>1, <1>3 DEF NoneFailed
<1> QED  BY <1>2, <1>3

LEMMA ExtendsItself == \A all : Extends(all, all) /\ Preserves(all, all)
BY DEF Extends, Preserves

\* No step takes a contract back, and without faults none fails.
Lasting ==
    /\ Extends(contracts, contracts')
    /\ faults' = faults \/ faults' = faults + 1
    /\ NoneFailed(contracts) /\ faults' = faults => NoneFailed(contracts')

LEMMA DeployLasts ==
    ASSUME NEW p \in Procs, ContractsInv, Deploy(p)
    PROVE  /\ Lasting
           /\ LET chain == runs[p].chain
                  a == Len(ContractsOn(chain)) + 1
              IN /\ chain \in DOMAIN contracts' /\ a \in DOMAIN contracts'[chain]
                 /\ contracts'[chain][a].kind = Arg(p).kind /\ contracts'[chain][a].impl = 0
           /\ Preserves(contracts, contracts')
<1> DEFINE chain == runs[p].chain
           s == ContractsOn(chain)
           new == [kind |-> Arg(p).kind, args |-> Arg(p).args, impl |-> 0, admin |-> "",
                   network |-> runs[p].cmd.network,
                   state |-> IF Private(runs[p].cmd) THEN "mined" ELSE "sent"]
           after == contracts'
<1>1. after = Put(contracts, chain, Append(s, new)) /\ faults' = faults
    BY DEF Deploy
<1>2. IsSequence(s) /\ (chain \in DOMAIN contracts => s = contracts[chain])
      /\ (chain \notin DOMAIN contracts => s = <<>>)
    BY ContractsOnChain DEF ContractsOn
<1>3. new.kind = Arg(p).kind /\ new.impl = 0 /\ new.state \in {"sent", "mined"}
    OBVIOUS
<1> HIDE DEF after, new, s, chain
<1>4. /\ Extends(contracts, after) /\ Preserves(contracts, after)
      /\ NoneFailed(contracts) => NoneFailed(after)
      /\ chain \in DOMAIN after /\ Len(s) + 1 \in DOMAIN after[chain]
      /\ after[chain][Len(s) + 1] = new
    BY <1>1, <1>2, <1>3, AppendedContract
<1> QED  BY <1>1, <1>3, <1>4 DEF Lasting, after, s, chain

\* A contract as ContractsInv has it, written over in one or two fields.
LEMMA ContractShape ==
    ASSUME NEW chain \in DOMAIN contracts, NEW a \in DOMAIN contracts[chain], ContractsInv
    PROVE  contracts[chain][a] = [field \in ContractFields |-> contracts[chain][a][field]]
<1>1. IsSequence(contracts[chain])
    BY DEF ContractsInv
<1>2. a \in 1..Len(contracts[chain])
    BY <1>1 DEF IsSequence
<1> QED  BY <1>2 DEF ContractsInv, ContractInv

LEMMA InitializeLasts ==
    ASSUME NEW p \in Procs, ContractsInv, Initialize(p)
    PROVE  Lasting
<1> DEFINE chain == runs[p].chain
           proxy == runs[p].known["proxy"]
           impl == runs[p].known["impl"]
<1>1. faults' = faults
    BY DEF Initialize
<1>2. CASE contracts' = contracts
    BY <1>1, <1>2, ExtendsItself DEF Lasting
<1>3. CASE /\ HasCode(chain, proxy)
           /\ contracts' = [contracts EXCEPT ![chain][proxy].impl = impl,
                                             ![chain][proxy].admin = Arg(p)]
    <2> DEFINE old == contracts[chain][proxy]
               new == [old EXCEPT !.impl = impl, !.admin = Arg(p)]
               after == contracts'
    <2>1. chain \in DOMAIN contracts /\ proxy \in DOMAIN contracts[chain] /\ old.state = "mined"
        <3>1. DOMAIN <<>> = {}
            OBVIOUS
        <3> QED  BY <1>3, <3>1 DEF HasCode, ContractsOn
    <2>2. after = [contracts EXCEPT ![chain] = [@ EXCEPT ![proxy] = new]]
        BY <1>3, <2>1
    <2>3. old = [field \in ContractFields |-> old[field]]
        BY <2>1, ContractShape
    <2> HIDE DEF old
    <2>4. new.kind = old.kind /\ new.state = old.state
        BY <2>3 DEF ContractFields
    <2> HIDE DEF new, after, chain, proxy
    <2>5. Extends(contracts, after) /\ (NoneFailed(contracts) => NoneFailed(after))
        BY <2>1, <2>2, <2>4, ReplacedContract DEF old
    <2> QED  BY <1>1, <2>5 DEF Lasting, after
<1> QED  BY <1>2, <1>3 DEF Initialize

LEMMA MineLasts ==
    ASSUME NEW chain \in DOMAIN contracts, NEW a \in DOMAIN contracts[chain], ContractsInv, faults \in Nat,
           Mine(chain, a) \/ FailToMine(chain, a)
    PROVE  Lasting /\ Preserves(contracts, contracts')
<1> DEFINE old == contracts[chain][a]
           mined == [old EXCEPT !.state = "mined"]
           failed == [old EXCEPT !.state = "failed"]
           after == contracts'
<1>1. old = [field \in ContractFields |-> old[field]]
    BY ContractShape
<1> HIDE DEF old
<1>2. /\ mined.kind = old.kind /\ mined.impl = old.impl /\ mined.admin = old.admin
      /\ mined.state = "mined"
      /\ failed.kind = old.kind /\ failed.impl = old.impl /\ failed.admin = old.admin
      /\ failed.state = "failed"
    BY <1>1 DEF ContractFields
<1>3. CASE Mine(chain, a)
    <2>1. after = [contracts EXCEPT ![chain] = [@ EXCEPT ![a] = mined]] /\ faults' = faults
        BY <1>3 DEF Mine, old
    <2> HIDE DEF mined, failed, after
    <2>2. /\ mined.kind = contracts[chain][a].kind /\ mined.impl = contracts[chain][a].impl
          /\ mined.admin = contracts[chain][a].admin
          /\ mined.state = "mined" /\ mined.state \in {"sent", "mined"}
        BY <1>2 DEF old
    <2>3. Extends(contracts, after) /\ Preserves(contracts, after)
        BY <2>1, <2>2, ReplacedContract
    <2>4. NoneFailed(contracts) => NoneFailed(after)
        BY <2>1, <2>2, ReplacedContract
    <2> QED  BY <2>1, <2>3, <2>4 DEF Lasting, after
<1>4. CASE FailToMine(chain, a)
    <2>1. /\ after = [contracts EXCEPT ![chain] = [@ EXCEPT ![a] = failed]]
          /\ old.state = "sent" /\ faults' = faults + 1
        BY <1>4 DEF FailToMine, old
    <2> HIDE DEF mined, failed, after
    <2>2. Extends(contracts, after) /\ Preserves(contracts, after)
        BY <1>2, <2>1, ReplacedContract DEF old
    <2>3. faults' # faults
        BY <2>1
    <2> QED  BY <2>1, <2>2, <2>3 DEF Lasting, after
<1> QED  BY <1>3, <1>4

LEMMA ConnectLasts ==
    ASSUME NEW p, Connect(p)
    PROVE  Lasting /\ Preserves(contracts, contracts')
<1>1. faults' = faults
    BY ConnectContinues
<1>2. CASE contracts' = contracts
    BY <1>1, <1>2, ExtendsItself DEF Lasting
<1>3. ASSUME NEW head \in Heads(runs[p].cmd), ChainOf(runs[p]) \notin DOMAIN contracts,
             contracts' = Put(contracts, ChainOf(runs[p]), head.contracts)
      PROVE  Lasting /\ Preserves(contracts, contracts')
    <2> DEFINE after == contracts'
               s == head.contracts
               chain == ChainOf(runs[p])
    <2>1. ASSUME NoneFailed(contracts), NEW a \in DOMAIN s
          PROVE  s[a].state \in {"sent", "mined"}
        <3>1. DOMAIN <<>> = {}
            OBVIOUS
        <3>2. PICK k \in DOMAIN contracts : s = contracts[k]
            BY <2>1, <3>1, HeadFound DEF ContractsOn
        <3> QED  BY <2>1, <3>2 DEF NoneFailed
    <2>2. chain \notin DOMAIN contracts /\ after = Put(contracts, chain, s)
        BY <1>3
    <2> HIDE DEF after, s, chain
    <2>3. /\ Extends(contracts, after) /\ Preserves(contracts, after)
          /\ NoneFailed(contracts) => NoneFailed(after)
        BY <2>1, <2>2, AddedChain
    <2> QED  BY <1>1, <2>3 DEF Lasting, after
<1> QED  BY <1>2, <1>3, ConnectFinds

LEMMA StepLasts ==
    ASSUME ContractsInv, faults \in Nat, [Next]_vars
    PROVE  Lasting
<1>1. CASE contracts' = contracts /\ (faults' = faults \/ faults' = faults + 1)
    BY <1>1, ExtendsItself DEF Lasting
<1>2. ASSUME NEW p \in Procs, TaskStep(p) PROVE Lasting
    <2>1. CASE Deploy(p)
        BY <2>1, DeployLasts
    <2>2. CASE Initialize(p)
        BY <2>2, InitializeLasts
    <2>3. CASE Connect(p)
        BY <2>3, ConnectLasts
    <2>4. CASE contracts' = contracts /\ faults' = faults
        BY <1>1, <2>4
    <2> QED
        BY <1>2, <2>1, <2>2, <2>3, <2>4
        DEF TaskStep, GovernanceStep, DeploymentStep, Transactions, AdvanceBlockTo,
            IncreaseTimeTenderly, GetProposalsCount, Create, SubmitVote, Queue, Execute, Throw,
            ReadDb, WriteDb, WaitForTx, VerifyStep, Get, NewCrp, Subscribe, AwaitCrp, Transact
<1>3. CASE \E p \in Procs : \E c \in plan : Start(p, c)
    BY <1>1, <1>3 DEF Start
<1>4. CASE \E p \in Procs : Kill(p) \/ Fault(p)
    BY <1>1, <1>4 DEF Kill, Fault, TransactionFails
<1>5. CASE \E chain \in DOMAIN contracts : \E a \in DOMAIN contracts[chain] :
             Mine(chain, a) \/ FailToMine(chain, a)
    BY <1>5, MineLasts
<1>6. CASE UNCHANGED vars
    BY <1>1, <1>6 DEF vars
<1> QED  BY <1>2, <1>3, <1>4, <1>5, <1>6 DEF Next, Environment, Chain

Holds(all, chain, a, kind) ==
    chain \in DOMAIN all /\ a \in DOMAIN all[chain] /\ all[chain][a].kind = kind

\* What a run holds as the address of a contract is one of its chain, and it
\* holds the address of whatever it has deployed.
Knows(r, all) ==
    r.status = "running" =>
        /\ \A kind \in DOMAIN r.known \cap ContractKinds : Holds(all, ChainOf(r), r.known[kind], kind)
        /\ \A kind : DeploysBefore(Program(r.cmd), r.pc, kind) => kind \in DOMAIN r.known

\* One step of a run: it forgets nothing, and learns what it deploys.
Learns(r, s, after) ==
    /\ s.cmd = r.cmd /\ s.start = r.start
    /\ s.status = "running" =>
          /\ s.pc = r.pc + 1 \/ s.pc = r.pc
          /\ DOMAIN r.known \subseteq DOMAIN s.known
          /\ r.step.op = "deploy" => r.step.arg.kind \in DOMAIN s.known
          /\ \A kind \in DOMAIN s.known \cap ContractKinds :
                \/ kind \in DOMAIN r.known /\ s.known[kind] = r.known[kind]
                \/ Holds(after, ChainOf(r), s.known[kind], kind)

LEMMA KnowsNext ==
    ASSUME NEW r, NEW s, NEW before, NEW after, RunInv(r), r.status = "running"
    PROVE  Knows(r, before) /\ Extends(before, after) /\ Learns(r, s, after) => Knows(s, after)
<1> SUFFICES ASSUME Knows(r, before), Extends(before, after), Learns(r, s, after), s.status = "running"
             PROVE  /\ \A kind \in DOMAIN s.known \cap ContractKinds :
                          Holds(after, ChainOf(s), s.known[kind], kind)
                    /\ \A kind : DeploysBefore(Program(s.cmd), s.pc, kind) => kind \in DOMAIN s.known
    BY DEF Knows
<1>1. ChainOf(s) = ChainOf(r)
    BY DEF Learns, ChainOf
<1>2. ASSUME NEW kind \in DOMAIN s.known \cap ContractKinds
      PROVE  Holds(after, ChainOf(s), s.known[kind], kind)
    <2>1. CASE kind \in DOMAIN r.known /\ s.known[kind] = r.known[kind]
        <3>1. Holds(before, ChainOf(r), r.known[kind], kind)
            BY <2>1 DEF Knows
        <3> QED  BY <1>1, <2>1, <3>1 DEF Holds, Extends
    <2> QED  BY <1>1, <2>1 DEF Learns
<1>3. ASSUME NEW kind, DeploysBefore(Program(s.cmd), s.pc, kind)
      PROVE  kind \in DOMAIN s.known
    <2>1. PICK m \in 1..(s.pc - 1) : Program(s.cmd)[m].op = "deploy" /\ Program(s.cmd)[m].arg.kind = kind
        BY <1>3 DEF DeploysBefore
    <2>2. r.pc \in 1..Len(Program(r.cmd)) /\ r.step = Program(r.cmd)[r.pc] /\ s.cmd = r.cmd
        BY DEF RunInv, Placed, Learns
    <2>3. s.pc = r.pc + 1 \/ s.pc = r.pc
        BY DEF Learns
    <2>4. m \in 1..(r.pc - 1) \/ m = r.pc
        BY <2>2, <2>3
    <2>5. CASE m \in 1..(r.pc - 1)
        <3>1. DeploysBefore(Program(r.cmd), r.pc, kind)
            BY <2>1, <2>2, <2>5 DEF DeploysBefore
        <3> QED  BY <3>1 DEF Knows, Learns
    <2>6. CASE m = r.pc
        BY <2>1, <2>2, <2>6 DEF Learns
    <2> QED  BY <2>4, <2>5, <2>6
<1> QED  BY <1>2, <1>3

LEMMA PutLearns ==
    ASSUME NEW r, NEW s, NEW after, NEW key, NEW v,
           s.cmd = r.cmd, s.start = r.start,
           s.status = "running" => s.pc = r.pc + 1 \/ s.pc = r.pc,
           r.step.op = "deploy" => key = r.step.arg.kind,
           key \in ContractKinds => Holds(after, ChainOf(r), v, key)
    PROVE  (s.status = "running" => s.known = Put(r.known, key, v)) => Learns(r, s, after)
<1> SUFFICES ASSUME s.status = "running", s.known = Put(r.known, key, v) PROVE Learns(r, s, after)
    BY DEF Learns
<1>1. DOMAIN s.known = DOMAIN r.known \cup {key} /\ key \in DOMAIN s.known
    BY DEF Put
<1>2. \A k \in DOMAIN s.known : s.known[k] = IF k = key THEN v ELSE r.known[k]
    BY DEF Put
<1>3. \A k \in DOMAIN s.known \cap ContractKinds :
         \/ k \in DOMAIN r.known /\ s.known[k] = r.known[k]
         \/ Holds(after, ChainOf(r), s.known[k], k)
    BY <1>1, <1>2
<1> QED  BY <1>1, <1>3 DEF Learns

LEMMA LearningMoves ==
    ASSUME NEW p, NEW v, RunsInv, Running(p), runs[p].step.op \in LearningOps,
           Continue(p, [runs[p] EXCEPT !.known = v])
    PROVE  Moves(p) /\ (runs'[p].status = "running" => runs'[p].known = v)
<1> DEFINE run == [runs[p] EXCEPT !.known = v]
           op == runs[p].step.op
<1>1. Running(p) /\ At(p, op) /\ op \in LearningOps
    BY DEF At
<1>2. RunShape(runs[p]) /\ Verifying(runs[p])
    BY <1>1, ShapedRun
<1>3. /\ RunShape(run) /\ Verifying(run) /\ run.cmd = runs[p].cmd /\ run.status = runs[p].status
      /\ run.pc = runs[p].pc /\ run.start = runs[p].start /\ run.alone = runs[p].alone
      /\ run.chain = runs[p].chain /\ run.known = v
    BY <1>2, LearnedRun
<1>4. Continue(p, run) /\ op \notin {"set-dre", "throw"}
    BY DEF LearningOps
<1> HIDE DEF run, op
<1> QED  BY <1>1, <1>3, <1>4, ContinueWith

\* Where a run that did its step is.
LEMMA MovedRun ==
    ASSUME NEW p, Moves(p)
    PROVE  /\ runs'[p].cmd = runs[p].cmd /\ runs'[p].start = runs[p].start
           /\ runs'[p].status = "running" =>
                 /\ runs'[p].pc = runs[p].pc + 1 \/ runs'[p].pc = runs[p].pc
                 /\ runs[p].step.op \notin LearningOps => runs'[p].known = runs[p].known
BY DEF Moves

LEMMA DeployLearns ==
    ASSUME NEW p \in Procs, RunsInv, ContractsInv, Deploy(p)
    PROVE  Learns(runs[p], runs'[p], contracts')
<1> DEFINE r == runs[p]
           s == runs'[p]
           after == contracts'
           key == Arg(p).kind
           a == Len(ContractsOn(r.chain)) + 1
           v == Put(r.known, key, a)
<1>1. At(p, "deploy") /\ Running(p) /\ r.step.op = "deploy" /\ key = r.step.arg.kind
    BY DEF Deploy, At, Arg
<1>2. Continue(p, [r EXCEPT !.known = v])
    BY DEF Deploy
<1>3. Moves(p) /\ (s.status = "running" => s.known = v)
    <2> HIDE DEF v
    <2> QED  BY <1>1, <1>2, LearningMoves DEF LearningOps
<1>4. Holds(after, r.chain, a, key)
    BY DeployLasts DEF Holds
<1>5. r.chain = ChainOf(r)
    BY <1>1, ConnectedRun
<1>6. /\ s.cmd = r.cmd /\ s.start = r.start
      /\ s.status = "running" => (s.pc = r.pc + 1 \/ s.pc = r.pc) /\ s.known = Put(r.known, key, a)
    BY <1>3, MovedRun
<1> HIDE DEF r, s, after, key, a
<1>7. Learns(r, s, after)
    BY <1>1, <1>4, <1>5, <1>6, PutLearns
<1> QED  BY <1>7 DEF r, s, after

\* An entry of the file and the number of a proposal are no address of a
\* contract that the run deployed.
LEMMA OtherLearns ==
    ASSUME NEW p \in Procs, NEW op \in LearningOps \ {"deploy"}, NEW key, NEW v, RunsInv, At(p, op),
           key \notin ContractKinds
    PROVE  Continue(p, [runs[p] EXCEPT !.known = Put(@, key, v)]) => Learns(runs[p], runs'[p], contracts')
<1> SUFFICES ASSUME Continue(p, [runs[p] EXCEPT !.known = Put(@, key, v)])
             PROVE  Learns(runs[p], runs'[p], contracts')
    OBVIOUS
<1> DEFINE r == runs[p]
           s == runs'[p]
           after == contracts'
           w == Put(r.known, key, v)
<1>1. r.step.op # "deploy" /\ r.step.op \in LearningOps /\ Running(p)
    BY DEF At
<1>2. Continue(p, [r EXCEPT !.known = w])
    OBVIOUS
<1>3. Moves(p) /\ (s.status = "running" => s.known = w)
    <2> HIDE DEF w
    <2> QED  BY <1>1, <1>2, LearningMoves
<1>4. /\ s.cmd = r.cmd /\ s.start = r.start
      /\ s.status = "running" => (s.pc = r.pc + 1 \/ s.pc = r.pc) /\ s.known = Put(r.known, key, v)
    BY <1>3, MovedRun
<1> HIDE DEF r, s, after
<1>5. Learns(r, s, after)
    BY <1>1, <1>4, PutLearns
<1> QED  BY <1>5 DEF r, s, after

LEMMA SameLearns ==
    ASSUME NEW p \in Procs, RunsInv, Moves(p), runs[p].step.op \notin LearningOps
    PROVE  Learns(runs[p], runs'[p], contracts')
BY MovedRun DEF Learns, LearningOps

LEMMA GetLearns ==
    ASSUME NEW p \in Procs, RunsInv, Get(p)
    PROVE  Learns(runs[p], runs'[p], contracts')
<1>1. At(p, "get") /\ Running(p) /\ runs[p].step.op = "get"
    BY DEF Get, At
<1>2. Arg(p).as \notin ContractKinds
    BY <1>1, GoodStep, StepOfProgram DEF Good, Arg
<1>3. ASSUME NEW v, Continue(p, [runs[p] EXCEPT !.known = Put(@, Arg(p).as, v)])
      PROVE  Learns(runs[p], runs'[p], contracts')
    BY <1>1, <1>2, <1>3, OtherLearns DEF LearningOps
<1>4. CASE Throws(p, "not registered")
    <2>1. runs'[p].status # "running"
        <3>1. p \in DOMAIN runs /\ RunShape(runs[p])
            BY <1>1, ShapedRun
        <3>2. runs'[p] = [runs[p] EXCEPT !.status = "failed", !.reason = "not registered"]
            BY <1>4, <3>1 DEF Throws
        <3> QED  BY <3>1, <3>2 DEF RunShape, RunFields
    <2>2. Moves(p)
        BY GetMoves
    <2> QED  BY <2>1, <2>2, MovedRun DEF Learns
<1> QED  BY <1>3, <1>4 DEF Get

LEMMA TaskLearns ==
    ASSUME NEW p \in Procs, RunsInv, ContractsInv, TaskStep(p)
    PROVE  Learns(runs[p], runs'[p], contracts')
<1>1. Moves(p)
    BY TaskStepMoves
<1>2. CASE Deploy(p)
    BY <1>2, DeployLearns
<1>3. CASE Get(p)
    BY <1>3, GetLearns
<1>4. CASE GetProposalsCount(p)
    <2>1. "proposalId" \notin ContractKinds
        BY DEF ContractKinds
    <2>2. CASE At(p, "getProposalsCount")
               /\ Continue(p, [runs[p] EXCEPT !.known = Put(@, "proposalId", On(p).count)])
        BY <2>1, <2>2, OtherLearns DEF LearningOps
    <2>3. CASE At(p, "proposalId")
               /\ Continue(p, [runs[p] EXCEPT !.known = Put(@, "proposalId", Arg(p))])
        BY <2>1, <2>3, OtherLearns DEF LearningOps
    <2> QED  BY <1>4, <2>2, <2>3 DEF GetProposalsCount
<1>5. CASE runs[p].step.op \notin LearningOps
    BY <1>1, <1>5, SameLearns
<1>6. CASE Connect(p)
    BY <1>5, <1>6, ConnectContinues DEF At, LearningOps
<1>9. CASE Transactions(p) \/ AdvanceBlockTo(p) \/ IncreaseTimeTenderly(p) \/ Create(p)
           \/ SubmitVote(p) \/ Queue(p) \/ Execute(p)
    BY <1>5, <1>9 DEF Transactions, AdvanceBlockTo, IncreaseTimeTenderly, Create,
       SubmitVote, Queue, Execute, At, LearningOps
<1>7. CASE Throw(p) \/ ReadDb(p) \/ WriteDb(p) \/ WaitForTx(p) \/ VerifyStep(p)
    BY <1>5, <1>7 DEF Throw, ReadDb, WriteDb, WaitForTx, VerifyStep, At, LearningOps
<1>8. CASE Initialize(p) \/ NewCrp(p) \/ Subscribe(p) \/ AwaitCrp(p) \/ Transact(p)
    BY <1>5, <1>8 DEF Initialize, NewCrp, Subscribe, AwaitCrp, Transact, At, LearningOps
<1> QED  BY <1>2, <1>3, <1>4, <1>6, <1>7, <1>8, <1>9 DEF TaskStep, GovernanceStep, DeploymentStep

LEMMA KnowsTaskStep ==
    ASSUME NEW p \in Procs, RunsInv, ContractsInv, TaskStep(p), Lasting,
           \A q \in DOMAIN runs : Knows(runs[q], contracts)
    PROVE  \A q \in DOMAIN runs' : Knows(runs'[q], contracts')
<1> DEFINE after == contracts'
           s == runs'[p]
<1>1. /\ p \in DOMAIN runs /\ RunInv(runs[p]) /\ runs[p].status = "running"
      /\ DOMAIN runs' = DOMAIN runs
      /\ \A q \in DOMAIN runs \ {p} : runs'[q] = runs[q]
    BY TaskStepMoves, ShapedRun DEF Moves
<1>2. Extends(contracts, after)
    BY DEF Lasting
<1>3. Learns(runs[p], s, after)
    BY TaskLearns
<1> HIDE DEF after, s
<1>4. Knows(s, after)
    BY <1>1, <1>2, <1>3, KnowsNext
<1>5. ASSUME NEW q \in DOMAIN runs PROVE Knows(runs[q], after)
    <2>1. Knows(runs[q], contracts)
        OBVIOUS
    <2> QED  BY <1>2, <2>1 DEF Knows, Holds, Extends
<1> QED  BY <1>1, <1>4, <1>5 DEF after, s

\* Runs that end, or that know what they knew, on chains that lost nothing.
LEMMA KnowsMore ==
    ASSUME NEW r, NEW s, NEW before, NEW after,
           s.cmd = r.cmd, s.start = r.start, s.known = r.known, s.pc = r.pc, s.status = r.status
    PROVE  Knows(r, before) /\ Extends(before, after) => Knows(s, after)
BY DEF Knows, ChainOf, Holds, Extends

LEMMA KnowsStep ==
    ASSUME PlansAssumption, RunsInv, ContractsInv, faults \in Nat, [Next]_vars,
           \A q \in DOMAIN runs : Knows(runs[q], contracts)
    PROVE  \A q \in DOMAIN runs' : Knows(runs'[q], contracts')
<1> DEFINE after == contracts'
<1>1. Lasting /\ Extends(contracts, after)
    BY StepLasts DEF Lasting
<1> HIDE DEF after
<1>2. ASSUME NEW q \in DOMAIN runs, runs'[q].cmd = runs[q].cmd, runs'[q].start = runs[q].start,
             runs'[q].known = runs[q].known, runs'[q].pc = runs[q].pc, runs'[q].status = runs[q].status
      PROVE  Knows(runs'[q], after)
    BY <1>1, <1>2, KnowsMore
<1>3. CASE runs' = runs
    BY <1>2, <1>3 DEF after
<1>4. CASE \E p \in Procs : TaskStep(p)
    BY <1>1, <1>4, KnowsTaskStep
<1>5. CASE \E p \in Procs : \E c \in plan : Start(p, c)
    <2>1. PICK p \in Procs, c \in plan : Start(p, c)
        BY <1>5
    <2>2. /\ DOMAIN runs' = DOMAIN runs \cup {p}
          /\ runs'[p].pc = 1 /\ runs'[p].known = <<>>
          /\ \A q \in DOMAIN runs \ {p} :
                /\ runs'[q].status = runs[q].status /\ runs'[q].cmd = runs[q].cmd
                /\ runs'[q].pc = runs[q].pc /\ runs'[q].known = runs[q].known
        BY <2>1, StartedAlone
    <2>3. \A q \in DOMAIN runs \ {p} : runs'[q].start = runs[q].start
        BY <2>1, <2>2, StartedRuns
    <2>4. Knows(runs'[p], after)
        <3>1. DOMAIN <<>> = {} /\ 1..(1 - 1) = {}
            OBVIOUS
        <3> QED  BY <2>2, <3>1 DEF Knows, DeploysBefore
    <2> QED  BY <1>2, <2>2, <2>3, <2>4 DEF after
<1>6. CASE \E p \in Procs : Kill(p) \/ Fault(p)
    <2>1. PICK p \in Procs : Kill(p) \/ Fault(p)
        BY <1>6
    <2>2. /\ DOMAIN runs' = DOMAIN runs
          /\ \A q \in DOMAIN runs \ {p} : runs'[q] = runs[q]
          /\ runs'[p].status # "running"
        BY <2>1, FaultMoves, FaultStops DEF Moves
    <2>3. Knows(runs'[p], after)
        BY <2>2 DEF Knows
    <2> QED  BY <1>2, <2>2, <2>3 DEF after
<1>7. CASE \E chain \in DOMAIN contracts : \E a \in DOMAIN contracts[chain] : FailToMine(chain, a)
    <2>1. /\ DOMAIN runs' = DOMAIN runs
          /\ \A q \in DOMAIN runs : runs'[q] = [runs[q] EXCEPT !.clean = FALSE]
        BY <1>7 DEF FailToMine
    <2>2. ASSUME NEW q \in DOMAIN runs PROVE Knows(runs'[q], after)
        <3> DEFINE s == [runs[q] EXCEPT !.clean = FALSE]
        <3>1. RunShape(runs[q])
            BY DEF RunsInv, RunInv
        <3>2. /\ s.cmd = runs[q].cmd /\ s.start = runs[q].start /\ s.known = runs[q].known
              /\ s.pc = runs[q].pc /\ s.status = runs[q].status
            BY <3>1 DEF RunShape, RunFields
        <3> QED  BY <1>2, <2>1, <3>2
    <2> QED  BY <2>1, <2>2 DEF after
<1>8. CASE Chain \/ UNCHANGED vars
    BY <1>3, <1>8 DEF Chain, Mine, vars
<1> QED  BY <1>4, <1>5, <1>6, <1>7, <1>8 DEF Next, Environment

-----------------------------------------------------------------------------
(* The proposals of a chain and the implementations they name                *)

Shaped(g) ==
    /\ "proposals" \in DOMAIN g
    /\ \A id \in DOMAIN g.proposals : "calls" \in DOMAIN g.proposals[id]

\* The same proposals, at most with another state.
Similar(g, h) ==
    /\ Shaped(h)
    /\ DOMAIN h.proposals = DOMAIN g.proposals
    /\ \A id \in DOMAIN g.proposals : h.proposals[id].calls = g.proposals[id].calls

LEMMA SameProposals ==
    ASSUME NEW g, NEW h, Shaped(g), "proposals" \in DOMAIN h, h.proposals = g.proposals
    PROVE  Similar(g, h)
BY DEF Shaped, Similar

LEMMA SimilarTransitive ==
    ASSUME NEW g, NEW h, NEW k, Similar(g, h)
    PROVE  Similar(h, k) => Similar(g, k)
BY DEF Similar

LEMMA SimilarNextBlock ==
    ASSUME NEW g, Shaped(g)
    PROVE  /\ Similar(g, NextBlock(g)) /\ Shaped(NextBlock(g))
           /\ NextBlock(g).proposals = g.proposals
<1>1. "proposals" \in DOMAIN NextBlock(g) /\ NextBlock(g).proposals = g.proposals
    BY DEF NextBlock, Shaped
<1> QED  BY <1>1, SameProposals DEF Similar

LEMMA SimilarCall ==
    ASSUME NEW g, NEW call, Shaped(g)
    PROVE  Similar(g, Call(g, call)) /\ Call(g, call).proposals = g.proposals
<1>1. "proposals" \in DOMAIN Call(g, call) /\ Call(g, call).proposals = g.proposals
    BY DEF Call, Shaped
<1> QED  BY <1>1, SameProposals

LEMMA PutProposal ==
    ASSUME NEW g, NEW id, NEW proposal, Shaped(g), "calls" \in DOMAIN proposal
    PROVE  LET h == ChangeProposal(g, id, proposal) IN
           /\ Shaped(h)
           /\ h.proposals = Put(g.proposals, id, proposal)
<1> DEFINE h == ChangeProposal(g, id, proposal)
<1>1. "proposals" \in DOMAIN h /\ h.proposals = Put(g.proposals, id, proposal)
    BY DEF ChangeProposal, Shaped
<1> HIDE DEF h
<1>2. Shaped(h)
    BY <1>1 DEF Shaped, Put
<1> QED  BY <1>1, <1>2 DEF h

LEMMA SimilarChange ==
    ASSUME NEW g, NEW id, NEW proposal, Shaped(g), "calls" \in DOMAIN proposal,
           id \in DOMAIN g.proposals, proposal.calls = g.proposals[id].calls
    PROVE  Similar(g, ChangeProposal(g, id, proposal))
<1> DEFINE h == ChangeProposal(g, id, proposal)
<1>1. Shaped(h) /\ h.proposals = Put(g.proposals, id, proposal)
    BY PutProposal
<1> HIDE DEF h
<1> QED  BY <1>1 DEF Similar, Put, h

\* The code a call names: none, what the command line gave, or a contract that
\* is on the chain and of the kind the proposal is about.
Backed(chain, call, all, commands) ==
    \/ call.impl = "approve"
    \/ call.address = 0 /\ \E c \in commands : GivenAs(call.impl) \in c.params
    \/ Holds(all, chain, call.address, call.impl) /\ all[chain][call.address].state = "mined"

AllBacked(chain, g, all, commands) ==
    \A id \in DOMAIN g.proposals \ {14} :
        \A i \in {1, 2} : Backed(chain, g.proposals[id].calls[i], all, commands)

LEMMA BackedLasts ==
    ASSUME NEW chain, NEW g, NEW h, NEW before, NEW after, NEW commands, Extends(before, after)
    PROVE  AllBacked(chain, g, before, commands) /\ Similar(g, h) => AllBacked(chain, h, after, commands)
<1>1. ASSUME NEW call, Backed(chain, call, before, commands)
      PROVE  Backed(chain, call, after, commands)
    BY <1>1 DEF Backed, Holds, Extends
<1> QED  BY <1>1 DEF AllBacked, Similar

\* What voting, queueing, executing and the passing of time leave of the proposals.
GoesOn ==
    /\ DOMAIN governance' = DOMAIN governance
    /\ \A chain \in DOMAIN governance : Similar(governance[chain], governance'[chain])

LEMMA OneGoesOn ==
    ASSUME NEW chain, NEW h, \A k \in DOMAIN governance : Shaped(governance[k]),
           governance' = [governance EXCEPT ![chain] = h],
           chain \in DOMAIN governance => Similar(governance[chain], h)
    PROVE  GoesOn
<1>1. \A k \in DOMAIN governance : Similar(governance[k], governance[k])
    BY DEF Shaped, Similar
<1> QED  BY <1>1 DEF GoesOn

LEMMA TimeGoesOn ==
    ASSUME NEW p \in Procs, \A k \in DOMAIN governance : Shaped(governance[k]),
           Transactions(p) \/ AdvanceBlockTo(p) \/ IncreaseTimeTenderly(p)
    PROVE  GoesOn
<1> DEFINE chain == runs[p].chain
           g == governance[chain]
<1>1. ASSUME chain \in DOMAIN governance
      PROVE  "proposals" \in DOMAIN g /\ Shaped(g)
    BY <1>1 DEF Shaped
<1>2. CASE Transactions(p)
    <2> DEFINE h == [g EXCEPT !.block = @ + Arg(p), !.time = @ + Arg(p), !.funded = TRUE]
    <2>1. CASE governance' = governance
        BY <2>1 DEF GoesOn, Similar, Shaped
    <2>2. CASE governance' # governance
        <3>1. governance' = [governance EXCEPT ![chain] = h]
            BY <1>2, <2>2 DEF Transactions
        <3>2. ASSUME chain \in DOMAIN governance PROVE Similar(g, h)
            <4> HIDE DEF g
            <4>1. "proposals" \in DOMAIN h /\ h.proposals = g.proposals
                BY <1>1, <3>2
            <4> QED  BY <1>1, <3>2, <4>1, SameProposals
        <3> HIDE DEF h
        <3> QED  BY <3>1, <3>2, OneGoesOn
    <2> QED  BY <2>1, <2>2
<1>3. CASE AdvanceBlockTo(p)
    <2>1. PICK n : governance' = [governance EXCEPT ![chain].block = @ + n]
        BY <1>3 DEF AdvanceBlockTo
    <2> DEFINE h == [g EXCEPT !.block = @ + n]
    <2>2. governance' = [governance EXCEPT ![chain] = h]
        BY <2>1
    <2>3. ASSUME chain \in DOMAIN governance PROVE Similar(g, h)
        <3> HIDE DEF g
        <3>1. "proposals" \in DOMAIN h /\ h.proposals = g.proposals
            BY <1>1, <2>3
        <3> QED  BY <1>1, <2>3, <3>1, SameProposals
    <2> HIDE DEF h
    <2> QED  BY <2>2, <2>3, OneGoesOn
<1>4. CASE IncreaseTimeTenderly(p)
    <2>1. PICK n, m : governance' = [governance EXCEPT ![chain].time = @ + n, ![chain].block = @ + m]
        BY <1>4 DEF IncreaseTimeTenderly
    <2> DEFINE h == [g EXCEPT !.time = @ + n, !.block = @ + m]
    <2>2. governance' = [governance EXCEPT ![chain] = h]
        BY <2>1
    <2>3. ASSUME chain \in DOMAIN governance PROVE Similar(g, h)
        <3> HIDE DEF g
        <3>1. "proposals" \in DOMAIN h /\ h.proposals = g.proposals
            BY <1>1, <2>3
        <3> QED  BY <1>1, <2>3, <3>1, SameProposals
    <2> HIDE DEF h
    <2> QED  BY <2>2, <2>3, OneGoesOn
<1> QED  BY <1>2, <1>3, <1>4

LEMMA VotingGoesOn ==
    ASSUME NEW p \in Procs, \A k \in DOMAIN governance : Shaped(governance[k]),
           SubmitVote(p) \/ Queue(p) \/ Execute(p)
    PROVE  GoesOn
<1> DEFINE chain == runs[p].chain
           g == governance[chain]
           mined == NextBlock(g)
           id == runs[p].known["proposalId"]
<1>1. CASE governance' = governance \/ chain \notin DOMAIN governance
    <2>1. DOMAIN governance' = DOMAIN governance
        BY <1>1 DEF SubmitVote, Queue, Execute, MinedOrRevert
    <2>2. \A k \in DOMAIN governance : governance'[k] = governance[k]
        BY <1>1 DEF SubmitVote, Queue, Execute, MinedOrRevert
    <2> QED  BY <2>1, <2>2 DEF GoesOn, Similar, Shaped
<1>2. ASSUME chain \in DOMAIN governance, NEW k, NEW proposal, Similar(mined, k), k.proposals = mined.proposals,
             id \in DOMAIN mined.proposals, "calls" \in DOMAIN proposal,
             proposal.calls = mined.proposals[id].calls,
             governance' = [governance EXCEPT ![chain] = ChangeProposal(k, id, proposal)]
      PROVE  GoesOn
    <2>1. Similar(g, mined)
        BY <1>2, SimilarNextBlock
    <2>2. Similar(k, ChangeProposal(k, id, proposal))
        BY <1>2, SimilarChange DEF Similar
    <2>3. Similar(g, ChangeProposal(k, id, proposal))
        BY <1>2, <2>1, <2>2, SimilarTransitive
    <2> QED  BY <1>2, <2>3, OneGoesOn
<1>3. ASSUME chain \in DOMAIN governance
      PROVE  /\ Shaped(mined) /\ Similar(mined, mined) /\ mined.proposals = g.proposals
             /\ id \in DOMAIN mined.proposals => "calls" \in DOMAIN mined.proposals[id]
    <2>1. Shaped(mined) /\ mined.proposals = g.proposals
        BY <1>3, SimilarNextBlock
    <2> HIDE DEF mined
    <2> QED  BY <2>1 DEF Similar, Shaped
<1>4. CASE chain \in DOMAIN governance /\ SubmitVote(p) /\ governance' # governance
    <2> DEFINE old == mined.proposals[id]
               proposal == [old EXCEPT !.voters = @ \cup {Arg(p)}]
    <2>1. /\ id \in DOMAIN mined.proposals
          /\ governance' = [governance EXCEPT ![chain] = ChangeProposal(mined, id, proposal)]
        BY <1>4 DEF SubmitVote, MinedOrRevert, On
    <2>2. "calls" \in DOMAIN old
        BY <1>3, <1>4, <2>1
    <2> HIDE DEF old
    <2>3. "calls" \in DOMAIN proposal /\ proposal.calls = old.calls
        BY <2>2
    <2> HIDE DEF mined, proposal, id
    <2> QED  BY <1>2, <1>3, <1>4, <2>1, <2>3 DEF old
<1>5. CASE chain \in DOMAIN governance /\ Queue(p) /\ governance' # governance
    <2> DEFINE old == Proposal(p)
               proposal == [old EXCEPT !.eta = mined.time + old.executor.delay]
    <2>1. /\ id \in DOMAIN mined.proposals
          /\ governance' = [governance EXCEPT ![chain] = ChangeProposal(mined, id, proposal)]
        BY <1>5 DEF Queue, MinedOrRevert, On
    <2>2. "calls" \in DOMAIN old /\ old = mined.proposals[id]
        BY <1>3, <1>5, <2>1 DEF Proposal, On
    <2> HIDE DEF old
    <2>3. "calls" \in DOMAIN proposal /\ proposal.calls = old.calls
        BY <2>2
    <2> HIDE DEF mined, proposal, id
    <2> QED  BY <1>2, <1>3, <1>5, <2>1, <2>2, <2>3
<1>6. CASE chain \in DOMAIN governance /\ Execute(p) /\ governance' # governance
    <2> DEFINE old == Proposal(p)
               proposal == [old EXCEPT !.executed = TRUE]
               first == Call(mined, old.calls[1])
               second == Call(first, old.calls[2])
    <2>1. /\ id \in DOMAIN mined.proposals
          /\ governance' = [governance EXCEPT ![chain] = ChangeProposal(second, id, proposal)]
        BY <1>6 DEF Execute, MinedOrRevert, On
    <2>2. "calls" \in DOMAIN old /\ old = mined.proposals[id]
        BY <1>3, <1>6, <2>1 DEF Proposal, On
    <2>3. Similar(mined, first) /\ first.proposals = mined.proposals
        <3> HIDE DEF mined, old
        <3> QED  BY <1>3, <1>6, SimilarCall
    <2>4. Similar(first, second) /\ second.proposals = first.proposals
        <3> HIDE DEF mined, old, first
        <3> QED  BY <2>3, SimilarCall DEF Similar
    <2>5. Similar(mined, second) /\ second.proposals = mined.proposals
        <3> HIDE DEF mined, old, first, second
        <3> QED  BY <2>3, <2>4, SimilarTransitive
    <2> HIDE DEF old
    <2>6. "calls" \in DOMAIN proposal /\ proposal.calls = old.calls
        BY <2>2
    <2> HIDE DEF mined, proposal, id, first, second
    <2> QED  BY <1>2, <1>3, <1>6, <2>1, <2>2, <2>5, <2>6
<1> QED  BY <1>1, <1>4, <1>5, <1>6

\* The calls of a proposal that is created: what the run deployed was mined
\* before, and what it did not deploy was given on its command line.
LEMMA ResolvedCall ==
    ASSUME NEW p \in Procs, NEW i \in {1, 2}, RunsInv, Create(p), Knows(runs[p], contracts),
           NoneFailed(contracts)
    PROVE  /\ i \in DOMAIN Arg(p).calls
           /\ Backed(runs[p].chain, Resolve(p, Arg(p).calls[i]), contracts, plan)
<1> DEFINE r == runs[p]
           call == Arg(p).calls[i]
           impl == call.impl
           resolved == Resolve(p, call)
<1>1. Running(p) /\ r.step.op = "create" /\ r.status = "running"
    BY DEF Create, At, Running
<1>2. /\ r.cmd \in Commands /\ r.step = Program(r.cmd)[r.pc] /\ r.cmd.task \in ProposingTasks
      /\ r.pc \in 1..Len(Program(r.cmd)) /\ r.cmd \in plan
    BY <1>1, GoodStep, StepOfProgram, ShapedRun DEF Good, RunInv, Placed, RunsInv
<1>3. /\ i \in DOMAIN Arg(p).calls
      /\ NamesCall(r.cmd.params, Program(r.cmd), r.pc, call, {})
    BY <1>1, <1>2, NamesProgram DEF Names, Arg
<1>4. /\ resolved.impl = impl
      /\ resolved.address = IF impl \in DOMAIN r.known THEN r.known[impl] ELSE 0
    BY DEF Resolve
<1>5. /\ \A kind \in DOMAIN r.known \cap ContractKinds : Holds(contracts, ChainOf(r), r.known[kind], kind)
      /\ \A kind : DeploysBefore(Program(r.cmd), r.pc, kind) => kind \in DOMAIN r.known
    BY <1>1 DEF Knows
<1>6. r.chain = ChainOf(r)
    BY <1>1, ConnectedRun
<1>7. \A kind \in DOMAIN r.known \ {"proposalId"} : contracts[r.chain][r.known[kind]].state # "sent"
    BY DEF Create
<1> HIDE DEF r, call, impl, resolved
<1>8. ASSUME impl = "approve"
      PROVE  Backed(r.chain, resolved, contracts, plan)
    BY <1>4, <1>8 DEF Backed
<1>9. ASSUME impl \in ContractKinds /\ impl \in DOMAIN r.known
      PROVE  Backed(r.chain, resolved, contracts, plan)
    <2>1. Holds(contracts, r.chain, r.known[impl], impl)
        BY <1>5, <1>6, <1>9
    <2>2. impl # "proposalId"
        BY <1>9 DEF ContractKinds
    <2>3. contracts[r.chain][r.known[impl]].state = "mined"
        BY <1>7, <1>9, <2>1, <2>2 DEF Holds, NoneFailed
    <2> QED  BY <1>4, <1>9, <2>1, <2>3 DEF Backed
<1>10. ASSUME impl \notin DOMAIN r.known /\ GivenAs(impl) \in r.cmd.params
       PROVE  Backed(r.chain, resolved, contracts, plan)
    BY <1>2, <1>4, <1>10 DEF Backed
<1>11. \/ impl = "approve"
       \/ impl \in ContractKinds /\ impl \in DOMAIN r.known
       \/ impl \notin DOMAIN r.known /\ GivenAs(impl) \in r.cmd.params
    BY <1>3, <1>5 DEF NamesCall, impl
<1>12. Backed(r.chain, resolved, contracts, plan)
    BY <1>8, <1>9, <1>10, <1>11
<1> QED  BY <1>3, <1>12 DEF r, call, resolved

LEMMA CreateNames ==
    ASSUME NEW p \in Procs, RunsInv, Create(p), Knows(runs[p], contracts),
           \A k \in DOMAIN governance : Shaped(governance[k])
    PROVE  /\ \A k \in DOMAIN governance' : Shaped(governance'[k])
           /\ /\ NoneFailed(contracts)
              /\ \A k \in DOMAIN governance : AllBacked(k, governance[k], contracts, plan)
              => \A k \in DOMAIN governance' : AllBacked(k, governance'[k], contracts, plan)
<1> DEFINE chain == runs[p].chain
           g == governance[chain]
           mined == NextBlock(g)
           id == mined.count
           calls == [i \in DOMAIN Arg(p).calls |-> Resolve(p, Arg(p).calls[i])]
           new == [executor |-> Arg(p).executor, start |-> mined.block, voters |-> {},
                   eta |-> 0, executed |-> FALSE, calls |-> calls]
           changed == ChangeProposal(mined, id, new)
           after == [changed EXCEPT !.count = @ + 1]
<1>1. CASE governance' = governance
    BY <1>1
<1>2. CASE governance' # governance
    <2>1. chain \in DOMAIN governance /\ governance' = [governance EXCEPT ![chain] = after]
        BY <1>2 DEF Create, MinedOrRevert, On
    <2>2. Shaped(mined) /\ mined.proposals = g.proposals
        BY <2>1, SimilarNextBlock
    <2>3. "calls" \in DOMAIN new /\ new.calls = calls
        OBVIOUS
    <2> HIDE DEF mined, id, calls, new
    <2>4. Shaped(changed) /\ changed.proposals = Put(g.proposals, id, new)
        BY <2>2, <2>3, PutProposal
    <2> HIDE DEF changed
    <2>5. "proposals" \in DOMAIN after /\ after.proposals = Put(g.proposals, id, new)
        BY <2>4 DEF Shaped
    <2>6. Shaped(after)
        BY <2>4, <2>5, SameProposals DEF Similar
    <2> HIDE DEF after
    <2>7. ASSUME NoneFailed(contracts), AllBacked(chain, g, contracts, plan)
          PROVE  AllBacked(chain, after, contracts, plan)
        <3>1. \A i \in {1, 2} : Backed(chain, calls[i], contracts, plan)
            <4> TAKE i \in {1, 2}
            <4>1. /\ i \in DOMAIN Arg(p).calls
                  /\ Backed(chain, Resolve(p, Arg(p).calls[i]), contracts, plan)
                BY <2>7, ResolvedCall
            <4>2. calls[i] = Resolve(p, Arg(p).calls[i])
                BY <4>1 DEF calls
            <4> QED  BY <4>1, <4>2
        <3> QED  BY <2>3, <2>5, <2>7, <3>1 DEF AllBacked, Put
    <2> HIDE DEF g
    <2> QED  BY <2>1, <2>6, <2>7 DEF g
<1> QED  BY <1>1, <1>2

\* A new fork of main has proposal 14 and no other one.
LEMMA MainNames ==
    ASSUME NEW start14
    PROVE  /\ Shaped(MainAt(start14))
           /\ \A chain, all, commands : AllBacked(chain, MainAt(start14), all, commands)
<1>1. DOMAIN MainAt(start14).proposals = {14} /\ "proposals" \in DOMAIN MainAt(start14)
    BY DEF MainAt
<1>2. "calls" \in DOMAIN MainAt(start14).proposals[14]
    BY DEF MainAt
<1> QED  BY <1>1, <1>2 DEF Shaped, AllBacked

\* A fork at a head reached before has the proposals made until then, and the
\* contracts that they name.
LEMMA ConnectNames ==
    ASSUME NEW p, Connect(p), governance' # governance,
           \A k \in DOMAIN governance : Shaped(governance[k])
    PROVE  /\ \A k \in DOMAIN governance' : Shaped(governance'[k])
           /\ (\A k \in DOMAIN governance : AllBacked(k, governance[k], contracts, plan))
              => \A k \in DOMAIN governance' : AllBacked(k, governance'[k], contracts', plan)
<1> DEFINE chain == ChainOf(runs[p])
           all == contracts'
<1>1. PICK head \in Heads(runs[p].cmd) :
        /\ contracts' = Put(contracts, chain, head.contracts)
        /\ governance' = Put(governance, chain, head.governance)
    BY ConnectFinds
<1> DEFINE g == head.governance
           s == head.contracts
<1>2. all = Put(contracts, chain, s) /\ governance' = Put(governance, chain, g)
    BY <1>1
<1>3. Extends(contracts, all)
    BY ConnectLasts DEF Lasting
<1>4. \/ s = <<>> /\ \E start14 : g = MainAt(start14)
      \/ \E k \in DOMAIN governance : s = ContractsOn(k) /\ g = governance[k]
    BY HeadFound
<1> HIDE DEF chain, all, g, s
<1>5. /\ DOMAIN governance' = DOMAIN governance \cup {chain}
      /\ \A k \in DOMAIN governance' : governance'[k] = IF k = chain THEN g ELSE governance[k]
    BY <1>2 DEF Put
<1>6. all[chain] = s /\ chain \in DOMAIN all
    BY <1>2 DEF Put
<1>7. Shaped(g)
    BY <1>4, MainNames
<1>8. ASSUME \A k \in DOMAIN governance : AllBacked(k, governance[k], contracts, plan)
      PROVE  AllBacked(chain, g, all, plan)
    <2>1. CASE \E start14 : g = MainAt(start14)
        BY <2>1, MainNames
    <2>2. ASSUME NEW k \in DOMAIN governance, s = ContractsOn(k), g = governance[k]
          PROVE  AllBacked(chain, g, all, plan)
        <3>1. AllBacked(k, g, contracts, plan)
            BY <1>8, <2>2
        <3>2. ASSUME NEW call, Backed(k, call, contracts, plan)
              PROVE  Backed(chain, call, all, plan)
            BY <1>6, <2>2, <3>2 DEF Backed, Holds, ContractsOn
        <3> QED  BY <3>1, <3>2 DEF AllBacked
    <2> QED  BY <1>4, <2>1, <2>2
<1>9. ASSUME NEW k \in DOMAIN governance, AllBacked(k, governance[k], contracts, plan)
      PROVE  AllBacked(k, governance[k], all, plan)
    <2>1. Similar(governance[k], governance[k])
        BY DEF Similar, Shaped
    <2> QED  BY <1>3, <1>9, <2>1, BackedLasts
<1>10. \A k \in DOMAIN governance' : Shaped(governance'[k])
    BY <1>5, <1>7
<1>11. ASSUME \A k \in DOMAIN governance : AllBacked(k, governance[k], contracts, plan),
              NEW k \in DOMAIN governance'
       PROVE  AllBacked(k, governance'[k], all, plan)
    <2>1. CASE k = chain
        BY <1>5, <1>8, <1>11, <2>1
    <2>2. CASE k # chain
        BY <1>5, <1>9, <1>11, <2>2
    <2> QED  BY <2>1, <2>2
<1> QED  BY <1>10, <1>11 DEF all

NamedInv ==
    /\ faults \in Nat
    /\ faults = 0 => NoneFailed(contracts)
    /\ \A p \in DOMAIN runs : Knows(runs[p], contracts)
    /\ \A chain \in DOMAIN governance : Shaped(governance[chain])
    /\ faults = 0 =>
          \A chain \in DOMAIN governance : AllBacked(chain, governance[chain], contracts, plan)

\* The proposals after a step, when nothing has failed.
LEMMA ProposalsStep ==
    ASSUME RunsInv, NamedInv, Lasting, [Next]_vars
    PROVE  /\ \A k \in DOMAIN governance' : Shaped(governance'[k])
           /\ faults' = 0 =>
                 \A k \in DOMAIN governance' : AllBacked(k, governance'[k], contracts', plan')
<1> DEFINE after == contracts'
<1>1. plan' = plan
    <2>1. CASE \E p \in Procs : TaskStep(p)
        BY <2>1, TaskStepMoves
    <2> QED
        BY <2>1 DEF Next, Environment, Start, Kill, Fault, Chain, Mine, FailToMine, vars
<1>2. Extends(contracts, after) /\ (faults' = 0 => faults = 0)
    BY DEF Lasting, NamedInv
<1> HIDE DEF after
<1>3. CASE GoesOn
    <2>1. \A k \in DOMAIN governance' : Shaped(governance'[k])
        BY <1>3 DEF GoesOn, Similar
    <2>2. ASSUME NEW k \in DOMAIN governance', AllBacked(k, governance[k], contracts, plan)
          PROVE  AllBacked(k, governance'[k], after, plan)
        <3>1. Similar(governance[k], governance'[k])
            BY <1>3 DEF GoesOn
        <3> QED  BY <1>2, <2>2, <3>1, BackedLasts
    <2> QED  BY <1>1, <1>2, <1>3, <2>1, <2>2 DEF NamedInv, GoesOn, after
<1>4. CASE governance' = governance
    BY <1>3, <1>4 DEF GoesOn, Similar, NamedInv, Shaped
<1>5. ASSUME NEW p \in Procs, Create(p)
      PROVE  /\ \A k \in DOMAIN governance' : Shaped(governance'[k])
             /\ faults' = 0 =>
                   \A k \in DOMAIN governance' : AllBacked(k, governance'[k], contracts', plan')
    <2>1. contracts' = contracts
        BY <1>5 DEF Create
    <2>2. Knows(runs[p], contracts)
        BY <1>5 DEF Create, At, Running, NamedInv
    <2> QED  BY <1>1, <1>2, <1>5, <2>1, <2>2, CreateNames DEF NamedInv
<1>6. ASSUME NEW p \in Procs, Connect(p), governance' # governance
      PROVE  /\ \A k \in DOMAIN governance' : Shaped(governance'[k])
             /\ faults' = 0 =>
                   \A k \in DOMAIN governance' : AllBacked(k, governance'[k], contracts', plan')
    BY <1>1, <1>2, <1>6, ConnectNames DEF NamedInv
<1>7. ASSUME NEW p \in Procs, TaskStep(p)
      PROVE  GoesOn \/ governance' = governance \/ Create(p) \/ Connect(p)
    <2>1. \A k \in DOMAIN governance : Shaped(governance[k])
        BY DEF NamedInv
    <2>2. CASE Transactions(p) \/ AdvanceBlockTo(p) \/ IncreaseTimeTenderly(p)
        BY <2>1, <2>2, TimeGoesOn
    <2>3. CASE SubmitVote(p) \/ Queue(p) \/ Execute(p)
        BY <2>1, <2>3, VotingGoesOn
    <2> QED  BY <1>7, <2>2, <2>3 DEF TaskStep, GovernanceStep, GetProposalsCount
<1>8. CASE \E p \in Procs : TaskStep(p)
    BY <1>3, <1>4, <1>5, <1>6, <1>7, <1>8
<1>9. CASE (Environment /\ UNCHANGED governance) \/ UNCHANGED vars
    BY <1>4, <1>9 DEF vars
<1> QED  BY <1>8, <1>9 DEF Next

LEMMA NamedStep == PlansAssumption /\ RunsInv /\ ContractsInv /\ NamedInv /\ [Next]_vars => NamedInv'
<1> SUFFICES ASSUME PlansAssumption, RunsInv, ContractsInv, NamedInv, [Next]_vars PROVE NamedInv'
    OBVIOUS
<1>1. faults \in Nat /\ \A p \in DOMAIN runs : Knows(runs[p], contracts)
    BY DEF NamedInv
<1>2. Lasting
    BY <1>1, StepLasts
<1>3. faults' \in Nat /\ (faults' = 0 => NoneFailed(contracts'))
    <2>1. faults' = faults \/ faults' = faults + 1
        BY <1>2 DEF Lasting
    <2>2. faults' \in Nat /\ (faults' = 0 => faults' = faults /\ faults = 0)
        BY <1>1, <2>1
    <2> QED  BY <1>2, <2>2 DEF Lasting, NamedInv
<1>4. \A p \in DOMAIN runs' : Knows(runs'[p], contracts')
    BY <1>1, KnowsStep
<1> QED  BY <1>2, <1>3, <1>4, ProposalsStep DEF NamedInv

LEMMA NamedInit == Init => NamedInv
<1> SUFFICES ASSUME Init PROVE NamedInv
    OBVIOUS
<1>1. DOMAIN <<>> = {}
    OBVIOUS
<1>2. contracts = <<>> /\ runs = <<>> /\ faults = 0 /\ governance = [chain \in {Main} |-> MainAt(50)]
    BY DEF Init, InitRunner
<1> QED  BY <1>1, <1>2, MainNames DEF NamedInv, NoneFailed

\* proposal-stk-extensions and its rehearsal, for every plan of commands and whatever
\* else runs: as long as nothing was killed or failed, a proposal names contracts of
\* its own chain, mined and of the kind it is about, or what a command line gave.
THEOREM ProposalsAreNamed == Spec => []ProposalsNameImplementations
<1>1. NamedInv => ProposalsNameImplementations
    BY DEF NamedInv, AllBacked, Backed, Holds, HasCode, ContractsOn, ProposalsNameImplementations
<1> QED
    BY <1>1, NamedInit, NamedStep, ContractsInit, ContractsStep, RunsAlways, PlansAssumption, PTL DEF Spec

-----------------------------------------------------------------------------
(* A deployment and how far it is                                            *)

ProxyKind == "InitializableAdminUpgradeabilityProxy"

\* The step with which common-deployment is done with the k-th of these: the
\* implementation is (1) sent, (2) mined and (3) in the file, so is (4, 5, 6) the
\* proxy, (7, 8) both are read from the file, and (9) the proxy is initialized.
Completes(k, step) ==
    \/ k = 1 /\ step.op = "deploy" /\ step.arg.kind = "StakedAave"
    \/ k = 2 /\ step.op = "wait" /\ step.arg = "StakedAave"
    \/ k = 3 /\ step.op = "write" /\ step.arg.id = "StakedAaveImpl" /\ step.arg.kind = "StakedAave"
    \/ k = 4 /\ step.op = "deploy" /\ step.arg.kind = ProxyKind
    \/ k = 5 /\ step.op = "wait" /\ step.arg = ProxyKind
    \/ k = 6 /\ step.op = "write" /\ step.arg.id = "StakedAave" /\ step.arg.kind = ProxyKind
    \/ k = 7 /\ step.op = "get" /\ step.arg.as = "impl" /\ step.arg.id = "StakedAaveImpl"
    \/ k = 8 /\ step.op = "get" /\ step.arg.as = "proxy" /\ step.arg.id = "StakedAave"
    \/ k = 9 /\ step.op = "initialize"

\* A step that undoes none of the first k.
Idles(k, step) ==
    \/ step.op \in {"set-dre", "read", "verify", "throw"}
    \/ step.op = "write" /\ k < 6 /\ step.arg.id # "StakedAaveImpl"

Leads(k, step, m) == (m = k /\ Idles(k, step)) \/ (m = k + 1 /\ Completes(m, step))

\* How far a run of the steps of s is before each of them, from k to m.
Stages(A, s, k, m) ==
    /\ A \in [1..(Len(s) + 1) -> 0..9]
    /\ A[1] = k /\ A[Len(s) + 1] = m
    /\ \A j \in 1..Len(s) : Leads(A[j], s[j], A[j + 1])

Takes(s, k, m) == IsSequence(s) /\ \E A \in [1..(Len(s) + 1) -> 0..9] : Stages(A, s, k, m)

LEMMA TakesConcat ==
    ASSUME NEW s, NEW t, NEW k, NEW m, NEW n
    PROVE  Takes(s, k, m) /\ Takes(t, m, n) => Takes(s \o t, k, n)
<1> SUFFICES ASSUME Takes(s, k, m), Takes(t, m, n) PROVE Takes(s \o t, k, n)
    OBVIOUS
<1>1. PICK A \in [1..(Len(s) + 1) -> 0..9] : Stages(A, s, k, m)
    BY DEF Takes
<1>2. PICK B \in [1..(Len(t) + 1) -> 0..9] : Stages(B, t, m, n)
    BY DEF Takes
<1> DEFINE u == s \o t
           a == Len(s)
           b == Len(t)
           C == [i \in 1..(Len(u) + 1) |-> IF i <= a + 1 THEN A[i] ELSE B[i - a]]
<1>3. /\ IsSequence(u) /\ a \in Nat /\ b \in Nat /\ Len(u) = a + b
      /\ \A i \in 1..a : u[i] = s[i]
      /\ \A i \in 1..b : u[a + i] = t[i]
    <2> HIDE DEF C
    <2>1. IsSequence(s) /\ IsSequence(t)
        BY DEF Takes
    <2>2. Len(s) \in Nat /\ Len(t) \in Nat
        BY <2>1 DEF IsSequence
    <2> QED  BY <2>1, <2>2, ConcatProgram
<1> HIDE DEF u, a, b
<1>4. /\ \A i \in 1..(a + 1) : A[i] \in 0..9
      /\ A[1] = k /\ A[a + 1] = m
      /\ \A j \in 1..a : Leads(A[j], s[j], A[j + 1])
    BY <1>1 DEF Stages, a
<1>5. /\ \A i \in 1..(b + 1) : B[i] \in 0..9
      /\ B[1] = m /\ B[b + 1] = n
      /\ \A j \in 1..b : Leads(B[j], t[j], B[j + 1])
    BY <1>2 DEF Stages, b
<1>6. /\ \A i \in 1..(a + 1) : C[i] = A[i]
      /\ \A i \in 1..(b + 1) : C[a + i] = B[i]
    <2>1. \A i \in 1..(a + 1) : i \in 1..(Len(u) + 1) /\ i <= a + 1
        BY <1>3
    <2>2. ASSUME NEW i \in 1..(b + 1) PROVE C[a + i] = B[i]
        <3>1. a + i \in 1..(Len(u) + 1) /\ (a + i) - a = i /\ (a + i <= a + 1 => i = 1 /\ a + i = a + 1)
            BY <1>3
        <3> QED  BY <1>4, <1>5, <3>1
    <2> QED  BY <2>1, <2>2
<1>7. C \in [1..(Len(u) + 1) -> 0..9]
    <2> SUFFICES ASSUME NEW i \in 1..(Len(u) + 1)
                 PROVE  (IF i <= a + 1 THEN A[i] ELSE B[i - a]) \in 0..9
        OBVIOUS
    <2>1. i <= a + 1 => i \in 1..(a + 1)
        BY <1>3
    <2>2. ~(i <= a + 1) => i - a \in 1..(b + 1)
        BY <1>3
    <2> QED  BY <1>4, <1>5, <2>1, <2>2
<1> HIDE DEF C
<1>8. ASSUME NEW j \in 1..Len(u) PROVE Leads(C[j], u[j], C[j + 1])
    <2>1. CASE j \in 1..a
        <3>1. j \in 1..(a + 1) /\ j + 1 \in 1..(a + 1)
            BY <1>3, <2>1
        <3> QED  BY <1>3, <1>4, <1>6, <2>1, <3>1
    <2>2. CASE j \notin 1..a
        <3> DEFINE i == j - a
        <3>1. i \in 1..b /\ i \in 1..(b + 1) /\ i + 1 \in 1..(b + 1) /\ j = a + i /\ j + 1 = a + (i + 1)
            BY <1>3, <2>2
        <3> HIDE DEF i
        <3> QED  BY <1>3, <1>5, <1>6, <3>1
    <2> QED  BY <2>1, <2>2
<1>9. C[1] = k /\ C[Len(u) + 1] = n
    <2>1. 1 \in 1..(a + 1) /\ b + 1 \in 1..(b + 1) /\ Len(u) + 1 = a + (b + 1)
        BY <1>3
    <2> QED  BY <1>4, <1>5, <1>6, <2>1
<1> QED  BY <1>3, <1>7, <1>8, <1>9 DEF Takes, Stages, u

LEMMA TakesStep ==
    ASSUME NEW op, NEW arg, NEW k \in 0..9, NEW m \in 0..9, Leads(k, [op |-> op, arg |-> arg], m)
    PROVE  Takes(Step(op, arg), k, m)
<1> DEFINE s == Step(op, arg)
           A == [i \in 1..2 |-> IF i = 1 THEN k ELSE m]
<1>1. IsSequence(s) /\ Len(s) = 1 /\ s[1] = [op |-> op, arg |-> arg]
    BY StepProgram DEF Step
<1>2. A \in [1..2 -> 0..9] /\ A[1] = k /\ A[2] = m
    OBVIOUS
<1> HIDE DEF s, A
<1>3. Stages(A, s, k, m)
    BY <1>1, <1>2 DEF Stages
<1>4. A \in [1..(Len(s) + 1) -> 0..9]
    BY <1>1, <1>2
<1> QED  BY <1>1, <1>3, <1>4 DEF Takes, s

LEMMA TakesEmpty ==
    ASSUME NEW k \in 0..9
    PROVE  Takes(<<>>, k, k)
<1> DEFINE A == [i \in 1..1 |-> k]
<1>1. A \in [1..(Len(<<>>) + 1) -> 0..9] /\ A[1] = k
    BY EmptyProgram
<1> HIDE DEF A
<1> QED  BY <1>1, EmptyProgram DEF Takes, Stages

LEMMA TakesIdle ==
    ASSUME NEW op \in {"set-dre", "read", "verify", "throw"}, NEW arg, NEW k \in 0..9
    PROVE  Takes(Step(op, arg), k, k)
<1>1. Leads(k, [op |-> op, arg |-> arg], k)
    BY DEF Leads, Idles
<1> QED  BY <1>1, TakesStep

\* The parts of a deployment that change nothing.
LEMMA TakesVerified ==
    ASSUME NEW c, NEW verify, NEW k \in 0..9
    PROVE  Takes(Verified(c, verify), k, k)
<1> DEFINE key == Require("ETHERSCAN_KEY" \in c.env, "verification")
           v == IF c.network \in SUPPORTED_ETHERSCAN_NETWORKS THEN Step("verify", "") ELSE <<>>
<1>1. Takes(key, k, k)
    BY TakesIdle, TakesEmpty DEF Require
<1>2. Takes(v, k, k)
    BY TakesIdle, TakesEmpty
<1> HIDE DEF key, v
<1>3. Takes(key \o v, k, k)
    BY <1>1, <1>2, TakesConcat
<1> QED  BY <1>3, TakesEmpty DEF Verified, key, v

LEMMA TakesSetDRE ==
    ASSUME NEW k \in 0..9
    PROVE  Takes(SetDRE, k, k)
BY TakesIdle DEF SetDRE

LEMMA TakesChecks ==
    ASSUME NEW c, NEW k \in 0..9
    PROVE  Takes(CheckedVerification(c), k, k) /\ Takes(RequireChainId(c), k, k)
BY TakesIdle, TakesEmpty DEF CheckedVerification, RequireChainId, Require

LEMMA TakesRegister ==
    ASSUME NEW id, NEW kind, NEW k \in 0..9, NEW m \in 0..9,
           \/ m = k /\ k < 6 /\ id # "StakedAaveImpl"
           \/ k = 2 /\ m = 3 /\ id = "StakedAaveImpl" /\ kind = "StakedAave"
           \/ k = 5 /\ m = 6 /\ id = "StakedAave" /\ kind = ProxyKind
    PROVE  Takes(RegisterContractInJsonDb(id, kind), k, m)
<1> DEFINE arg == [id |-> id, kind |-> kind]
           step == [op |-> "write", arg |-> arg]
<1>1. arg.id = id /\ arg.kind = kind
    OBVIOUS
<1>2. step.op = "write" /\ step.arg = arg
    OBVIOUS
<1> HIDE DEF arg
<1>3. Leads(k, step, m)
    <2> HIDE DEF step
    <2> QED  BY <1>1, <1>2 DEF Leads, Idles, Completes
<1>4. Takes(Step("write", arg), k, m)
    BY <1>3, TakesStep
<1>5. Takes(Step("read", ""), k, k)
    BY TakesIdle
<1> QED  BY <1>4, <1>5, TakesConcat DEF RegisterContractInJsonDb, arg

LEMMA TakesDeploy ==
    ASSUME NEW kind, NEW args, NEW k \in 0..9, NEW m \in 0..9,
           \/ k = 0 /\ m = 1 /\ kind = "StakedAave"
           \/ k = 3 /\ m = 4 /\ kind = ProxyKind
    PROVE  Takes(DeployContract(kind, args), k, m)
<1> DEFINE arg == [kind |-> kind, args |-> args]
           step == [op |-> "deploy", arg |-> arg]
<1>1. arg.kind = kind
    OBVIOUS
<1>2. step.op = "deploy" /\ step.arg = arg
    OBVIOUS
<1> HIDE DEF arg
<1>3. Leads(k, step, m)
    <2> HIDE DEF step
    <2> QED  BY <1>1, <1>2 DEF Leads, Completes
<1>4. Takes(Step("deploy", arg), k, m)
    BY <1>3, TakesStep
<1>5. Takes(RegisterContractInJsonDb(kind, kind), m, m)
    BY TakesRegister DEF ProxyKind
<1> QED  BY <1>4, <1>5, TakesConcat DEF DeployContract, arg

LEMMA TakesWait ==
    ASSUME NEW kind, NEW k \in 0..9, NEW m \in 0..9,
           \/ k = 1 /\ m = 2 /\ kind = "StakedAave"
           \/ k = 4 /\ m = 5 /\ kind = ProxyKind
    PROVE  Takes(WaitFor(kind), k, m)
<1>1. Leads(k, [op |-> "wait", arg |-> kind], m)
    BY DEF Leads, Completes
<1> QED  BY <1>1, TakesStep DEF WaitFor

LEMMA TakesGet ==
    /\ Takes(GetStakedAaveImpl, 6, 7)
    /\ Takes(GetStakedAaveProxy, 7, 8)
<1> DEFINE first == [as |-> "impl", id |-> "StakedAaveImpl"]
           second == [as |-> "proxy", id |-> "StakedAave"]
<1>1. /\ first.as = "impl" /\ first.id = "StakedAaveImpl"
      /\ second.as = "proxy" /\ second.id = "StakedAave"
    OBVIOUS
<1> HIDE DEF first, second
<1>2. Leads(6, [op |-> "get", arg |-> first], 7)
    BY <1>1 DEF Leads, Completes
<1>3. Leads(7, [op |-> "get", arg |-> second], 8)
    BY <1>1 DEF Leads, Completes
<1>4. Takes(Step("get", first), 6, 7) /\ Takes(Step("get", second), 7, 8)
    BY <1>2, <1>3, TakesStep
<1> QED  BY <1>4 DEF GetStakedAaveImpl, GetStakedAaveProxy, first, second

LEMMA TakesProxy ==
    ASSUME NEW c
    PROVE  Takes(DeployInitializableAdminUpgradeabilityProxy(c, Verify(c)), 3, 5)
<1> DEFINE d == DeployContract(ProxyKind, {})
           w == WaitFor(ProxyKind)
           v == Verified(c, Verify(c))
<1>1. Takes(d, 3, 4) /\ Takes(w, 4, 5) /\ Takes(v, 5, 5)
    BY TakesDeploy, TakesWait, TakesVerified
<1>2. DeployInitializableAdminUpgradeabilityProxy(c, Verify(c)) = d \o w \o v
    BY DEF DeployInitializableAdminUpgradeabilityProxy, ProxyKind
<1> HIDE DEF d, w, v
<1>3. Takes(d \o w, 3, 5)
    BY <1>1, TakesConcat
<1> QED  BY <1>1, <1>2, <1>3, TakesConcat

LEMMA TakesDeployStakedAave ==
    ASSUME NEW c
    PROVE  Takes(DeployStakedAaveTask(c), 0, 6)
<1> DEFINE s1 == SetDRE
           s2 == CheckedVerification(c)
           s3 == RequireChainId(c)
           s4 == DeployStakedAave(c, StakedAaveArgs(c), FALSE)
           s5 == WaitFor("StakedAave")
           s6 == RegisterContractInJsonDb("StakedAaveImpl", "StakedAave")
           s7 == DeployInitializableAdminUpgradeabilityProxy(c, Verify(c))
           s8 == RegisterContractInJsonDb("StakedAave", ProxyKind)
<1>1. Takes(s1, 0, 0) /\ Takes(s2, 0, 0) /\ Takes(s3, 0, 0)
    BY TakesSetDRE, TakesChecks
<1>2. Takes(s4, 0, 1)
    <2> DEFINE d == DeployContract("StakedAave", StakedAaveArgs(c))
               v == Verified(c, FALSE)
    <2>1. Takes(d, 0, 1)
        BY TakesDeploy
    <2>2. Takes(v, 1, 1)
        BY TakesEmpty DEF Verified
    <2>3. s4 = d \o v
        BY DEF DeployStakedAave
    <2> HIDE DEF d, v, s4
    <2> QED  BY <2>1, <2>2, <2>3, TakesConcat
<1>3. Takes(s5, 1, 2) /\ Takes(s6, 2, 3) /\ Takes(s7, 3, 5) /\ Takes(s8, 5, 6)
    BY TakesWait, TakesRegister, TakesProxy
<1>4. DeployStakedAaveTask(c) = s1 \o s2 \o s3 \o s4 \o s5 \o s6 \o s7 \o s8
    BY DEF DeployStakedAaveTask, ProxyKind
<1> HIDE DEF s1, s2, s3, s4, s5, s6, s7, s8
<1>5. Takes(s1 \o s2, 0, 0)
    BY <1>1, TakesConcat
<1>6. Takes(s1 \o s2 \o s3, 0, 0)
    BY <1>1, <1>5, TakesConcat
<1>7. Takes(s1 \o s2 \o s3 \o s4, 0, 1)
    BY <1>2, <1>6, TakesConcat
<1>8. Takes(s1 \o s2 \o s3 \o s4 \o s5, 0, 2)
    BY <1>3, <1>7, TakesConcat
<1>9. Takes(s1 \o s2 \o s3 \o s4 \o s5 \o s6, 0, 3)
    BY <1>3, <1>8, TakesConcat
<1>10. Takes(s1 \o s2 \o s3 \o s4 \o s5 \o s6 \o s7, 0, 5)
    BY <1>3, <1>9, TakesConcat
<1> QED  BY <1>3, <1>4, <1>10, TakesConcat

LEMMA TakesInitialize ==
    ASSUME NEW c, NEW admin
    PROVE  Takes(InitializeStakedAaveTask(c, admin), 6, 9)
<1> DEFINE s1 == SetDRE
           s2 == Require(admin # "", "admin")
           s3 == RequireChainId(c)
           s4 == GetStakedAaveImpl
           s5 == GetStakedAaveProxy
           s6 == Step("initialize", admin)
<1>1. Takes(s1, 6, 6) /\ Takes(s3, 6, 6) /\ s2 \in {<<>>, Step("throw", "admin")}
    BY TakesSetDRE, TakesChecks DEF Require
<1>2. Takes(s4, 6, 7) /\ Takes(s5, 7, 8)
    BY TakesGet
<1>3. Takes(s6, 8, 9)
    <2>1. Leads(8, [op |-> "initialize", arg |-> admin], 9)
        BY DEF Leads, Completes
    <2> QED  BY <2>1, TakesStep
<1>4. InitializeStakedAaveTask(c, admin) = s1 \o s2 \o s3 \o s4 \o s5 \o s6
    BY DEF InitializeStakedAaveTask
<1> HIDE DEF s1, s2, s3, s4, s5, s6
<1>5. Takes(s1 \o s2, 6, 6)
    BY <1>1, TakesIdle, TakesEmpty, TakesConcat
<1>6. Takes(s1 \o s2 \o s3, 6, 6)
    BY <1>1, <1>5, TakesConcat
<1>7. Takes(s1 \o s2 \o s3 \o s4, 6, 7)
    BY <1>2, <1>6, TakesConcat
<1>8. Takes(s1 \o s2 \o s3 \o s4 \o s5, 6, 8)
    BY <1>2, <1>7, TakesConcat
<1> QED  BY <1>3, <1>4, <1>8, TakesConcat

LEMMA TakesCommonDeployment ==
    ASSUME NEW c
    PROVE  Takes(CommonDeploymentTask(c), 0, 9)
<1> DEFINE admin == GetAaveAdminPerNetwork(c.network)
           s1 == SetDRE
           s2 == Require(admin # "", "admin")
           s3 == CheckedVerification(c)
           s4 == DeployStakedAaveTask(c)
           s5 == InitializeStakedAaveTask(c, admin)
<1>1. Takes(s1, 0, 0) /\ Takes(s3, 0, 0) /\ s2 \in {<<>>, Step("throw", "admin")}
    BY TakesSetDRE, TakesChecks DEF Require
<1>2. Takes(s4, 0, 6) /\ Takes(s5, 6, 9)
    BY TakesDeployStakedAave, TakesInitialize
<1>3. CommonDeploymentTask(c) = s1 \o s2 \o s3 \o s4 \o s5
    BY DEF CommonDeploymentTask
<1> HIDE DEF s1, s2, s3, s4, s5
<1>4. Takes(s1 \o s2, 0, 0)
    BY <1>1, TakesIdle, TakesEmpty, TakesConcat
<1>5. Takes(s1 \o s2 \o s3, 0, 0)
    BY <1>1, <1>4, TakesConcat
<1>6. Takes(s1 \o s2 \o s3 \o s4, 0, 6)
    BY <1>2, <1>5, TakesConcat
<1> QED  BY <1>2, <1>3, <1>6, TakesConcat

\* The stages of a deployment by the command c.
StagesOf(c) ==
    CHOOSE A \in [1..(Len(Program(c)) + 1) -> 0..9] : Stages(A, Program(c), 0, 9)

LEMMA StagesOfDeployment ==
    ASSUME NEW c, c.task = "common-deployment"
    PROVE  Stages(StagesOf(c), Program(c), 0, 9)
<1>1. Program(c) = CommonDeploymentTask(c)
    BY DEF Program
<1>2. Takes(Program(c), 0, 9)
    BY <1>1, TakesCommonDeployment
<1> QED  BY <1>2 DEF Takes, StagesOf

-----------------------------------------------------------------------------
(* What a deployment has done when it is so far                              *)

IsSent(known, all, chain, kind) ==
    kind \in DOMAIN known /\ Holds(all, chain, known[kind], kind)

IsMined(known, all, chain, kind) == all[chain][known[kind]].state = "mined"

IsEntered(known, file, network, id, kind) ==
    <<id, network>> \in DOMAIN file /\ file[<<id, network>>] = known[kind]

IsRead(known, as, kind) == as \in DOMAIN known /\ known[as] = known[kind]

IsBlank(all, chain, a) == Holds(all, chain, a, ProxyKind) /\ all[chain][a].impl = 0

IsInitialized(known, all, chain, network) ==
    /\ all[chain][known[ProxyKind]].impl = known["StakedAave"]
    /\ all[chain][known[ProxyKind]].admin = GetAaveAdminPerNetwork(network)

Progress(known, file, all, chain, network, k) ==
    /\ k >= 1 => IsSent(known, all, chain, "StakedAave")
    /\ k >= 2 => IsMined(known, all, chain, "StakedAave")
    /\ k >= 3 => IsEntered(known, file, network, "StakedAaveImpl", "StakedAave")
    /\ k >= 4 => IsSent(known, all, chain, ProxyKind)
    /\ k \in 4..8 => IsBlank(all, chain, known[ProxyKind])
    /\ k >= 5 => IsMined(known, all, chain, ProxyKind)
    /\ k >= 6 => IsEntered(known, file, network, "StakedAave", ProxyKind)
    /\ k >= 7 => IsRead(known, "impl", "StakedAave")
    /\ k >= 8 => IsRead(known, "proxy", ProxyKind)
    /\ k >= 9 => IsInitialized(known, all, chain, network)

\* Contracts that stay as they are change nothing.
LEMMA SentLasts ==
    ASSUME NEW known, NEW before, NEW after, NEW chain, NEW kind
    PROVE  /\ Extends(before, after) /\ IsSent(known, before, chain, kind) =>
                 /\ IsSent(known, after, chain, kind)
                 /\ IsMined(known, before, chain, kind) => IsMined(known, after, chain, kind)
           /\ Preserves(before, after) /\ IsSent(known, before, chain, kind) =>
                 /\ after[chain][known[kind]].impl = before[chain][known[kind]].impl
                 /\ after[chain][known[kind]].admin = before[chain][known[kind]].admin
BY DEF Extends, Preserves, IsSent, IsMined, Holds

LEMMA ProgressLasts ==
    ASSUME NEW known, NEW file, NEW before, NEW after, NEW chain, NEW network, NEW k \in 0..9
    PROVE  Progress(known, file, before, chain, network, k) /\ Preserves(before, after) =>
               Progress(known, file, after, chain, network, k)
<1> SUFFICES ASSUME Progress(known, file, before, chain, network, k), Preserves(before, after)
             PROVE  Progress(known, file, after, chain, network, k)
    OBVIOUS
<1>1. Extends(before, after)
    BY DEF Preserves
<1>2. ASSUME k >= 1
      PROVE  /\ IsSent(known, after, chain, "StakedAave")
             /\ IsMined(known, before, chain, "StakedAave") => IsMined(known, after, chain, "StakedAave")
    BY <1>1, <1>2, SentLasts DEF Progress
<1>3. ASSUME k >= 4
      PROVE  /\ IsSent(known, after, chain, ProxyKind)
             /\ IsMined(known, before, chain, ProxyKind) => IsMined(known, after, chain, ProxyKind)
             /\ after[chain][known[ProxyKind]].impl = before[chain][known[ProxyKind]].impl
             /\ after[chain][known[ProxyKind]].admin = before[chain][known[ProxyKind]].admin
    BY <1>1, <1>3, SentLasts DEF Progress
<1>4. (k >= 2 => k >= 1) /\ (k >= 5 => k >= 4) /\ (k \in 4..8 => k >= 4) /\ (k >= 9 => k >= 4)
    OBVIOUS
<1> QED  BY <1>2, <1>3, <1>4 DEF Progress, IsBlank, IsInitialized, IsSent

\* An entry of the implementation's contract, or of the proxy's, before the
\* entries that matter are in the file.
LEMMA ProgressIdleWrite ==
    ASSUME NEW known, NEW file, NEW all, NEW chain, NEW network, NEW k \in 0..9, NEW id, NEW a,
           k < 6, id # "StakedAaveImpl"
    PROVE  Progress(known, file, all, chain, network, k) =>
               Progress(known, SetEntry(file, id, network, a), all, chain, network, k)
<1> DEFINE after == SetEntry(file, id, network, a)
<1>1. <<"StakedAaveImpl", network>> # <<id, network>>
    OBVIOUS
<1>2. IsEntered(known, file, network, "StakedAaveImpl", "StakedAave") =>
      IsEntered(known, after, network, "StakedAaveImpl", "StakedAave")
    BY <1>1 DEF IsEntered, SetEntry, Put
<1> HIDE DEF after
<1>3. ~(k >= 6)
    OBVIOUS
<1>4. Progress(known, file, all, chain, network, k) => Progress(known, after, all, chain, network, k)
    BY <1>2, <1>3 DEF Progress
<1> QED  BY <1>4 DEF after

LEMMA ProgressFirst ==
    ASSUME NEW known, NEW file, NEW all, NEW chain, NEW network, NEW a
    PROVE  Holds(all, chain, a, "StakedAave") =>
               Progress(Put(known, "StakedAave", a), file, all, chain, network, 1)
<1> DEFINE w == Put(known, "StakedAave", a)
<1>1. "StakedAave" \in DOMAIN w /\ w["StakedAave"] = a
    BY DEF Put
<1> HIDE DEF w
<1>2. Holds(all, chain, a, "StakedAave") => Progress(w, file, all, chain, network, 1)
    BY <1>1 DEF Progress, IsSent
<1> QED  BY <1>2 DEF w

LEMMA ProgressMined ==
    ASSUME NEW known, NEW file, NEW all, NEW chain, NEW network
    PROVE  /\ Progress(known, file, all, chain, network, 1) /\ IsMined(known, all, chain, "StakedAave") =>
                  Progress(known, file, all, chain, network, 2)
           /\ Progress(known, file, all, chain, network, 4) /\ IsMined(known, all, chain, ProxyKind) =>
                  Progress(known, file, all, chain, network, 5)
BY DEF Progress

LEMMA ProgressEntered ==
    ASSUME NEW known, NEW file, NEW all, NEW chain, NEW network
    PROVE  /\ Progress(known, file, all, chain, network, 2) =>
                  Progress(known, SetEntry(file, "StakedAaveImpl", network, known["StakedAave"]),
                           all, chain, network, 3)
           /\ Progress(known, file, all, chain, network, 5) =>
                  Progress(known, SetEntry(file, "StakedAave", network, known[ProxyKind]),
                           all, chain, network, 6)
<1> DEFINE first == SetEntry(file, "StakedAaveImpl", network, known["StakedAave"])
           second == SetEntry(file, "StakedAave", network, known[ProxyKind])
<1>1. IsEntered(known, first, network, "StakedAaveImpl", "StakedAave")
    BY DEF IsEntered, SetEntry, Put
<1>2. IsEntered(known, second, network, "StakedAave", ProxyKind)
    BY DEF IsEntered, SetEntry, Put
<1>3. IsEntered(known, file, network, "StakedAaveImpl", "StakedAave") =>
      IsEntered(known, second, network, "StakedAaveImpl", "StakedAave")
    BY DEF IsEntered, SetEntry, Put
<1> HIDE DEF first, second
<1>4. Progress(known, file, all, chain, network, 2) => Progress(known, first, all, chain, network, 3)
    BY <1>1 DEF Progress
<1>5. Progress(known, file, all, chain, network, 5) => Progress(known, second, all, chain, network, 6)
    BY <1>2, <1>3 DEF Progress
<1> QED  BY <1>4, <1>5 DEF first, second

LEMMA ProgressSecond ==
    ASSUME NEW known, NEW file, NEW before, NEW after, NEW chain, NEW network, NEW a
    PROVE  Progress(known, file, before, chain, network, 3) /\ Preserves(before, after)
           /\ IsBlank(after, chain, a) =>
               Progress(Put(known, ProxyKind, a), file, after, chain, network, 4)
<1> SUFFICES ASSUME Progress(known, file, before, chain, network, 3), Preserves(before, after),
                    IsBlank(after, chain, a)
             PROVE  Progress(Put(known, ProxyKind, a), file, after, chain, network, 4)
    OBVIOUS
<1> DEFINE w == Put(known, ProxyKind, a)
<1>1. Progress(known, file, after, chain, network, 3)
    BY ProgressLasts
<1>2. ProxyKind \in DOMAIN w /\ w[ProxyKind] = a
    BY DEF Put
<1>3. "StakedAave" \in DOMAIN w /\ w["StakedAave"] = known["StakedAave"]
    <2>1. "StakedAave" \in DOMAIN known
        BY <1>1 DEF Progress, IsSent
    <2> QED  BY <2>1 DEF Put, ProxyKind
<1> HIDE DEF w
<1>4. Progress(w, file, after, chain, network, 4)
    BY <1>1, <1>2, <1>3 DEF Progress, IsSent, IsMined, IsEntered, IsBlank
<1> QED  BY <1>4 DEF w

LEMMA ProgressRead ==
    ASSUME NEW known, NEW file, NEW all, NEW chain, NEW network
    PROVE  /\ Progress(known, file, all, chain, network, 6) =>
                  Progress(Put(known, "impl", file[<<"StakedAaveImpl", network>>]),
                           file, all, chain, network, 7)
           /\ Progress(known, file, all, chain, network, 7) =>
                  Progress(Put(known, "proxy", file[<<"StakedAave", network>>]),
                           file, all, chain, network, 8)
<1> DEFINE f == Put(known, "impl", file[<<"StakedAaveImpl", network>>])
           g == Put(known, "proxy", file[<<"StakedAave", network>>])
<1>1. ASSUME Progress(known, file, all, chain, network, 6)
      PROVE  Progress(f, file, all, chain, network, 7)
    <2>1. "StakedAave" \in DOMAIN known /\ ProxyKind \in DOMAIN known
        BY <1>1 DEF Progress, IsSent
    <2>2. /\ "StakedAave" \in DOMAIN f /\ f["StakedAave"] = known["StakedAave"]
          /\ ProxyKind \in DOMAIN f /\ f[ProxyKind] = known[ProxyKind]
          /\ "impl" \in DOMAIN f /\ f["impl"] = file[<<"StakedAaveImpl", network>>]
        BY <2>1 DEF Put, ProxyKind
    <2> HIDE DEF f, g
    <2> QED  BY <1>1, <2>2 DEF Progress, IsSent, IsMined, IsEntered, IsRead
<1>2. ASSUME Progress(known, file, all, chain, network, 7)
      PROVE  Progress(g, file, all, chain, network, 8)
    <2>1. "StakedAave" \in DOMAIN known /\ ProxyKind \in DOMAIN known /\ "impl" \in DOMAIN known
        BY <1>2 DEF Progress, IsSent, IsRead
    <2>2. /\ "StakedAave" \in DOMAIN g /\ g["StakedAave"] = known["StakedAave"]
          /\ ProxyKind \in DOMAIN g /\ g[ProxyKind] = known[ProxyKind]
          /\ "impl" \in DOMAIN g /\ g["impl"] = known["impl"]
          /\ "proxy" \in DOMAIN g /\ g["proxy"] = file[<<"StakedAave", network>>]
        BY <2>1 DEF Put, ProxyKind
    <2> HIDE DEF f, g
    <2> QED  BY <1>2, <2>2 DEF Progress, IsSent, IsMined, IsEntered, IsRead
<1> QED  BY <1>1, <1>2

LEMMA ProgressInitialized ==
    ASSUME NEW known, NEW file, NEW before, NEW after, NEW chain, NEW network
    PROVE  Progress(known, file, before, chain, network, 8) /\ Extends(before, after)
           /\ IsInitialized(known, after, chain, network) =>
               Progress(known, file, after, chain, network, 9)
<1> SUFFICES ASSUME Progress(known, file, before, chain, network, 8), Extends(before, after),
                    IsInitialized(known, after, chain, network)
             PROVE  Progress(known, file, after, chain, network, 9)
    OBVIOUS
<1>1. /\ IsSent(known, before, chain, "StakedAave") /\ IsMined(known, before, chain, "StakedAave")
      /\ IsSent(known, before, chain, ProxyKind) /\ IsMined(known, before, chain, ProxyKind)
    BY DEF Progress
<1>2. /\ IsSent(known, after, chain, "StakedAave") /\ IsMined(known, after, chain, "StakedAave")
      /\ IsSent(known, after, chain, ProxyKind) /\ IsMined(known, after, chain, ProxyKind)
    BY <1>1, SentLasts
<1> QED  BY <1>2 DEF Progress

-----------------------------------------------------------------------------
(* The steps of a deployment                                                 *)

Deploying(r) == r.status = "running" /\ r.alone /\ r.cmd.task = "common-deployment"

StageAt(r) == StagesOf(r.cmd)[r.pc]

IsUnderway(r, file, all) ==
    Deploying(r) => Progress(r.known, file, all, ChainOf(r), r.cmd.network, StageAt(r))

DeploymentsInv == faults \in Nat /\ \A p \in DOMAIN runs : IsUnderway(runs[p], db, contracts)

\* Where a deployment is in its program, and where its next step leads.
LEMMA StageOfRun ==
    ASSUME NEW r, RunInv(r), r.cmd.task = "common-deployment"
    PROVE  /\ StageAt(r) \in 0..9
           /\ Leads(StageAt(r), r.step, StagesOf(r.cmd)[r.pc + 1])
           /\ r.pc = 1 => StageAt(r) = 0
           /\ r.pc = Len(Program(r.cmd)) => StagesOf(r.cmd)[r.pc + 1] = 9
<1>1. Stages(StagesOf(r.cmd), Program(r.cmd), 0, 9)
    BY StagesOfDeployment
<1>2. /\ r.cmd \in Commands /\ r.pc \in 1..Len(Program(r.cmd)) /\ r.step = Program(r.cmd)[r.pc]
      /\ Len(Program(r.cmd)) \in Nat
    BY ProgramLength DEF RunInv, Placed
<1>3. r.pc \in 1..(Len(Program(r.cmd)) + 1)
    BY <1>2
<1> QED  BY <1>1, <1>2, <1>3 DEF Stages, StageAt

\* What a step of a deployment is to do: the run gets on, or ends with all done.
GetsOn(r, s, file, after) ==
    /\ IsUnderway(s, file, after)
    /\ s.status = "finished" =>
          \E known : Progress(known, file, after, ChainOf(r), r.cmd.network, 9)

LEMMA GetsOnWith ==
    ASSUME NEW r, NEW s, NEW file, NEW after, NEW known,
           RunInv(r), r.cmd.task = "common-deployment", s.cmd = r.cmd, s.start = r.start,
           s.status = "running" => s.pc = r.pc + 1 /\ s.known = known,
           s.status = "finished" => r.pc = Len(Program(r.cmd))
    PROVE  Progress(known, file, after, ChainOf(r), r.cmd.network, StagesOf(r.cmd)[r.pc + 1]) =>
               GetsOn(r, s, file, after)
<1> SUFFICES ASSUME Progress(known, file, after, ChainOf(r), r.cmd.network, StagesOf(r.cmd)[r.pc + 1])
             PROVE  GetsOn(r, s, file, after)
    OBVIOUS
<1>1. ChainOf(s) = ChainOf(r)
    BY DEF ChainOf
<1>2. IsUnderway(s, file, after)
    BY <1>1 DEF IsUnderway, Deploying, StageAt
<1>3. s.status = "finished" => StagesOf(r.cmd)[r.pc + 1] = 9
    BY StageOfRun
<1>4. s.status = "finished" => Progress(known, file, after, ChainOf(r), r.cmd.network, 9)
    BY <1>3
<1> QED  BY <1>2, <1>4 DEF GetsOn

LEMMA GetsOnFailed ==
    ASSUME NEW r, NEW s, NEW file, NEW after
    PROVE  s.status = "failed" => GetsOn(r, s, file, after)
BY DEF GetsOn, IsUnderway, Deploying

\* The action of a step.
LEMMA ActionOfStep ==
    ASSUME NEW p \in Procs, TaskStep(p)
    PROVE  LET op == runs[p].step.op IN
           /\ op = "deploy" => Deploy(p)
           /\ op = "wait" => WaitForTx(p)
           /\ op = "write" => WriteDb(p)
           /\ op = "get" => Get(p)
           /\ op = "initialize" => Initialize(p)
           /\ op \in {"read", "verify", "throw"} => contracts' = contracts
           /\ op \in {"set-dre", "read", "verify", "throw"} =>
                 db' = db /\ (contracts' = contracts \/ Preserves(contracts, contracts'))
<1>1. CASE Throw(p) \/ ReadDb(p) \/ VerifyStep(p)
    BY <1>1 DEF Throw, ReadDb, VerifyStep, At
<1>5. CASE Connect(p)
    BY <1>5, ConnectContinues, ConnectLasts DEF At
<1>2. CASE Deploy(p) \/ WaitForTx(p) \/ WriteDb(p) \/ Get(p) \/ Initialize(p)
    BY <1>2 DEF Deploy, WaitForTx, WriteDb, Get, Initialize, At
<1>3. CASE NewCrp(p) \/ Subscribe(p) \/ AwaitCrp(p) \/ Transact(p)
    BY <1>3 DEF NewCrp, Subscribe, AwaitCrp, Transact, At
<1>4. CASE \/ Transactions(p) \/ AdvanceBlockTo(p) \/ IncreaseTimeTenderly(p) \/ GetProposalsCount(p)
           \/ Create(p) \/ SubmitVote(p) \/ Queue(p) \/ Execute(p)
    BY <1>4 DEF Transactions, AdvanceBlockTo, IncreaseTimeTenderly, GetProposalsCount, Create,
       SubmitVote, Queue, Execute, At
<1> QED  BY <1>1, <1>2, <1>3, <1>4, <1>5 DEF TaskStep, GovernanceStep, DeploymentStep

LEMMA ThrowsFails ==
    ASSUME NEW p, NEW reason, RunsInv, Running(p), Throws(p, reason)
    PROVE  runs'[p].status = "failed"
<1>1. p \in DOMAIN runs /\ RunShape(runs[p])
    BY ShapedRun
<1>2. runs'[p] = [runs[p] EXCEPT !.status = "failed", !.reason = reason]
    BY <1>1 DEF Throws
<1> QED  BY <1>1, <1>2 DEF RunShape, RunFields

\* A step of a deployment that is alone, and what is known of it before.
DeploysAlone(p) ==
    /\ p \in Procs /\ RunsInv /\ ContractsInv /\ AloneInv
    /\ TaskStep(p) /\ Deploying(runs[p]) /\ IsUnderway(runs[p], db, contracts)

LEMMA DeployingRun ==
    ASSUME NEW p, DeploysAlone(p)
    PROVE  LET r == runs[p]  s == runs'[p] IN
           /\ Running(p) /\ Moves(p) /\ RunInv(r) /\ r.cmd \in Commands
           /\ r.cmd.task = "common-deployment" /\ s.cmd = r.cmd /\ s.start = r.start
           /\ s.status = "running" /\ r.step.op # "verify" => s.pc = r.pc + 1
           /\ s.status = "running" /\ r.step.op \notin LearningOps => s.known = r.known
           /\ s.status = "finished" => r.pc = Len(Program(r.cmd))
           /\ Progress(r.known, db, contracts, ChainOf(r), r.cmd.network, StageAt(r))
<1>1. p \in Procs /\ RunsInv /\ TaskStep(p)
    BY DEF DeploysAlone
<1>2. Running(p) /\ Moves(p)
    BY <1>1, TaskStepMoves
<1>3. RunInv(runs[p]) /\ runs[p].cmd \in Commands
    BY <1>1, <1>2, ShapedRun, StepOfProgram
<1>4. /\ runs[p].cmd.task = "common-deployment"
      /\ Progress(runs[p].known, db, contracts, ChainOf(runs[p]), runs[p].cmd.network, StageAt(runs[p]))
    BY DEF DeploysAlone, IsUnderway, Deploying
<1>5. /\ runs'[p].cmd = runs[p].cmd /\ runs'[p].start = runs[p].start
      /\ runs'[p].status = "running" /\ runs[p].step.op # "verify" => runs'[p].pc = runs[p].pc + 1
      /\ runs'[p].status = "running" /\ runs[p].step.op \notin LearningOps => runs'[p].known = runs[p].known
      /\ runs'[p].status = "finished" => runs[p].pc = Len(Program(runs[p].cmd))
    BY <1>2 DEF Moves
<1> QED  BY <1>2, <1>3, <1>4, <1>5

\* A step from which the run learns nothing: what it has done is in the file
\* and on the chain.
LEMMA QuietStep ==
    ASSUME NEW p, DeploysAlone(p), runs[p].step.op \notin LearningOps \cup {"verify"}
    PROVE  LET r == runs[p] IN
           Progress(r.known, db', contracts', ChainOf(r), r.cmd.network, StagesOf(r.cmd)[r.pc + 1]) =>
               GetsOn(r, runs'[p], db', contracts')
<1> DEFINE r == runs[p]
           s == runs'[p]
           file == db'
           after == contracts'
<1>1. /\ RunInv(r) /\ r.cmd.task = "common-deployment" /\ s.cmd = r.cmd /\ s.start = r.start
      /\ s.status = "running" => s.pc = r.pc + 1 /\ s.known = r.known
      /\ s.status = "finished" => r.pc = Len(Program(r.cmd))
    BY DeployingRun
<1> HIDE DEF r, s, file, after
<1>2. Progress(r.known, file, after, ChainOf(r), r.cmd.network, StagesOf(r.cmd)[r.pc + 1]) =>
          GetsOn(r, s, file, after)
    BY <1>1, GetsOnWith
<1> QED  BY <1>2 DEF r, s, file, after

LEMMA EntryWritten ==
    ASSUME NEW p, DeploysAlone(p), runs[p].step.op = "write"
    PROVE  LET r == runs[p] IN
           /\ db' = SetEntry(db, r.step.arg.id, r.cmd.network, r.known[r.step.arg.kind])
           /\ contracts' = contracts
<1>1. p \in Procs /\ RunsInv /\ AloneInv /\ TaskStep(p) /\ Running(p) /\ runs[p].alone
    BY DeployingRun DEF DeploysAlone, Deploying
<1>2. WriteDb(p)
    BY <1>1, ActionOfStep
<1>3. runs[p].pc > 1 /\ Program(runs[p].cmd)[runs[p].pc - 1].op = "read"
    BY <1>1, GoodStep, StepOfProgram DEF Good
<1>4. runs[p].copy = db
    BY <1>1, <1>3 DEF AloneInv, CopyIsFile, Running
<1> QED  BY <1>2, <1>4 DEF WriteDb, Arg

LEMMA QuietStages ==
    ASSUME NEW p, DeploysAlone(p), runs[p].step.op \in {"set-dre", "read", "throw"},
           StagesOf(runs[p].cmd)[runs[p].pc + 1] = StageAt(runs[p])
    PROVE  GetsOn(runs[p], runs'[p], db', contracts')
<1>1. db' = db /\ Preserves(contracts, contracts')
    BY ActionOfStep, ExtendsItself DEF DeploysAlone
<1>2. runs[p].step.op \notin LearningOps \cup {"verify"}
    BY DEF LearningOps
<1>3. Progress(runs[p].known, db', contracts', ChainOf(runs[p]), runs[p].cmd.network,
               StagesOf(runs[p].cmd)[runs[p].pc + 1])
    <2> DEFINE r == runs[p]
               after == contracts'
    <2>1. /\ Progress(r.known, db, contracts, ChainOf(r), r.cmd.network, StageAt(r))
          /\ RunInv(r) /\ r.cmd.task = "common-deployment"
        BY DeployingRun
    <2>2. StageAt(r) \in 0..9
        BY DeployingRun, StageOfRun
    <2>3. Preserves(contracts, after)
        BY <1>1
    <2> HIDE DEF r, after
    <2>4. Progress(r.known, db, after, ChainOf(r), r.cmd.network, StageAt(r))
        BY <2>1, <2>2, <2>3, ProgressLasts
    <2> QED  BY <1>1, <2>4 DEF r, after
<1> QED  BY <1>2, <1>3, QuietStep

LEMMA VerifyingStage ==
    ASSUME NEW p, DeploysAlone(p), runs[p].step.op = "verify",
           StagesOf(runs[p].cmd)[runs[p].pc + 1] = StageAt(runs[p])
    PROVE  GetsOn(runs[p], runs'[p], db', contracts')
<1> DEFINE r == runs[p]
           s == runs'[p]
           file == db'
           after == contracts'
<1>1. after = contracts /\ file = db
    BY ActionOfStep DEF DeploysAlone
<1>2. /\ RunInv(r) /\ r.cmd.task = "common-deployment" /\ s.cmd = r.cmd /\ s.start = r.start
      /\ s.status = "running" => s.known = r.known
      /\ s.status = "finished" => r.pc = Len(Program(r.cmd))
      /\ Progress(r.known, db, contracts, ChainOf(r), r.cmd.network, StageAt(r))
    BY DeployingRun DEF LearningOps
<1>3. s.status = "running" => s.pc = r.pc + 1 \/ s.pc = r.pc
    BY DeployingRun, MovedRun
<1>4. StagesOf(r.cmd)[r.pc + 1] = StageAt(r)
    OBVIOUS
<1> HIDE DEF r, s, file, after
<1>5. ChainOf(s) = ChainOf(r)
    BY <1>2 DEF ChainOf
<1>6. s.status = "running" => StageAt(s) = StageAt(r)
    BY <1>2, <1>3, <1>4 DEF StageAt
<1>7. IsUnderway(s, file, after)
    BY <1>1, <1>2, <1>5, <1>6 DEF IsUnderway, Deploying
<1>8. s.status = "finished" => StageAt(r) = 9
    BY <1>2, <1>4, StageOfRun
<1>9. s.status = "finished" => Progress(r.known, file, after, ChainOf(r), r.cmd.network, 9)
    BY <1>1, <1>2, <1>8
<1>10. GetsOn(r, s, file, after)
    BY <1>7, <1>9 DEF GetsOn
<1> QED  BY <1>10 DEF r, s, file, after

LEMMA WritingStages ==
    ASSUME NEW p, DeploysAlone(p), runs[p].step.op = "write"
    PROVE  GetsOn(runs[p], runs'[p], db', contracts')
<1> DEFINE r == runs[p]
           k == StageAt(r)
           m == StagesOf(r.cmd)[r.pc + 1]
           id == r.step.arg.id
           kind == r.step.arg.kind
           network == r.cmd.network
           chain == ChainOf(r)
           known == r.known
<1>1. db' = SetEntry(db, id, network, known[kind]) /\ contracts' = contracts
    BY EntryWritten
<1>2. Progress(known, db, contracts, chain, network, k)
    BY DeployingRun
<1>3. k \in 0..9 /\ Leads(k, r.step, m)
    BY DeployingRun, StageOfRun
<1>4. \/ m = k /\ k < 6 /\ id # "StakedAaveImpl"
      \/ k = 2 /\ m = 3 /\ id = "StakedAaveImpl" /\ kind = "StakedAave"
      \/ k = 5 /\ m = 6 /\ id = "StakedAave" /\ kind = ProxyKind
    <2> HIDE DEF k, m
    <2> QED  BY <1>3 DEF Leads, Idles, Completes
<1> HIDE DEF k, m, id, kind, network, chain, known
<1>5. Progress(known, SetEntry(db, id, network, known[kind]), contracts, chain, network, m)
    <2>1. CASE m = k /\ k < 6 /\ id # "StakedAaveImpl"
        BY <1>2, <1>3, <2>1, ProgressIdleWrite
    <2>2. CASE k = 2 /\ m = 3 /\ id = "StakedAaveImpl" /\ kind = "StakedAave"
        BY <1>2, <2>2, ProgressEntered
    <2>3. CASE k = 5 /\ m = 6 /\ id = "StakedAave" /\ kind = ProxyKind
        BY <1>2, <2>3, ProgressEntered
    <2> QED  BY <1>4, <2>1, <2>2, <2>3
<1>6. Progress(known, db', contracts', chain, network, m)
    BY <1>1, <1>5
<1>7. r.step.op \notin LearningOps \cup {"verify"}
    BY DEF LearningOps
<1> QED  BY <1>6, <1>7, QuietStep DEF m, network, chain, known

LEMMA DeployingStages ==
    ASSUME NEW p, DeploysAlone(p), runs[p].step.op = "deploy"
    PROVE  GetsOn(runs[p], runs'[p], db', contracts')
<1> DEFINE r == runs[p]
           s == runs'[p]
           file == db'
           after == contracts'
           k == StageAt(r)
           m == StagesOf(r.cmd)[r.pc + 1]
           kind == r.step.arg.kind
           a == Len(ContractsOn(r.chain)) + 1
           known == Put(r.known, kind, a)
           chain == ChainOf(r)
           network == r.cmd.network
<1>1. /\ RunInv(r) /\ r.cmd.task = "common-deployment" /\ s.cmd = r.cmd /\ s.start = r.start
      /\ s.status = "running" => s.pc = r.pc + 1
      /\ s.status = "finished" => r.pc = Len(Program(r.cmd))
      /\ Progress(r.known, db, contracts, chain, network, k)
      /\ Running(p)
    BY DeployingRun
<1>2. Deploy(p) /\ p \in Procs /\ RunsInv /\ ContractsInv
    BY ActionOfStep DEF DeploysAlone
<1>3. Continue(p, [r EXCEPT !.known = known]) /\ file = db
    BY <1>2 DEF Deploy, Arg
<1>4. s.status = "running" => s.known = known
    <2> HIDE DEF known
    <2> QED  BY <1>1, <1>2, <1>3, LearningMoves DEF LearningOps
<1>5. r.chain = chain
    BY <1>1, <1>2, ConnectedRun
<1>6. Holds(after, chain, a, kind) /\ after[chain][a].impl = 0 /\ Preserves(contracts, after)
    BY <1>2, <1>5, DeployLasts DEF Holds, Arg
<1>7. (k = 0 /\ m = 1 /\ kind = "StakedAave") \/ (k = 3 /\ m = 4 /\ kind = ProxyKind)
    <2>1. Leads(k, r.step, m) /\ k \in 0..9
        BY <1>1, StageOfRun
    <2> HIDE DEF k, m
    <2> QED  BY <2>1 DEF Leads, Idles, Completes
<1> HIDE DEF k, m, kind, a, file, after, chain, network
<1>8. Progress(known, file, after, chain, network, m)
    <2>1. CASE k = 0 /\ m = 1 /\ kind = "StakedAave"
        BY <1>6, <2>1, ProgressFirst
    <2>2. CASE k = 3 /\ m = 4 /\ kind = ProxyKind
        <3>1. IsBlank(after, chain, a)
            BY <1>6, <2>2 DEF IsBlank
        <3> QED  BY <1>1, <1>3, <1>6, <2>2, <3>1, ProgressSecond
    <2> QED  BY <1>7, <2>1, <2>2
<1> HIDE DEF known, r, s
<1>9. GetsOn(r, s, file, after)
    BY <1>1, <1>4, <1>8, GetsOnWith DEF m, chain, network
<1> QED  BY <1>9 DEF r, s, file, after

LEMMA WaitingStages ==
    ASSUME NEW p, DeploysAlone(p), runs[p].step.op = "wait"
    PROVE  GetsOn(runs[p], runs'[p], db', contracts')
<1> DEFINE r == runs[p]
           k == StageAt(r)
           m == StagesOf(r.cmd)[r.pc + 1]
           kind == r.step.arg
           chain == ChainOf(r)
           network == r.cmd.network
           known == r.known
           tx == contracts[chain][known[kind]]
<1>1. WaitForTx(p) /\ p \in Procs /\ RunsInv /\ ContractsInv /\ Running(p)
    BY ActionOfStep, DeployingRun DEF DeploysAlone
<1>2. r.chain = chain
    BY <1>1, ConnectedRun
<1>3. /\ contracts' = contracts /\ db' = db /\ tx.state # "sent"
      /\ tx.state = "failed" => Throws(p, "transaction")
    BY <1>1, <1>2 DEF WaitForTx, Arg
<1>4. CASE tx.state = "failed"
    BY <1>1, <1>3, <1>4, ThrowsFails, GetsOnFailed
<1>5. CASE tx.state # "failed"
    <2>1. Progress(known, db, contracts, chain, network, k)
        BY DeployingRun
    <2>2. (k = 1 /\ m = 2 /\ kind = "StakedAave") \/ (k = 4 /\ m = 5 /\ kind = ProxyKind)
        <3>1. Leads(k, r.step, m) /\ k \in 0..9
            BY DeployingRun, StageOfRun
        <3> HIDE DEF k, m
        <3> QED  BY <3>1 DEF Leads, Idles, Completes
    <2> HIDE DEF k, m, kind, chain, network, known
    <2>3. IsSent(known, contracts, chain, kind)
        BY <2>1, <2>2 DEF Progress
    <2>4. tx.state \in {"sent", "mined", "failed"}
        <3>1. chain \in DOMAIN contracts /\ known[kind] \in DOMAIN contracts[chain]
            BY <2>3 DEF IsSent, Holds
        <3>2. IsSequence(contracts[chain])
            BY <1>1, <3>1 DEF ContractsInv
        <3>3. known[kind] \in 1..Len(contracts[chain])
            BY <3>1, <3>2 DEF IsSequence
        <3> QED  BY <1>1, <3>1, <3>3 DEF ContractsInv, ContractInv
    <2>5. IsMined(known, contracts, chain, kind)
        BY <1>3, <1>5, <2>4 DEF IsMined
    <2>6. Progress(known, db, contracts, chain, network, m)
        BY <2>1, <2>2, <2>5, ProgressMined
    <2>7. Progress(known, db', contracts', chain, network, m)
        BY <1>3, <2>6
    <2>8. r.step.op \notin LearningOps \cup {"verify"}
        BY DEF LearningOps
    <2> QED  BY <2>7, <2>8, QuietStep DEF m, network, chain, known
<1> QED  BY <1>4, <1>5

LEMMA EnteredInTime ==
    ASSUME NEW known, NEW file, NEW all, NEW chain, NEW network, NEW k \in {6, 7},
           Progress(known, file, all, chain, network, k)
    PROVE  /\ IsEntered(known, file, network, "StakedAaveImpl", "StakedAave")
           /\ IsEntered(known, file, network, "StakedAave", ProxyKind)
<1>1. CASE k = 6
    BY <1>1 DEF Progress
<1>2. CASE k = 7
    BY <1>2 DEF Progress
<1> QED  BY <1>1, <1>2

LEMMA ReadingStages ==
    ASSUME NEW p, DeploysAlone(p), runs[p].step.op = "get"
    PROVE  GetsOn(runs[p], runs'[p], db', contracts')
<1> DEFINE r == runs[p]
           s == runs'[p]
           file == db'
           after == contracts'
           k == StageAt(r)
           m == StagesOf(r.cmd)[r.pc + 1]
           as == r.step.arg.as
           id == r.step.arg.id
           chain == ChainOf(r)
           network == r.cmd.network
           v == db[<<id, network>>]
           known == Put(r.known, as, v)
<1>1. /\ RunInv(r) /\ r.cmd.task = "common-deployment" /\ s.cmd = r.cmd /\ s.start = r.start
      /\ s.status = "running" => s.pc = r.pc + 1
      /\ s.status = "finished" => r.pc = Len(Program(r.cmd))
      /\ Progress(r.known, db, contracts, chain, network, k)
      /\ Running(p)
    BY DeployingRun
<1>2. Get(p) /\ p \in Procs /\ RunsInv
    BY ActionOfStep DEF DeploysAlone
<1>3. \/ k = 6 /\ m = 7 /\ as = "impl" /\ id = "StakedAaveImpl"
      \/ k = 7 /\ m = 8 /\ as = "proxy" /\ id = "StakedAave"
    <2>1. Leads(k, r.step, m) /\ k \in 0..9
        BY <1>1, StageOfRun
    <2> HIDE DEF k, m
    <2> QED  BY <2>1 DEF Leads, Idles, Completes
<1>4. <<id, network>> \in DOMAIN db
    <2> HIDE DEF k, m, id, as, chain, network, v, known
    <2>1. Progress(r.known, db, contracts, chain, network, k)
        BY <1>1
    <2> HIDE DEF r, s, file, after
    <2>2. CASE k = 6 /\ m = 7 /\ as = "impl" /\ id = "StakedAaveImpl"
        BY <2>1, <2>2, EnteredInTime DEF IsEntered
    <2>3. CASE k = 7 /\ m = 8 /\ as = "proxy" /\ id = "StakedAave"
        BY <2>1, <2>3, EnteredInTime DEF IsEntered
    <2> QED  BY <1>3, <2>2, <2>3
<1>5. Continue(p, [r EXCEPT !.known = known]) /\ file = db /\ after = contracts
    BY <1>2, <1>4 DEF Get, Arg
<1>6. s.status = "running" => s.known = known
    <2> HIDE DEF known
    <2> QED  BY <1>1, <1>2, <1>5, LearningMoves DEF LearningOps
<1> HIDE DEF k, m, as, id, file, after, chain, network
<1>7. Progress(known, file, after, chain, network, m)
    <2>1. CASE k = 6 /\ m = 7 /\ as = "impl" /\ id = "StakedAaveImpl"
        BY <1>1, <1>5, <2>1, ProgressRead
    <2>2. CASE k = 7 /\ m = 8 /\ as = "proxy" /\ id = "StakedAave"
        BY <1>1, <1>5, <2>2, ProgressRead
    <2> QED  BY <1>3, <2>1, <2>2
<1> HIDE DEF known, v, r, s
<1>8. GetsOn(r, s, file, after)
    BY <1>1, <1>6, <1>7, GetsOnWith DEF m, chain, network
<1> QED  BY <1>8 DEF r, s, file, after

LEMMA InitializingStage ==
    ASSUME NEW p, DeploysAlone(p), runs[p].step.op = "initialize"
    PROVE  GetsOn(runs[p], runs'[p], db', contracts')
<1> DEFINE r == runs[p]
           after == contracts'
           k == StageAt(r)
           m == StagesOf(r.cmd)[r.pc + 1]
           chain == ChainOf(r)
           network == r.cmd.network
           known == r.known
           proxy == known["proxy"]
           impl == known["impl"]
<1>1. Initialize(p) /\ p \in Procs /\ RunsInv /\ ContractsInv /\ Running(p)
    BY ActionOfStep, DeployingRun DEF DeploysAlone
<1>2. r.chain = chain
    BY <1>1, ConnectedRun
<1>3. Progress(known, db, contracts, chain, network, k)
    BY DeployingRun
<1>4. k = 8 /\ m = 9
    <2>1. Leads(k, r.step, m) /\ k \in 0..9
        BY DeployingRun, StageOfRun
    <2> HIDE DEF k, m
    <2> QED  BY <2>1 DEF Leads, Idles, Completes
<1>5. r.step.arg = GetAaveAdminPerNetwork(network)
    <2>1. Good(r.cmd, Program(r.cmd), r.pc) /\ r.step = Program(r.cmd)[r.pc]
        BY <1>1, GoodStep, StepOfProgram
    <2>2. "admin" \notin r.cmd.params
        <3>1. r.cmd \in Commands /\ r.cmd.task = "common-deployment"
            BY DeployingRun
        <3>2. r.cmd.params \subseteq Params(r.cmd.task)
            BY <3>1 DEF Commands
        <3> QED  BY <3>1, <3>2 DEF Params
    <2> QED  BY <2>1, <2>2 DEF Good
<1> HIDE DEF k, m, chain, network, known
<1>6. /\ proxy = known[ProxyKind] /\ impl = known["StakedAave"]
      /\ chain \in DOMAIN contracts /\ proxy \in DOMAIN contracts[chain]
      /\ contracts[chain][proxy].state = "mined"
    BY <1>3, <1>4 DEF Progress, IsRead, IsSent, IsMined, Holds
<1>7. db' = db
    BY <1>1 DEF Initialize
<1>8. HasCode(chain, proxy)
    BY <1>6 DEF HasCode, ContractsOn
<1>9. \/ Throws(p, "revert")
      \/ contracts' = [contracts EXCEPT ![chain][proxy].impl = impl, ![chain][proxy].admin = r.step.arg]
    BY <1>1, <1>2, <1>8 DEF Initialize, Arg, known
<1>10. CASE Throws(p, "revert")
    BY <1>1, <1>10, ThrowsFails, GetsOnFailed
<1>11. CASE contracts' = [contracts EXCEPT ![chain][proxy].impl = impl,
                                           ![chain][proxy].admin = r.step.arg]
    <2>1. Extends(contracts, after)
        BY <1>1, InitializeLasts DEF Lasting
    <2>2. after[chain][proxy].impl = impl /\ after[chain][proxy].admin = r.step.arg
        <3> DEFINE old == contracts[chain][proxy]
                   new == [old EXCEPT !.impl = impl, !.admin = r.step.arg]
        <3>1. old = [field \in ContractFields |-> old[field]]
            BY <1>1, <1>6, ContractShape
        <3>2. after[chain][proxy] = new
            BY <1>6, <1>11
        <3> HIDE DEF old
        <3>3. new.impl = impl /\ new.admin = r.step.arg
            BY <3>1 DEF ContractFields
        <3> HIDE DEF new
        <3> QED  BY <3>2, <3>3
    <2> HIDE DEF after, proxy, impl
    <2>3. IsInitialized(known, after, chain, network)
        BY <1>5, <1>6, <2>2 DEF IsInitialized
    <2>4. Progress(known, db, after, chain, network, 9)
        BY <1>3, <1>4, <2>1, <2>3, ProgressInitialized
    <2>5. Progress(known, db', contracts', chain, network, m)
        BY <1>4, <1>7, <2>4 DEF after
    <2>6. r.step.op \notin LearningOps \cup {"verify"}
        BY DEF LearningOps
    <2> QED  BY <2>5, <2>6, QuietStep DEF m, network, chain, known
<1> QED  BY <1>9, <1>10, <1>11

LEMMA DeploymentGetsOn ==
    ASSUME NEW p, DeploysAlone(p)
    PROVE  GetsOn(runs[p], runs'[p], db', contracts')
<1> DEFINE r == runs[p]
           k == StageAt(r)
           m == StagesOf(r.cmd)[r.pc + 1]
<1>1. Leads(k, r.step, m) /\ k \in 0..9
    BY DeployingRun, StageOfRun
<1> HIDE DEF k, m
<1>2. \/ m = k /\ r.step.op \in {"set-dre", "read", "throw", "verify"}
      \/ r.step.op \in {"write", "deploy", "wait", "get", "initialize"}
    BY <1>1 DEF Leads, Idles, Completes
<1> QED
    BY <1>2, QuietStages, VerifyingStage, WritingStages, DeployingStages, WaitingStages,
       ReadingStages, InitializingStage DEF k, m

-----------------------------------------------------------------------------
(* The invariant of the deployments, and what they finish with               *)

\* A run that stays where it is, while the contracts stay or are mined.
LEMMA UnderwayLasts ==
    ASSUME NEW r, NEW s, NEW file, NEW before, NEW after, RunInv(r), Preserves(before, after),
           s.status = r.status, s.alone => r.alone, s.cmd = r.cmd, s.start = r.start,
           s.pc = r.pc, s.known = r.known, IsUnderway(r, file, before)
    PROVE  IsUnderway(s, file, after)
<1> SUFFICES ASSUME Deploying(s)
             PROVE  Progress(s.known, file, after, ChainOf(s), s.cmd.network, StageAt(s))
    BY DEF IsUnderway
<1>1. Deploying(r) /\ r.cmd.task = "common-deployment"
    BY DEF Deploying
<1>2. StageAt(r) \in 0..9
    BY <1>1, StageOfRun
<1>3. Progress(r.known, file, before, ChainOf(r), r.cmd.network, StageAt(r))
    BY <1>1 DEF IsUnderway
<1>4. Progress(r.known, file, after, ChainOf(r), r.cmd.network, StageAt(r))
    BY <1>2, <1>3, ProgressLasts
<1>5. ChainOf(s) = ChainOf(r) /\ StageAt(s) = StageAt(r)
    BY DEF ChainOf, StageAt
<1> QED  BY <1>4, <1>5

LEMMA UnderwayTaskStep ==
    ASSUME NEW p \in Procs, RunsInv, ContractsInv, AloneInv, DeploymentsInv, TaskStep(p)
    PROVE  \A q \in DOMAIN runs' : IsUnderway(runs'[q], db', contracts')
<1>1. /\ DOMAIN runs' = DOMAIN runs /\ p \in DOMAIN runs /\ runs[p].status = "running"
      /\ \A q \in DOMAIN runs \ {p} : runs'[q] = runs[q]
      /\ runs'[p].cmd = runs[p].cmd /\ runs'[p].alone = runs[p].alone
    BY TaskStepMoves DEF Moves, Running
<1>2. ASSUME NEW q \in DOMAIN runs, q # p
      PROVE  ~Deploying(runs'[q])
    BY <1>1, <1>2 DEF AloneInv, Deploying
<1>3. CASE Deploying(runs[p])
    <2>1. DeploysAlone(p)
        BY <1>1, <1>3 DEF DeploysAlone, DeploymentsInv
    <2>2. IsUnderway(runs'[p], db', contracts')
        BY <2>1, DeploymentGetsOn DEF GetsOn
    <2> QED  BY <1>1, <1>2, <2>2 DEF IsUnderway
<1>4. CASE ~Deploying(runs[p])
    <2>1. ~Deploying(runs'[p])
        BY <1>1, <1>4 DEF Deploying
    <2> QED  BY <1>1, <1>2, <2>1 DEF IsUnderway
<1> QED  BY <1>3, <1>4

LEMMA UnderwayStart ==
    ASSUME NEW p \in Procs, NEW c \in plan, PlansAssumption, RunsInv, Start(p, c)
    PROVE  \A q \in DOMAIN runs' : IsUnderway(runs'[q], db', contracts')
<1>1. /\ DOMAIN runs' = DOMAIN runs \cup {p} /\ runs'[p].pc = 1
      /\ \A q \in DOMAIN runs \ {p} :
            runs'[q].status = runs[q].status /\ (runs[q].status = "running" => ~runs'[q].alone)
    BY StartedAlone
<1>2. RunInv(runs'[p])
    BY StartedRuns
<1>3. IsUnderway(runs'[p], db', contracts')
    <2> DEFINE s == runs'[p]
               file == db'
               after == contracts'
    <2> HIDE DEF s, file, after
    <2>1. s.pc = 1 /\ RunInv(s)
        BY <1>1, <1>2 DEF s
    <2>2. ASSUME Deploying(s)
          PROVE  StageAt(s) = 0
        BY <2>1, <2>2, StageOfRun DEF Deploying
    <2>3. Progress(s.known, file, after, ChainOf(s), s.cmd.network, 0)
        BY DEF Progress
    <2>4. IsUnderway(s, file, after)
        BY <2>2, <2>3 DEF IsUnderway
    <2> QED  BY <2>4 DEF s, file, after
<1>4. \A q \in DOMAIN runs \ {p} : ~Deploying(runs'[q])
    BY <1>1 DEF Deploying
<1> QED  BY <1>1, <1>3, <1>4 DEF IsUnderway

LEMMA UnderwayFault ==
    ASSUME NEW p \in Procs, RunsInv, DeploymentsInv, Kill(p) \/ Fault(p)
    PROVE  \A q \in DOMAIN runs' : IsUnderway(runs'[q], db', contracts')
<1>1. /\ DOMAIN runs' = DOMAIN runs
      /\ \A q \in DOMAIN runs \ {p} : runs'[q] = runs[q]
    BY FaultMoves DEF Moves
<1>2. db' = db /\ contracts' = contracts
    BY DEF Kill, Fault
<1>3. ~Deploying(runs'[p])
    BY FaultStops DEF Deploying
<1> QED  BY <1>1, <1>2, <1>3 DEF IsUnderway, DeploymentsInv

LEMMA UnderwayMine ==
    ASSUME NEW chain \in DOMAIN contracts, NEW a \in DOMAIN contracts[chain],
           RunsInv, ContractsInv, DeploymentsInv, Mine(chain, a) \/ FailToMine(chain, a)
    PROVE  \A q \in DOMAIN runs' : IsUnderway(runs'[q], db', contracts')
<1>1. Preserves(contracts, contracts') /\ db' = db
    BY MineLasts DEF DeploymentsInv, Mine, FailToMine
<1>2. /\ DOMAIN runs' = DOMAIN runs
      /\ \A q \in DOMAIN runs : runs'[q] \in {runs[q], [runs[q] EXCEPT !.clean = FALSE]}
    BY DEF Mine, FailToMine
<1>3. ASSUME NEW q \in DOMAIN runs
      PROVE  IsUnderway(runs'[q], db, contracts')
    <2> DEFINE r == runs[q]
               s == runs'[q]
               marked == [r EXCEPT !.clean = FALSE]
    <2>1. RunInv(r) /\ RunShape(r) /\ IsUnderway(r, db, contracts)
        BY <1>3 DEF RunsInv, RunInv, DeploymentsInv
    <2>2. s = r \/ s = marked
        BY <1>2, <1>3
    <2> HIDE DEF r
    <2>3. /\ marked.status = r.status /\ marked.cmd = r.cmd /\ marked.pc = r.pc
          /\ marked.known = r.known /\ marked.alone = r.alone /\ marked.start = r.start
        BY <2>1 DEF RunShape, RunFields
    <2> HIDE DEF s, marked
    <2>4. /\ s.status = r.status /\ s.cmd = r.cmd /\ s.pc = r.pc
          /\ s.known = r.known /\ s.alone = r.alone /\ s.start = r.start
        BY <2>2, <2>3
    <2>5. IsUnderway(s, db, contracts')
        BY <1>1, <2>1, <2>4, UnderwayLasts
    <2> QED  BY <2>5 DEF s
<1> QED  BY <1>1, <1>2, <1>3

LEMMA DeploymentsStep ==
    PlansAssumption /\ RunsInv /\ ContractsInv /\ AloneInv /\ DeploymentsInv /\ [Next]_vars =>
        DeploymentsInv'
<1> SUFFICES ASSUME PlansAssumption, RunsInv, ContractsInv, AloneInv, DeploymentsInv, [Next]_vars
             PROVE  DeploymentsInv'
    OBVIOUS
<1>1. faults' \in Nat
    <2>1. faults \in Nat
        BY DEF DeploymentsInv
    <2>2. faults' = faults \/ faults' = faults + 1
        BY <2>1, StepLasts DEF Lasting
    <2> QED  BY <2>1, <2>2
<1>2. CASE \E p \in Procs : TaskStep(p)
    BY <1>1, <1>2, UnderwayTaskStep DEF DeploymentsInv
<1>3. CASE \E p \in Procs : \E c \in plan : Start(p, c)
    BY <1>1, <1>3, UnderwayStart DEF DeploymentsInv
<1>4. CASE \E p \in Procs : Kill(p) \/ Fault(p)
    BY <1>1, <1>4, UnderwayFault DEF DeploymentsInv
<1>5. CASE \E chain \in DOMAIN contracts : \E a \in DOMAIN contracts[chain] :
             Mine(chain, a) \/ FailToMine(chain, a)
    BY <1>1, <1>5, UnderwayMine DEF DeploymentsInv
<1>6. CASE UNCHANGED vars
    BY <1>6 DEF vars, DeploymentsInv
<1> QED  BY <1>2, <1>3, <1>4, <1>5, <1>6 DEF Next, Environment, Chain

LEMMA DeploymentsInit == Init => DeploymentsInv
BY DEF Init, InitRunner, DeploymentsInv

\* A deployment that finishes does so with its last stage, on its own chain.
LEMMA LastStage ==
    ASSUME NEW p, DeploysAlone(p), runs'[p].status = "finished"
    PROVE  /\ db' = db
           /\ runs[p].chain = ChainOf(runs[p])
           /\ \E known : Progress(known, db, contracts', ChainOf(runs[p]), runs[p].cmd.network, 9)
<1> DEFINE r == runs[p]
           k == StageAt(r)
           m == StagesOf(r.cmd)[r.pc + 1]
<1>1. /\ RunInv(r) /\ Placed(r) /\ Connected(r) /\ r.cmd.task = "common-deployment"
      /\ r.pc = Len(Program(r.cmd)) /\ p \in Procs /\ TaskStep(p)
    BY DeployingRun DEF RunInv, DeploysAlone
<1>2. k \in 0..9 /\ Leads(k, r.step, m) /\ m = 9 /\ (r.pc = 1 => k = 0) /\ r.pc \in Nat \ {0}
    BY <1>1, StageOfRun DEF Placed
<1>3. \E known : Progress(known, db', contracts', ChainOf(r), r.cmd.network, 9)
    BY DeploymentGetsOn DEF GetsOn
<1>4. r.step.op # "write" /\ k # 0
    <2> HIDE DEF k, m, r
    <2> QED  BY <1>2 DEF Leads, Idles, Completes
<1>5. db' = db
    BY <1>1, <1>4, FileStep
<1>6. r.pc > 1
    <2> HIDE DEF k, m, r
    <2> QED  BY <1>2, <1>4
<1> QED  BY <1>1, <1>3, <1>5, <1>6 DEF Connected

\* What the file and the chain then say of the deployment of p.
IsDeployed(p) ==
    LET network == runs[p].cmd.network
        on == contracts'[runs[p].chain]
        proxy == on[db[<<"StakedAave", network>>]]
    IN /\ proxy.impl = db[<<"StakedAaveImpl", network>>]
       /\ on[proxy.impl].kind = "StakedAave"
       /\ on[proxy.impl].state = "mined"
       /\ proxy.admin = GetAaveAdminPerNetwork(network)

LEMMA FinishesDeployed ==
    ASSUME NEW p, DeploysAlone(p), runs'[p].status = "finished"
    PROVE  IsDeployed(p)
<1> DEFINE network == runs[p].cmd.network
           chain == ChainOf(runs[p])
           after == contracts'
<1>1. runs[p].chain = chain /\ \E known : Progress(known, db, after, chain, network, 9)
    BY LastStage
<1>2. PICK known : Progress(known, db, after, chain, network, 9)
    BY <1>1
<1> HIDE DEF network, chain, after
<1>3. /\ IsSent(known, after, chain, "StakedAave") /\ IsMined(known, after, chain, "StakedAave")
      /\ IsEntered(known, db, network, "StakedAaveImpl", "StakedAave")
      /\ IsEntered(known, db, network, "StakedAave", ProxyKind)
      /\ IsInitialized(known, after, chain, network)
    BY <1>2 DEF Progress
<1>4. /\ after[chain][known["StakedAave"]].kind = "StakedAave"
      /\ after[chain][known["StakedAave"]].state = "mined"
      /\ db[<<"StakedAaveImpl", network>>] = known["StakedAave"]
      /\ db[<<"StakedAave", network>>] = known[ProxyKind]
      /\ after[chain][known[ProxyKind]].impl = known["StakedAave"]
      /\ after[chain][known[ProxyKind]].admin = GetAaveAdminPerNetwork(network)
    BY <1>3 DEF IsSent, IsMined, IsEntered, IsInitialized, Holds
<1> QED  BY <1>1, <1>4 DEF IsDeployed, network, after

\* Only a step of its own finishes a run.
LEMMA FinishesItself ==
    ASSUME PlansAssumption, RunsInv, [Next]_vars, NEW p \in DOMAIN runs, Running(p),
           runs'[p].status = "finished"
    PROVE  p \in Procs /\ TaskStep(p)
<1>1. runs[p].status = "running"
    BY DEF Running
<1>2. ASSUME NEW q \in Procs, TaskStep(q)
      PROVE  p = q
    BY <1>1, <1>2, TaskStepMoves DEF Moves
<1>3. ASSUME NEW q \in Procs, NEW c \in plan, Start(q, c)
      PROVE  FALSE
    <2>1. p # q
        BY <1>3 DEF Start
    <2> QED  BY <1>1, <1>3, <2>1, StartedAlone
<1>4. ASSUME NEW q \in Procs, Kill(q) \/ Fault(q)
      PROVE  FALSE
    BY <1>1, <1>4, FaultMoves, FaultStops DEF Moves
<1>5. ASSUME NEW chain, NEW a, FailToMine(chain, a)
      PROVE  FALSE
    <2>1. runs'[p] = [runs[p] EXCEPT !.clean = FALSE] /\ RunShape(runs[p])
        BY <1>5 DEF FailToMine, RunsInv, RunInv
    <2>2. [runs[p] EXCEPT !.clean = FALSE].status = runs[p].status
        BY <2>1 DEF RunShape, RunFields
    <2> QED  BY <1>1, <2>1, <2>2
<1>6. runs' # runs
    BY <1>1
<1> QED  BY <1>2, <1>3, <1>4, <1>5, <1>6 DEF Next, Environment, Chain, Mine, vars

\* common-deployment, for every plan of commands and whatever fails before: one that
\* finishes alone leaves in the file, under its network, a proxy that runs the mined
\* implementation of the file and has the network's admin.
THEOREM FinishedDeploymentsStand == Spec => FinishedMeansDeployed
<1>1. PlansAssumption /\ RunsInv /\ ContractsInv /\ AloneInv /\ DeploymentsInv /\ [Next]_vars =>
          \A p \in DOMAIN runs :
              /\ Running(p) /\ runs'[p].status = "finished"
              /\ runs[p].alone /\ runs[p].cmd.task = "common-deployment"
              => IsDeployed(p)
    <2> SUFFICES ASSUME PlansAssumption, RunsInv, ContractsInv, AloneInv, DeploymentsInv, [Next]_vars,
                        NEW p \in DOMAIN runs, Running(p), runs'[p].status = "finished",
                        runs[p].alone, runs[p].cmd.task = "common-deployment"
                 PROVE  IsDeployed(p)
        OBVIOUS
    <2>1. p \in Procs /\ TaskStep(p)
        BY FinishesItself
    <2>2. DeploysAlone(p)
        BY <2>1 DEF DeploysAlone, DeploymentsInv, Deploying, Running
    <2> QED  BY <2>2, FinishesDeployed
<1>2. PlansAssumption /\ RunsInv /\ ContractsInv /\ AloneInv /\ DeploymentsInv /\ [Next]_vars =>
          [\A p \in DOMAIN runs :
              /\ Running(p) /\ runs'[p].status = "finished"
              /\ runs[p].alone /\ runs[p].cmd.task = "common-deployment"
              => LET network == runs[p].cmd.network
                     on == contracts'[runs[p].chain]
                     proxy == on[db[<<"StakedAave", network>>]]
                 IN /\ proxy.impl = db[<<"StakedAaveImpl", network>>]
                    /\ on[proxy.impl].kind = "StakedAave"
                    /\ on[proxy.impl].state = "mined"
                    /\ proxy.admin = GetAaveAdminPerNetwork(network)]_runnerVars
    BY <1>1 DEF IsDeployed
<1> QED
    BY <1>2, DeploymentsInit, DeploymentsStep, AloneInit, AloneStep, ContractsInit, ContractsStep,
       RunsAlways, PlansAssumption, PTL DEF Spec, FinishedMeansDeployed

=============================================================================
