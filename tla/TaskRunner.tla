------------------------------ MODULE TaskRunner ------------------------------
(***************************************************************************)
(* Processes of the deployment tooling: each runs the program of one       *)
(* command (TaskPrograms) against the chains it is connected to and the    *)
(* file deployed-contracts.json that all of them share.  A process may be  *)
(* killed at any step, and what it left in the file and on the chains is   *)
(* what the next one finds.                                                *)
(***************************************************************************)
EXTENDS TaskPrograms, FiniteSets

CONSTANTS
    Procs,          \* operating system processes that may run side by side
    Plans,          \* sets of commands; the commands of one are given in one behaviour
    Sequential,     \* bound: plans whose commands are given one after the other
    MAX_STARTS,     \* bound: commands given
    MAX_FAULTS      \* bound: processes killed and transactions that fail

VARIABLES
    plan,           \* the commands given in this behaviour
    db,             \* deployed-contracts.json: <<id, network>> -> address
    contracts,      \* chain -> contracts in the order they were sent
    runs,           \* process -> its latest command and how far it got
    starts, faults

ASSUME PlansAssumption == \A commands \in Plans : commands \subseteq Commands

runnerVars == <<plan, db, contracts, runs, starts, faults>>

\* The map f with the value of key written.
Put(f, key, value) == [k \in DOMAIN f \cup {key} |-> IF k = key THEN value ELSE f[k]]

NoChain == <<"none", 0>>

\* What main has, its forks have too.
HasMain(c) == c.network = "main" \/ UsesTenderly(c) \/ (c.network = "hardhat" /\ "MAINNET_FORK" \in c.env)

\* Hardhat's chain lives as long as its process, and on a fork of tenderly each
\* process goes its own way from the head it connects to; both mine at once.
Private(c) == c.network = "hardhat" \/ UsesTenderly(c)

\* The chain a run is connected to.
ChainOf(run) ==
    IF UsesTenderly(run.cmd) THEN <<"tenderly", run.start>>
    ELSE <<run.cmd.network, IF Private(run.cmd) THEN run.start ELSE 0>>

ContractsOn(chain) == IF chain \in DOMAIN contracts THEN contracts[chain] ELSE <<>>

HasCode(chain, a) ==
    a \in DOMAIN ContractsOn(chain) /\ ContractsOn(chain)[a].state = "mined"

-----------------------------------------------------------------------------
Running(p) == p \in DOMAIN runs /\ runs[p].status = "running"
At(p, op) == Running(p) /\ runs[p].step.op = op
Arg(p) == runs[p].step.arg

\* Of a process that has ended only the outcome is kept.
Ended(run, status) ==
    [run EXCEPT !.status = status, !.pc = 1, !.step = Program(run.cmd)[1], !.known = <<>>, !.copy = <<>>,
                !.verification = NotVerifying, !.crp = "none", !.done = {}]

\* The last step of a program ends its process.
Stepped(run) ==
    IF run.pc < Len(Program(run.cmd))
    THEN [run EXCEPT !.pc = @ + 1, !.step = Program(run.cmd)[run.pc + 1]]
    ELSE Ended(run, "finished")

Continue(p, run) == runs' = [runs EXCEPT ![p] = Stepped(run)]

Throws(p, reason) == runs' = [runs EXCEPT ![p].status = "failed", ![p].reason = reason]

\* A transaction of this process that fails on the chain.
TransactionFails(p) ==
    /\ faults < MAX_FAULTS
    /\ faults' = faults + 1
    /\ ~Private(runs[p].cmd)
    /\ runs' = [runs EXCEPT ![p].status = "failed", ![p].reason = "transaction", ![p].clean = FALSE]

\* What a command needs that no command line says: an initialization needs a
\* proxy among the contracts it finds that is not initialized and, where the
\* file may tell of another head, the implementation too.
Prepared(c, on) ==
    c.task = "initialize-StakedAave" =>
        /\ <<"StakedAave", c.network>> \in DOMAIN db
        /\ <<"StakedAaveImpl", c.network>> \in DOMAIN db
        /\ LET proxy == db[<<"StakedAave", c.network>>]
               impl == db[<<"StakedAaveImpl", c.network>>]
           IN /\ proxy \in DOMAIN on
              /\ on[proxy].kind = "InitializableAdminUpgradeabilityProxy"
              /\ on[proxy].state = "mined"
              /\ on[proxy].impl = 0
              /\ UsesTenderly(c) => impl \in DOMAIN on /\ on[impl].kind = "StakedAave"

NewRun(c, alone) ==
    [cmd |-> c, status |-> "running", reason |-> "", pc |-> 1, step |-> Program(c)[1], start |-> starts + 1,
     chain |-> NoChain, known |-> <<>>, copy |-> <<>>, verification |-> NotVerifying,
     crp |-> "none", done |-> {}, clean |-> TRUE, alone |-> alone,
     prepared |-> TRUE]

\* Somebody gives the next command; a command started while another one runs,
\* or joined by another one, is not alone.  Which process is the first does
\* not matter.
Start(p, c) ==
    /\ starts < MAX_STARTS
    /\ runs = <<>> \/ plan \in Sequential => p = CHOOSE q \in Procs : TRUE
    /\ ~Running(p)
    /\ starts' = starts + 1
    /\ LET others == {q \in DOMAIN runs \ {p} : Running(q)} IN
       /\ plan \in Sequential => others = {}
       /\ runs' = Put([q \in DOMAIN runs |-> [runs[q] EXCEPT !.alone = @ /\ q \notin others]],
                      p, NewRun(c, others = {}))
    /\ UNCHANGED <<plan, db, contracts, faults>>

Kill(p) ==
    /\ Running(p)
    /\ faults < MAX_FAULTS
    /\ faults' = faults + 1
    /\ runs' = [runs EXCEPT ![p] = Ended(@, "killed")]
    /\ UNCHANGED <<plan, db, contracts, starts>>

-----------------------------------------------------------------------------
Throw(p) ==
    /\ At(p, "throw")
    /\ Throws(p, Arg(p))
    /\ UNCHANGED <<plan, db, contracts, starts, faults>>

\* The first set-dre of a process connects it, the others return at once.
\* Whether the process finds what it needs is seen then.
SetDre(p, ready) ==
    /\ At(p, "set-dre")
    /\ Continue(p, IF runs[p].chain # NoChain THEN runs[p]
                   ELSE [runs[p] EXCEPT !.chain = ChainOf(runs[p]), !.prepared = ready])
    /\ UNCHANGED <<plan, db, starts, faults>>

\* The address is known when the transaction is sent.
Deploy(p) ==
    /\ At(p, "deploy")
    /\ LET chain == runs[p].chain
           new == [kind |-> Arg(p).kind, args |-> Arg(p).args, impl |-> 0, admin |-> "",
                   network |-> runs[p].cmd.network,
                   state |-> IF Private(runs[p].cmd) THEN "mined" ELSE "sent"]
       IN /\ contracts' = Put(contracts, chain, Append(ContractsOn(chain), new))
          /\ Continue(p, [runs[p] EXCEPT
                !.known = Put(@, Arg(p).kind, Len(ContractsOn(chain)) + 1)])
    /\ UNCHANGED <<plan, db, starts, faults>>

\* lowdb reads the whole file, and writes the whole file.
ReadDb(p) ==
    /\ At(p, "read")
    /\ Continue(p, [runs[p] EXCEPT !.copy = db])
    /\ UNCHANGED <<plan, db, contracts, starts, faults>>

\* Fault: the entry of the id is replaced with its other networks.
SetEntryOfId(copy, id, network, a) ==
    Put([k \in {x \in DOMAIN copy : x[1] # id} |-> copy[k]], <<id, network>>, a)

\* What set() makes of the copy of the file.
SetEntry(copy, id, network, a) == Put(copy, <<id, network>>, a)

WriteDb(p) ==
    /\ At(p, "write")
    /\ db' = SetEntry(runs[p].copy, Arg(p).id, runs[p].cmd.network, runs[p].known[Arg(p).kind])
    /\ Continue(p, [runs[p] EXCEPT !.copy = <<>>])
    /\ UNCHANGED <<plan, contracts, starts, faults>>

\* Fault: the wait is for a receipt of success.
WaitForSuccess(p) ==
    /\ At(p, "wait")
    /\ contracts[runs[p].chain][runs[p].known[Arg(p)]].state = "mined"
    /\ Continue(p, runs[p])
    /\ UNCHANGED <<plan, db, contracts, starts, faults>>

\* waitForTx and deployTransaction.wait() throw when the transaction failed.
WaitForTx(p) ==
    /\ At(p, "wait")
    /\ LET tx == contracts[runs[p].chain][runs[p].known[Arg(p)]] IN
       /\ tx.state # "sent"
       /\ IF tx.state = "failed" THEN Throws(p, "transaction") ELSE Continue(p, runs[p])
    /\ UNCHANGED <<plan, db, contracts, starts, faults>>

VerifyStep(p) ==
    /\ At(p, "verify")
    /\ IF ~runs[p].verification.active
       THEN runs' = [runs EXCEPT ![p].verification = VerifyContract]
       ELSE \E answer \in Answers :
              LET v == RunTaskWithRetry(runs[p].verification, answer)
                  run == [runs[p] EXCEPT !.verification = v]
              IN IF v.active THEN runs' = [runs EXCEPT ![p] = run]
                 ELSE Continue(p, [run EXCEPT !.verification = NotVerifying])
    /\ UNCHANGED <<plan, db, contracts, starts, faults>>

\* An id that was never registered for this network is a TypeError.
Get(p) ==
    /\ At(p, "get")
    /\ LET key == <<Arg(p).id, runs[p].cmd.network>> IN
       IF key \in DOMAIN db
       THEN Continue(p, [runs[p] EXCEPT !.known = Put(@, Arg(p).as, db[key])])
       ELSE Throws(p, "not registered")
    /\ UNCHANGED <<plan, db, contracts, starts, faults>>

\* InitializableAdminUpgradeabilityProxy.initialize: once, with an
\* implementation that has code and understands the call that comes with it.
CanInitialize(chain, proxy, impl) ==
    /\ ContractsOn(chain)[proxy].kind = "InitializableAdminUpgradeabilityProxy"
    /\ ContractsOn(chain)[proxy].impl = 0
    /\ HasCode(chain, impl)
    /\ ContractsOn(chain)[impl].kind = "StakedAave"

\* The transaction and the wait for it.  A transaction to an address without
\* code does nothing, and succeeds.
Initialize(p) ==
    /\ At(p, "initialize")
    /\ LET chain == runs[p].chain
           proxy == runs[p].known["proxy"]
           impl == runs[p].known["impl"]
       IN IF ~HasCode(chain, proxy)
          THEN Continue(p, runs[p]) /\ UNCHANGED contracts
          ELSE IF CanInitialize(chain, proxy, impl)
          THEN /\ contracts' = [contracts EXCEPT ![chain][proxy].impl = impl,
                                                 ![chain][proxy].admin = Arg(p)]
               /\ Continue(p, runs[p])
          ELSE Throws(p, "revert") /\ UNCHANGED contracts
    /\ UNCHANGED <<plan, db, starts, faults>>

-----------------------------------------------------------------------------
(* deploy-CRP                                                                *)

\* newCrp at the factory of main: elsewhere there is none to emit the event.
NewCrp(p) ==
    /\ At(p, "newCrp")
    /\ Continue(p, [runs[p] EXCEPT !.crp = IF HasMain(runs[p].cmd) THEN "created" ELSE "missed"])
    /\ UNCHANGED <<plan, db, contracts, starts, faults>>

\* The task listens when the transaction was mined: blocks its provider has
\* already polled, on a network that mines without it, are not looked at again.
Subscribe(p) ==
    /\ At(p, "subscribe")
    /\ \E outcome \in IF Private(runs[p].cmd) THEN {"seen"} ELSE {"seen", "missed"} :
         Continue(p, [runs[p] EXCEPT !.crp = IF @ = "created" THEN outcome ELSE @])
    /\ UNCHANGED <<plan, db, contracts, starts, faults>>

\* The loop that sleeps until the event was seen.
AwaitCrp(p) ==
    /\ At(p, "awaitCrp")
    /\ runs[p].crp = "seen"
    /\ Continue(p, runs[p])
    /\ UNCHANGED <<plan, db, contracts, starts, faults>>

\* createPool takes both tokens.
Transact(p) ==
    /\ At(p, "tx")
    /\ IF Arg(p) = "createPool" => {"approve AAVE", "approve WETH"} \subseteq runs[p].done
       THEN Continue(p, [runs[p] EXCEPT !.done = @ \cup {Arg(p)}])
       ELSE Throws(p, "revert")
    /\ UNCHANGED <<plan, db, contracts, starts, faults>>

\* A transaction that the process sends and waits for, and that fails.
Fault(p) ==
    /\ \E op \in {"initialize", "newCrp", "tx", "create"} : At(p, op)
    /\ TransactionFails(p)
    /\ UNCHANGED <<plan, db, contracts, starts>>

-----------------------------------------------------------------------------
Mine(chain, a) ==
    /\ contracts[chain][a].state = "sent"
    /\ contracts' = [contracts EXCEPT ![chain][a].state = "mined"]
    /\ UNCHANGED <<plan, db, runs, starts, faults>>

FailToMine(chain, a) ==
    /\ contracts[chain][a].state = "sent"
    /\ faults < MAX_FAULTS
    /\ faults' = faults + 1
    /\ contracts' = [contracts EXCEPT ![chain][a].state = "failed"]
    /\ runs' = [q \in DOMAIN runs |-> [runs[q] EXCEPT !.clean = FALSE]]
    /\ UNCHANGED <<plan, db, starts>>

-----------------------------------------------------------------------------
InitRunner ==
    /\ plan \in Plans
    /\ db = <<>>
    /\ contracts = <<>>
    /\ runs = <<>>
    /\ starts = 0
    /\ faults = 0

Chain == \E chain \in DOMAIN contracts : \E a \in DOMAIN contracts[chain] : Mine(chain, a)

DeploymentStep(p) ==
    \/ Throw(p) \/ Deploy(p) \/ ReadDb(p) \/ WriteDb(p) \/ WaitForTx(p) \/ VerifyStep(p)
    \/ Get(p) \/ Initialize(p) \/ NewCrp(p) \/ Subscribe(p) \/ AwaitCrp(p) \/ Transact(p)

Environment ==
    \/ \E p \in Procs : \E c \in plan : Start(p, c)
    \/ \E p \in Procs : Kill(p) \/ Fault(p)
    \/ Chain
    \/ \E chain \in DOMAIN contracts : \E a \in DOMAIN contracts[chain] : FailToMine(chain, a)

-----------------------------------------------------------------------------
\* runTaskWithRetry: the file with the constructor's arguments is there as
\* long as an attempt to verify may still read it.
ParamsFileWhileVerifying ==
    \A p \in DOMAIN runs : runs[p].verification.active => runs[p].verification.file

OwnParams(params, network) == params[IF network = "tenderly" THEN "main" ELSE network]

\* Whose commands reach a chain: a fork of tenderly is for any network's.
NetworksOf(commands, chain) ==
    IF chain[1] = "tenderly" THEN {c.network : c \in {d \in commands : UsesTenderly(d)}}
    ELSE {chain[1]}

\* The tables of constants.ts: a StakedAave is configured, and a proxy given
\* to the admin, for a network whose commands reach the chain it is on,
\* whatever the default of getParamPerNetwork and whatever other commands left
\* in the file or on the fork.
ConfiguredForItsNetwork ==
    \A chain \in DOMAIN contracts : \A a \in DOMAIN contracts[chain] :
        LET this == contracts[chain][a] IN
        /\ this.network \in NetworksOf(plan, chain)
        /\ this.kind = "StakedAave" =>
              /\ this.args.cooldownSeconds = OwnParams(CooldownSeconds, this.network)
              /\ this.args.unstakeWindow = OwnParams(UnstakeWindow, this.network)
              /\ this.args.emissionManager = OwnParams(AaveAdmin, this.network)
              /\ this.args.stakedToken \in {"given", OwnParams(AaveToken, this.network)}
        /\ this.impl # 0 /\ "admin" \notin UNION {c.params : c \in plan} =>
              \E network \in NetworksOf(plan, chain) : this.admin = OwnParams(AaveAdmin, network)

\* "check needed enviroments to prevent loss of gas": a command with --verify
\* that fails for its configuration has sent nothing (deploy-StakedAave.ts:32).
NoGasLost ==
    \A p \in DOMAIN runs :
        /\ runs[p].status = "failed" /\ runs[p].reason \in ConfigReasons
        /\ Verify(runs[p].cmd)
        => runs[p].known = <<>> /\ runs[p].crp = "none"

\* When common-deployment finishes alone, the file's entry of this network is
\* a proxy that runs the implementation of the file, for the network's admin.
FinishedMeansDeployed ==
    [][\A p \in DOMAIN runs :
        /\ Running(p) /\ runs'[p].status = "finished"
        /\ runs[p].alone /\ runs[p].cmd.task = "common-deployment"
        => LET network == runs[p].cmd.network
               on == contracts'[runs[p].chain]
               proxy == on[db[<<"StakedAave", network>>]]
           IN /\ proxy.impl = db[<<"StakedAaveImpl", network>>]
              /\ on[proxy.impl].kind = "StakedAave"
              /\ on[proxy.impl].state = "mined"
              /\ proxy.admin = GetAaveAdminPerNetwork(network)]_runnerVars

\* registerContractInJsonDb: an entry changes only by a command for its own
\* network, or when two commands ran side by side.
RegistrationsSurvive ==
    [][\A key \in DOMAIN db :
        (key \in DOMAIN db' /\ db'[key] = db[key])
        \/ \E p \in DOMAIN runs : At(p, "write") /\ (~runs[p].alone \/ runs[p].cmd.network = key[2])]_runnerVars

\* deploy-bpt.ts:116 waits for an event that will not come any more.
Starved(p) == At(p, "awaitCrp") /\ runs[p].crp = "missed"

\* A command comes to an end: it retries, waits and polls only so often, with
\* the one exception of the event that deploy-CRP has missed.
EveryTaskEnds ==
    \A p \in Procs : Running(p) ~> (~Running(p) \/ Starved(p))

=============================================================================
