------------------------------ MODULE Proposals ------------------------------
(***************************************************************************)
(* The governance scripts of tasks/proposals: they create a proposal on    *)
(* main, or take it through vote, queue and execution on a fork whose      *)
(* blocks and clock they move themselves.  The governance contracts are    *)
(* external; what the scripts rely on is modelled: when a proposal may be  *)
(* voted on, queued and executed, and what its calls do.                   *)
(***************************************************************************)
EXTENDS TaskRunner

VARIABLES
    governance      \* chain -> governance contract, staked tokens and time there

vars == <<plan, db, contracts, runs, starts, faults, governance>>

Tokens == {"stkAave", "stkBpt"}
GRACE_PERIOD == 432000
Main == <<"main", 0>>

\* Main while proposal 14, created in block start14, is open or when it is over.
MainAt(start14) ==
    [block |-> 100, time |-> 0, count |-> 15,
     proposals |-> [id \in {14} |->
         [executor |-> LongExecutor, start |-> start14, voters |-> {}, eta |-> 0,
          executed |-> FALSE,
          calls |-> <<[target |-> "stkAave", impl |-> "StakedTokenV2Rev3", address |-> 0],
                      [target |-> "stkBpt", impl |-> "StakedTokenBptRev2", address |-> 0]>>]],
     revision |-> [stkAave |-> 2, stkBpt |-> 1],
     implementation |-> [stkAave |-> "StakedTokenV2", stkBpt |-> "StakedTokenV3"],
     allowances |-> {},
     funded |-> FALSE]          \* the whales have sent AAVE to a proposer

On(p) == governance[runs[p].chain]
Proposal(p) == On(p).proposals[runs[p].known["proposalId"]]

End(proposal) == proposal.start + proposal.executor.duration

IsActive(g, proposal) == proposal.start < g.block /\ g.block <= End(proposal)
IsSucceeded(g, proposal) == g.block > End(proposal) /\ proposal.voters # {} /\ proposal.eta = 0

\* A transaction is mined in the next block, a second later.
NextBlock(g) == [g EXCEPT !.block = @ + 1, !.time = @ + 1]

\* The state after a transaction of p, or the revert.
MinedOrRevert(p, guard, after) ==
    IF guard
    THEN governance' = [governance EXCEPT ![runs[p].chain] = after] /\ Continue(p, runs[p])
    ELSE Throws(p, "revert") /\ UNCHANGED governance

ChangeProposal(g, id, proposal) == [g EXCEPT !.proposals = Put(@, id, proposal)]

-----------------------------------------------------------------------------
\* A new fork begins with main in a block in which proposal 14 was open, or in
\* a later one.
NewForks ==
    {[contracts |-> <<>>, governance |-> MainAt(start14)] : start14 \in {50, 50 - LongExecutor.duration}}

\* The heads that processes have brought forks of tenderly to.
ForksOfTenderly ==
    {[contracts |-> ContractsOn(chain), governance |-> governance[chain]] :
        chain \in {chain \in DOMAIN governance : chain[1] = "tenderly"}}

\* With TENDERLY_FORK_ID and TENDERLY_HEAD_ID, setFork and setHead go to any head.
Heads(c) ==
    NewForks \cup
    IF UsesTenderly(c) /\ {"TENDERLY_FORK_ID", "TENDERLY_HEAD_ID"} \subseteq c.env
    THEN ForksOfTenderly ELSE {}

\* On a head from which these scripts have started before, the whales may not
\* have the AAVE that they send; exec-stks needs proposal 14 open.
ReadyAt(c, head) ==
    /\ Prepared(c, head.contracts)
    /\ c.task \in {"proposal-stk-aave-extension:tenderly", "proposal-vault-approval:tenderly",
                   "exec-stks:tenderly", "no-exec-stks:tenderly"} => ~head.governance.funded
    /\ c.task = "exec-stks:tenderly" => IsActive(head.governance, head.governance.proposals[14])

\* A process that connects to a fork has what is there as its own from then on.
Connect(p) ==
    /\ At(p, "set-dre")
    /\ LET c == runs[p].cmd
           chain == ChainOf(runs[p])
       IN IF ~HasMain(c) \/ chain \in DOMAIN governance \cup DOMAIN contracts
          THEN SetDre(p, Prepared(c, ContractsOn(chain))) /\ UNCHANGED <<contracts, governance>>
          ELSE \E head \in Heads(c) :
                 /\ SetDre(p, ReadyAt(c, head))
                 /\ contracts' = Put(contracts, chain, head.contracts)
                 /\ governance' = Put(governance, chain, head.governance)

Transactions(p) ==
    /\ At(p, "transactions")
    /\ \/ /\ governance' = [governance EXCEPT ![runs[p].chain].block = @ + Arg(p),
                                              ![runs[p].chain].time = @ + Arg(p),
                                              ![runs[p].chain].funded = TRUE]
          /\ Continue(p, runs[p])
       \/ /\ On(p).funded
          /\ Throws(p, "revert")
          /\ UNCHANGED governance
    /\ UNCHANGED <<plan, db, contracts, starts, faults>>

\* advanceBlockTo(latestBlock() + n): by its name a tenderly network skips to
\* one block before, any other one mines them one by one.
AdvanceBlockTo(p) ==
    /\ At(p, "advanceBlockTo")
    /\ LET target == On(p).block + Arg(p)
           skipped == IF runs[p].cmd.network = "tenderly" THEN target - On(p).block - 1
                      ELSE target - On(p).block
       IN governance' = [governance EXCEPT ![runs[p].chain].block = @ + skipped]
    /\ Continue(p, runs[p])
    /\ UNCHANGED <<plan, db, contracts, starts, faults>>

\* Another network than tenderly mines a block with the new time.
IncreaseTimeTenderly(p) ==
    /\ At(p, "increaseTimeTenderly")
    /\ governance' = [governance EXCEPT
         ![runs[p].chain].time = @ + Arg(p),
         ![runs[p].chain].block = @ + IF runs[p].cmd.network = "tenderly" THEN 0 ELSE 1]
    /\ Continue(p, runs[p])
    /\ UNCHANGED <<plan, db, contracts, starts, faults>>

\* proposalId: the number of proposals, or a number written in the script.
GetProposalsCount(p) ==
    /\ \/ At(p, "getProposalsCount")
          /\ Continue(p, [runs[p] EXCEPT !.known = Put(@, "proposalId", On(p).count)])
       \/ At(p, "proposalId")
          /\ Continue(p, [runs[p] EXCEPT !.known = Put(@, "proposalId", Arg(p))])
    /\ UNCHANGED <<plan, db, contracts, starts, faults, governance>>

\* A call names the implementation this process deployed, or the one given.
Resolve(p, call) ==
    [target |-> call.target, impl |-> call.impl,
     address |-> IF call.impl \in DOMAIN runs[p].known THEN runs[p].known[call.impl] ELSE 0]

\* Transactions of one account are mined in their order: what this process
\* sent before is settled, one way or the other.  Without main there is no code
\* at the address of governance: the transaction does nothing, and succeeds.
Create(p) ==
    /\ At(p, "create")
    /\ \A kind \in DOMAIN runs[p].known \ {"proposalId"} :
         contracts[runs[p].chain][runs[p].known[kind]].state # "sent"
    /\ IF runs[p].chain \notin DOMAIN governance THEN Continue(p, runs[p]) /\ UNCHANGED governance
       ELSE LET mined == NextBlock(On(p))
                new == [executor |-> Arg(p).executor, start |-> mined.block, voters |-> {},
                        eta |-> 0, executed |-> FALSE,
                        calls |-> [i \in DOMAIN Arg(p).calls |-> Resolve(p, Arg(p).calls[i])]]
            IN MinedOrRevert(p, TRUE,
                   [ChangeProposal(mined, mined.count, new) EXCEPT !.count = @ + 1])
    /\ UNCHANGED <<plan, db, contracts, starts, faults>>

\* One vote of a voter.
SubmitVote(p) ==
    /\ At(p, "submitVote")
    /\ LET mined == NextBlock(On(p))
           id == runs[p].known["proposalId"]
       IN MinedOrRevert(p,
              /\ id \in DOMAIN mined.proposals
              /\ IsActive(mined, mined.proposals[id])
              /\ Arg(p) \notin mined.proposals[id].voters,
              ChangeProposal(mined, id, [mined.proposals[id] EXCEPT !.voters = @ \cup {Arg(p)}]))
    /\ UNCHANGED <<plan, db, contracts, starts, faults>>

Queue(p) ==
    /\ At(p, "queue")
    /\ LET mined == NextBlock(On(p))
           id == runs[p].known["proposalId"]
       IN MinedOrRevert(p, id \in DOMAIN mined.proposals /\ IsSucceeded(mined, Proposal(p)),
              ChangeProposal(mined, id,
                  [Proposal(p) EXCEPT !.eta = mined.time + Proposal(p).executor.delay]))
    /\ UNCHANGED <<plan, db, contracts, starts, faults>>

Revision(impl) == IF impl = "StakedTokenV2Rev3" THEN 3 ELSE 2

\* upgradeToAndCall of an implementation with a later revision, or approve.
CanCall(g, chain, call) ==
    \/ call.impl = "approve"
    \/ /\ Revision(call.impl) > g.revision[call.target]
       /\ call.address = 0 \/ HasCode(chain, call.address)

Call(g, call) ==
    IF call.impl = "approve" THEN [g EXCEPT !.allowances = @ \cup {call.target}]
    ELSE [g EXCEPT !.revision[call.target] = Revision(call.impl),
                   !.implementation[call.target] = call.impl]

\* Both calls, or neither.
Execute(p) ==
    /\ At(p, "execute")
    /\ LET mined == NextBlock(On(p))
           id == runs[p].known["proposalId"]
           proposal == Proposal(p)
           calls == proposal.calls
           first == Call(mined, calls[1])
       IN MinedOrRevert(p,
              /\ id \in DOMAIN mined.proposals
              /\ proposal.eta # 0 /\ ~proposal.executed
              /\ mined.time \in proposal.eta .. proposal.eta + GRACE_PERIOD
              /\ CanCall(mined, runs[p].chain, calls[1])
              /\ CanCall(first, runs[p].chain, calls[2]),
              ChangeProposal(Call(first, calls[2]), id, [proposal EXCEPT !.executed = TRUE]))
    /\ UNCHANGED <<plan, db, contracts, starts, faults>>

-----------------------------------------------------------------------------
Init ==
    /\ InitRunner
    /\ governance = [chain \in {Main} |-> MainAt(50)]

GovernanceStep(p) ==
    \/ Connect(p) \/ Transactions(p) \/ AdvanceBlockTo(p) \/ IncreaseTimeTenderly(p)
    \/ GetProposalsCount(p) \/ Create(p) \/ SubmitVote(p) \/ Queue(p) \/ Execute(p)

TaskStep(p) == GovernanceStep(p) \/ (DeploymentStep(p) /\ UNCHANGED governance)

Next ==
    \/ \E p \in Procs : TaskStep(p)
    \/ Environment /\ UNCHANGED governance

\* A process takes its next step, and the networks mine what they are sent.
Fairness ==
    /\ \A p \in Procs : WF_vars(TaskStep(p))
    /\ WF_vars(Chain /\ UNCHANGED governance)

Spec == Init /\ [][Next]_vars /\ Fairness

-----------------------------------------------------------------------------
GivenAs(impl) == IF impl = "StakedTokenV2Rev3" THEN "stkaaveimpl" ELSE "stkbptimpl"

\* The payload of the extension: each proxy with a new implementation of its own.
Extended == [stkAave |-> "StakedTokenV2Rev3", stkBpt |-> "StakedTokenBptRev2"]

\* A script that finishes, or reaches the turns of the holders, has executed
\* what it is named for: the extension is in place, from the proposal it
\* created, or both allowances are.  No step of no-exec-stks touches the
\* proposals, the proxies or the allowances of the fork it finds.
FinishedMeansExecuted ==
    [][\A p \in DOMAIN runs :
        LET chain == runs[p].chain
            task == runs[p].cmd.task
        IN /\ Running(p) /\ (runs'[p].status = "finished" \/ runs'[p].reason = "undefined signer") =>
                LET g == governance'[chain] IN
                /\ task \in {"proposal-stk-aave-extension:tenderly", "exec-stks:tenderly"} =>
                      g.implementation = Extended
                /\ task = "proposal-vault-approval:tenderly" => g.allowances = Tokens
                /\ task \in {"proposal-stk-aave-extension:tenderly",
                             "proposal-vault-approval:tenderly"} =>
                      g.proposals[g.count - 1].executed
           /\ Running(p) /\ task = "no-exec-stks:tenderly" /\ chain[1] = "tenderly" =>
                /\ governance'[chain].proposals = governance[chain].proposals
                /\ governance'[chain].implementation = governance[chain].implementation
                /\ governance'[chain].allowances = governance[chain].allowances]_vars

\* A command that no other one disturbs, whose transactions succeed and which
\* finds what it needs (an initialization: a new proxy; the rehearsals: a head
\* from which none has started; exec-stks: proposal 14 open) fails only for its
\* configuration, whatever killed commands left behind; verify-sc and the turns
\* of the holders always fail.
FailsOnlyForCause ==
    \A p \in DOMAIN runs :
        /\ runs[p].status = "failed"
        /\ runs[p].alone /\ runs[p].clean /\ runs[p].prepared
        => runs[p].reason \in ConfigReasons \cup {"unknown task", "undefined signer"}

\* Without faults every proposal names implementations of its chain: code of
\* the kind it proposes, or an address given on the command line.
ProposalsNameImplementations ==
    faults = 0 =>
        \A chain \in DOMAIN governance :
            \A id \in DOMAIN governance[chain].proposals \ {14} :
                \A i \in {1, 2} :
                    LET call == governance[chain].proposals[id].calls[i] IN
                    \/ call.impl = "approve"
                    \/ call.address = 0 /\ \E c \in plan : GivenAs(call.impl) \in c.params
                    \/ /\ HasCode(chain, call.address)
                       /\ contracts[chain][call.address].kind = call.impl

=============================================================================
