------------------------ MODULE EtherscanVerification ------------------------
(***************************************************************************)
(* helpers/etherscan-verification.ts: the check made before a deployment   *)
(* and the retries of a verification, as a record and what one call of     *)
(* runTaskWithRetry makes of it.                                           *)
(***************************************************************************)
EXTENDS Integers

SUPPORTED_ETHERSCAN_NETWORKS == {"main", "ropsten", "kovan", "goerli"}

\* Fault: the network is checked, the key is not.
CheckVerificationOfNetwork(network, env) == network \in SUPPORTED_ETHERSCAN_NETWORKS

\* checkVerification does not exit the process.
CheckVerification(network, env) ==
    /\ "ETHERSCAN_KEY" \in env
    /\ network \in SUPPORTED_ETHERSCAN_NETWORKS

\* What the verify task of hardhat may do: succeed, or throw an error of
\* okErrors, of fatalErrors, the unableVerifyError or another one.
Answers == {"done", "ok", "fatal", "unable", "other"}

\* A verification: attempts left, whether only related sources are sent, and
\* whether the temporary file with the constructor's arguments exists.
NotVerifying == [active |-> FALSE, times |-> 0, relatedSources |-> FALSE, file |-> FALSE]

\* verifyContract, once the key and the network are accepted.
VerifyContract == [active |-> TRUE, times |-> 4, relatedSources |-> TRUE, file |-> TRUE]

\* The catch block of runTaskWithRetry for an error that is worth a retry.
Retry(v, answer) ==
    [v EXCEPT !.times = @ - 1, !.relatedSources = @ /\ answer # "unable"]

\* Fault: the file is removed after every attempt.
RunTaskWithRetryCleaning(v, answer) ==
    LET tried == [v EXCEPT !.relatedSources = @ /\ v.times # 1, !.file = FALSE] IN
    IF v.times > 0 /\ answer \in {"unable", "other"} THEN Retry(tried, answer)
    ELSE [tried EXCEPT !.active = FALSE]

\* One call of runTaskWithRetry.  The last attempt sends all sources; after
\* it, with no attempt left, the call cleans up and gives up.  Errors that
\* end the verification early leave the file behind.
RunTaskWithRetry(v, answer) ==
    LET tried == [v EXCEPT !.relatedSources = @ /\ v.times # 1] IN
    IF v.times = 0 \/ answer = "done" THEN [tried EXCEPT !.active = FALSE, !.file = FALSE]
    ELSE IF answer \in {"ok", "fatal"} THEN [tried EXCEPT !.active = FALSE]
    ELSE Retry(tried, answer)

=============================================================================
