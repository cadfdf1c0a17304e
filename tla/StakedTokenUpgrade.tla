-------------------------- MODULE StakedTokenUpgrade --------------------------
(***************************************************************************)
(* The proxy of stkAAVE when its distribution is extended: StakedTokenV2   *)
(* is replaced by StakedTokenV2Rev3, whose DISTRIBUTION_END is later (it is *)
(* immutable, a part of the implementation's code) and whose initialize    *)
(* moves lastUpdateTimestamp back to the end of the period that is over.   *)
(*                                                                         *)
(* Both implementations run the staking core on the same storage:          *)
(* StakedToken before the upgrade, New after it.                           *)
(***************************************************************************)
EXTENDS StakedToken

CONSTANTS
    NEW_DISTRIBUTION_END,   \* DISTRIBUTION_END of StakedTokenV2Rev3
    LAST_PERIOD_END         \* 1620594720, written in its initialize

VARIABLES
    implementation,           \* the REVISION of the code behind the proxy
    lastInitializedRevision

proxyVars == <<implementation, lastInitializedRevision>>
upgradeVars == <<vars, proxyVars>>

V2 == 2
V2_REV3 == 3
Implementations == {V2, V2_REV3}

\* The date in the code is the end of the prior period, or later.
ASSUME UpgradeAssumption ==
    /\ LAST_PERIOD_END \in Nat
    /\ NEW_DISTRIBUTION_END \in Nat
    /\ DISTRIBUTION_END <= LAST_PERIOD_END
    /\ LAST_PERIOD_END <= NEW_DISTRIBUTION_END

New == INSTANCE StakedToken WITH DISTRIBUTION_END <- NEW_DISTRIBUTION_END

InitUpgrade ==
    /\ Init
    /\ implementation = V2
    /\ lastInitializedRevision = V2

----------------------------------------------------------------------------
(* The upgrade. *)

\* Fault: the running revision may be initialised again.
InitializerAgain(revision) ==
    /\ revision >= lastInitializedRevision
    /\ lastInitializedRevision' = revision

\* The modifier of every initialize.
Initializer(revision) ==
    /\ revision > lastInitializedRevision
    /\ lastInitializedRevision' = revision

\* Fault: the whole struct is written.
InitializedAssetDataReset ==
    [emissionPerSecond |-> assetData.emissionPerSecond,
     lastUpdateTimestamp |-> LAST_PERIOD_END, index |-> 0]

\* Fault: the new period starts with the upgrade.
InitializedAssetDataFromNow == [assetData EXCEPT !.lastUpdateTimestamp = now]

InitializedAssetData == [assetData EXCEPT !.lastUpdateTimestamp = LAST_PERIOD_END]

Initialize(revision) ==
    /\ Initializer(revision)
    /\ assetData' = IF revision = V2_REV3 THEN InitializedAssetData ELSE assetData

\* What initialize promises stakers: the seconds from the end of the prior
\* period on are worth emissionPerSecond, once.
RestoredEmission ==
    assetData.emissionPerSecond * (Earlier(now, NEW_DISTRIBUTION_END) - LAST_PERIOD_END)

\* upgradeToAndCall by the proxy's admin with the call of initialize, as the
\* proposals make it.  With the implementation that runs already it is also
\* what anybody's own call of initialize does.  Governance executes it after
\* the prior period, whose end is a past date in the code.
UpgradeToAndCall(newImplementation) ==
    /\ LAST_PERIOD_END <= now
    /\ Initialize(newImplementation)
    /\ implementation' = newImplementation
    /\ emitted' = IF implementation = V2 /\ newImplementation = V2_REV3
                  THEN emitted + RestoredEmission ELSE emitted
    /\ UNCHANGED <<now, funds, balances, totalSupply, userIndex,
                   stakerRewardsToClaim, stakersCooldowns, paid, activatedAt,
                   underquoted>>

RunV2 == implementation = V2 /\ Next /\ UNCHANGED proxyVars

RunV2Rev3 == implementation = V2_REV3 /\ New!Next /\ UNCHANGED proxyVars

NextUpgrade ==
    \/ RunV2
    \/ \E i \in Implementations : UpgradeToAndCall(i)
    \/ RunV2Rev3

SpecUpgrade == InitUpgrade /\ [][NextUpgrade]_upgradeVars

----------------------------------------------------------------------------
(* Correctness. *)

\* getTotalRewardsBalance of the code that runs.
RewardsNow(u) ==
    IF implementation = V2_REV3 THEN New!TotalRewards(u) ELSE TotalRewards(u)

AllRewards == SumFunction([u \in Users |-> RewardsNow(u)])

\* Moving lastUpdateTimestamp back emits no second twice: through both
\* periods and the gap between them, whenever the index was last updated,
\* what is owed and was paid stays within what was promised.
UpgradeSolvent == ~underquoted => AllRewards + paid <= emitted

\* The upgrade takes nothing from anybody and hands out the whole gap but for
\* rounding (less than 1 for each account and for the supply over Scale), if
\* somebody stakes and the index was updated in the gap.  The seconds before
\* LAST_PERIOD_END that nobody's transaction had counted by then are lost.
GapIsPaid ==
    [][ implementation' # implementation
        /\ totalSupply > 0
        /\ LAST_PERIOD_END <= assetData.lastUpdateTimestamp =>
          /\ \A u \in Users : RewardsNow(u)' >= RewardsNow(u)
          /\ Scale * (AllRewards' + Cardinality(Users)) + totalSupply
               > Scale * (AllRewards + RestoredEmission) ]_upgradeVars

\* Stakers can always leave, whichever code runs: the index that initialize
\* leaves behind is never below that of an account.
UpgradeNeverLocksIn ==
    IF implementation = V2_REV3 THEN New!NeverLockedIn ELSE NeverLockedIn

=============================================================================
