------------------------------ MODULE MCLoops ------------------------------
(***************************************************************************)
(* Values of the constants of Loops, and the fairness of its components.   *)
(***************************************************************************)
EXTENDS Loops

CONSTANTS KeepShort, KeepLong     \* retention of the two monitors, in half hours

MCKeep == <<KeepShort, KeepLong>>

ASSUME LoopsAssumption == LoopsConstants

\* The fairness of each component's own specification; one condition serves
\* several components, since only one of them runs.
FairLoops ==
    /\ LoopsSpec
    /\ \A i \in Replicas : WF_loopVars(OnlyLeader /\ LoopStep(i))
                        /\ WF_loopVars(OnlyLeader /\ Renew(i))
    /\ WF_loopVars(\/ OnlyLeader /\ Tick
                   \/ OnlyHeartbeat /\ Heartbeat!Check("c1")
                   \/ OnlyRollup /\ Rollups!Build
                   \/ OnlyReports /\ Reports!Build /\ UNCHANGED report)
    /\ WF_loopVars(OnlyHeartbeat /\ Heartbeat!Check("c2"))
-----------------------------------------------------------------------------
\* Those of HeartbeatChecker; the jobs are interchangeable, so one stands for all.
SilenceOpens == Heartbeat!SilenceOpensFor("j1")
PingsResolve == Heartbeat!PingsResolveFor("j1")
=============================================================================
