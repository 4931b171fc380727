------------------------------ MODULE MCEdges ------------------------------
(***************************************************************************)
(* Values of the constants of Edges, and the fairness of its components.   *)
(***************************************************************************)
EXTENDS Edges

MCBatches == {[points |-> 1, series |-> {"x"}], [points |-> 2, series |-> {"x", "y"}],
              [points |-> 2, series |-> {"w", "z"}]}

ASSUME EdgesAssumption == EdgesConstants

\* The fairness of each component's own specification; one condition serves
\* several components, since only one of them runs.
FairEdges ==
    /\ EdgesSpec
    /\ WF_edgeVars(\/ OnlyReporter /\ Flush
                   \/ OnlyDiscovery /\ Inventory!Push("p1")
                   \/ OnlySync /\ Heartbeats!Heartbeat(1))
    /\ WF_edgeVars(\/ OnlyDiscovery /\ Inventory!Push("p2")
                   \/ OnlySync /\ Heartbeats!Heartbeat(2))
    /\ WF_edgeVars(\/ OnlyDiscovery /\ Inventory!ReviewFails("u1")
                   \/ OnlySync /\ Heartbeats!Elect)
    /\ SF_edgeVars(OnlyReporter /\ Answer)
=============================================================================
