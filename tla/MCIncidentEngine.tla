-------------------------- MODULE MCIncidentEngine --------------------------
(* Instances of IncidentEngine for TLC.                                      *)
EXTENDS IncidentEngine, TLC

OneDownRule == [r \in Rules |-> "quorum_down"]
DownAndSlow == [r \in Rules |-> IF r = "down" THEN "quorum_down" ELSE "quorum_slow"]

NoParents  == [m \in Monitors |-> {}]

\* Tasks and probes are interchangeable (used by the safety runs only).
Interchangeable == Permutations(Tasks) \cup Permutations(Probes)

=============================================================================
