-------------------------- MODULE MCClusterUnpause --------------------------
(* Instances of ClusterUnpause for TLC.                                    *)
EXTENDS ClusterUnpause

NewCluster ==
  [ phase |-> "live", rv |-> 0, fins |-> {}, conds |-> {}, identity |-> TRUE,
    dnsMode |-> "private", owner |-> TRUE, paused |-> TRUE ]
ReadyCluster == [NewCluster EXCEPT !.conds = NetworkConditions]

\* A cluster whose network is ready, and clusters in either DNS mode whose
\* subnets get ready after the controllers have seen them.
Starting ==
  { ReadyCluster }
    \cup { [NewCluster EXCEPT !.conds = {"VpcReady"}, !.dnsMode = m] : m \in {"private", "public"} }

\* Everything may fail but the association of a single rule, whose error the
\* controller hides from itself.
VisibleFailures == NormalSteps \cup DeleteSteps

\* The hypothesis of the theorems holds of this instance.
ASSUME HandOverHolds == HandOverAssumed
=============================================================================
