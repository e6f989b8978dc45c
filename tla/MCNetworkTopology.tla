------------------------- MODULE MCNetworkTopology -------------------------
(* Instances of NetworkTopology for TLC. *)
EXTENDS NetworkTopology

\* One address range for all clusters, and two more that are nobody's.
OneCidr    == {"r1"}
ThreeCidrs == {"r1", "r2", "r3"}
SameCidr   == [c \in Clusters |-> "r1"]

\* The hypothesis of the theorem NetworkGuarded holds of these instances.
ASSUME NoLoneListHolds == NoLoneList
=============================================================================
