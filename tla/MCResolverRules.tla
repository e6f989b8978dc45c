-------------------------- MODULE MCResolverRules --------------------------
(* Instances of ResolverRules for TLC.                                     *)
EXTENDS ResolverRules

\* A cluster as the user applies it, in private DNS mode, with an identity
\* and an owner account, before its network is ready.
NewCluster ==
  [ phase |-> "live", rv |-> 0, fins |-> {}, conds |-> {}, identity |-> TRUE,
    dnsMode |-> "private", owner |-> TRUE, paused |-> TRUE ]

\* The same with its network ready.
ReadyCluster == [NewCluster EXCEPT !.conds = NetworkConditions]

\* Starting points: every mode for one cluster; ready clusters only.
AnyCluster ==
  { ReadyCluster, NewCluster,
    [ReadyCluster EXCEPT !.owner = FALSE],
    [ReadyCluster EXCEPT !.dnsMode = "public"],
    [ReadyCluster EXCEPT !.identity = FALSE] }
OnlyReady == {ReadyCluster}

AllCalls == NormalSteps \cup DeleteSteps \cup {"oneAssociation", "oneDisassociation"}

\* The calls made while endpoints may exist without the rule: an error there
\* leaves endpoints the deletion does not find again.
EndpointWindow == {"outbound", "createRule", "deleteInbound", "deleteOutbound"}
CallsOutsideWindow == AllCalls \ EndpointWindow
=============================================================================
