--------------------------- MODULE ResourceShares ---------------------------
(***************************************************************************)
(* The controller that shares transit gateway and prefix list with the     *)
(* account of a cluster (controllers/share.go), through the RAM client     *)
(* (pkg/aws/ramclient.go).                                                 *)
(***************************************************************************)
EXTENDS NetworkWorkers

\* The controller, named after its finalizer.
SHR == FinalizerResourceShare

\* Fault: the entry does not count; the finalizer of the share itself counts.
FaultResourcesStillInUse(o) == FinalizerTransitGatewayAttachment \in o.fins
FaultResourcesStillInUseOwn(o) ==
  o.fins \cap {FinalizerTransitGatewayAttachment, FinalizerPrefixListEntry, SHR} # {}

\* The shares stay while the attachment or the entry is there.  The removal of
\* their finalizers raises the event that this controller goes on with.
ResourcesStillInUse(o) ==
  \/ FinalizerTransitGatewayAttachment \in o.fins
  \/ FinalizerPrefixListEntry \in o.fins

\* A pause does not stop this controller.  An ARN that is missing does not keep
\* the other resource from being shared; the finalizer comes with the transit
\* gateway.
ShareReconcile(c) ==
  /\ Takes(SHR, c)
  /\ LET o == cache[c]
         serves == o.phase # "gone" /\ o.mode = "GiantSwarmManaged"
         arns   == KnownArns(c)
     IN \/ /\ \/ ~serves
              \/ o.phase = "deleting" /\ SHR \notin o.fins
              \/ o.phase = "deleting" /\ ManagementClusterFound /\ ResourcesStillInUse(o)
           /\ Skip(SHR, c)
        \/ /\ serves /\ o.phase = "deleting" /\ SHR \in o.fins
           /\ ManagementClusterFound /\ ~ResourcesStillInUse(o)
           /\ Begin(SHR, c, "unshareTgw")
        \/ /\ serves /\ o.phase = "live" /\ ManagementClusterFound /\ arns # {}
           /\ Begin(SHR, c, IF "tgw" \in arns THEN "addFinalizer" ELSE "sharePl")
  /\ UNCHANGED <<objVars, awsVars, boundVars>>

\* ApplyResourceShare: nothing to do within one account, or for a share that is there.
ApplyResourceShare(c, r) ==
  shares' = IF c \in SameAccount THEN shares ELSE [shares EXCEPT ![c] = @ \cup {r}]

\* DeleteResourceShare: a share that is not there is no error.
DeleteResourceShare(c, r) == shares' = [shares EXCEPT ![c] = @ \ {r}]

shareFrame == <<objVars, mcVars, att, entryVars, routes, boundVars>>

ShareTransitGateway ==
  /\ Call(SHR, "shareTgw")
  /\ ApplyResourceShare(Cl(SHR), "tgw")
  /\ IF "pl" \in w[SHR].arns THEN Goto(SHR, "sharePl") ELSE Requeue(SHR)
  /\ UNCHANGED shareFrame

SharePrefixList ==
  /\ Call(SHR, "sharePl")
  /\ ApplyResourceShare(Cl(SHR), "pl")
  /\ IF "tgw" \in w[SHR].arns THEN Return(SHR) ELSE Requeue(SHR)
  /\ UNCHANGED shareFrame

UnshareTransitGateway ==
  /\ Call(SHR, "unshareTgw")
  /\ DeleteResourceShare(Cl(SHR), "tgw")
  /\ Goto(SHR, "unsharePl")
  /\ UNCHANGED shareFrame

UnsharePrefixList ==
  /\ Call(SHR, "unsharePl")
  /\ DeleteResourceShare(Cl(SHR), "pl")
  /\ Goto(SHR, "removeFinalizer")
  /\ UNCHANGED shareFrame

ShareWorker ==
  \/ \E c \in Clusters : ShareReconcile(c)
  \/ ShareTransitGateway \/ SharePrefixList
  \/ UnshareTransitGateway \/ UnsharePrefixList
=============================================================================
