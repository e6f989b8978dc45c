-------------------------- MODULE CrossplaneConfig --------------------------
(***************************************************************************)
(* The controller that keeps, for every Cluster, a ConfigMap and a         *)
(* ProviderConfig for Crossplane (controllers/crossplane_config.go).       *)
(*                                                                         *)
(* It watches Clusters alone, while most of what it writes comes from the  *)
(* AWSCluster (for EKS the AWSManagedControlPlane), whose changes raise no *)
(* event: it follows them when the informer resyncs.  Its finalizer is on  *)
(* the Cluster; earlier releases had it on the AWSCluster, and it takes it *)
(* off there too.                                                          *)
(*                                                                         *)
(* The ConfigMap and the ProviderConfig are read from the API server, the  *)
(* Cluster and the AWSCluster from the informer cache.  A reconciliation   *)
(* that ends with an error before its first write leaves the Cluster in    *)
(* the queue and changes nothing: it is no step of the model.              *)
(***************************************************************************)
EXTENDS AWSClusterObject

CONSTANTS
  Kinds,          \* the infrastructure of the cluster: "aws" or "eks"
  Edits,          \* what others may change
  MaxEdits,       \* bound on changes made by others
  MaxFailures     \* bound on failed calls and restarts

\* The controller's finalizer.
Finalizer == "crossplane-config"

ASSUME CrossplaneConstantsAssumption ==
  /\ Finalizer \notin OtherFinalizers
  /\ Kinds \subseteq {"aws", "eks"}
  /\ Edits \subseteq {"pause", "infra", "identity", "crd", "config"}
  /\ MaxEdits \in Nat /\ MaxFailures \in Nat

\* How far the infrastructure is: nothing, the VPC (for EKS the endpoint comes
\* with it), the security groups.  The values of the ConfigMap say the same.
Progress == {"none", "vpc", "groups"}
Further  == [none |-> "vpc", vpc |-> "groups", groups |-> "groups"]

CAPIClusters ==
  [ phase : {"live", "deleting", "gone"}, rv : Nat,
    fins : SUBSET (OtherFinalizers \cup {Finalizer}), paused : BOOLEAN ]
Infras ==
  [ phase : {"absent", "live", "deleting", "gone"}, rv : Nat,
    fins : SUBSET (OtherFinalizers \cup {Finalizer}), values : Progress ]

\* No object; one that another wrote; a ConfigMap without Data; the controller's.
ConfigMaps      == {"absent", "other", "bare"} \cup Progress
ProviderConfigs == {"absent", "other", "ours"}

Steps ==
  {"idle", "reread", "addFinalizer", "getConfigMap", "createConfigMap", "updateConfigMap",
   "getProvider", "createProvider", "updateProvider",
   "deleteConfigMap", "deleteProvider", "removeLegacy", "removeFinalizer"}

VARIABLES
  kind,
  cl, clCache,           \* the Cluster in the API server and in the cache
  infra, infraCache,     \* its AWSCluster or AWSManagedControlPlane
  identity, crd,         \* the AWSClusterRoleIdentity, the CRD of ProviderConfig
  config, provider,      \* the ConfigMap and the ProviderConfig
  pc, copy, info, base,  \* the worker: its next call, its copy of the Cluster, the
                         \* values it writes, the ConfigMap or ProviderConfig it read
  queue,                 \* the Cluster is in the work queue
  failures, edits

objVars   == <<kind, cl, clCache, infra, infraCache, identity, crd>>
ownVars   == <<config, provider>>
workVars  == <<pc, copy, info, base, queue>>
boundVars == <<failures, edits>>
vars == <<objVars, ownVars, workVars, boundVars>>

Unread == [phase |-> "live", rv |-> 0, fins |-> {}, paused |-> FALSE]

TypeOK ==
  /\ kind \in Kinds
  /\ cl \in CAPIClusters /\ clCache \in CAPIClusters
  /\ infra \in Infras /\ infraCache \in Infras
  /\ identity \in BOOLEAN /\ crd \in BOOLEAN
  /\ config \in ConfigMaps /\ provider \in ProviderConfigs
  /\ pc \in Steps /\ copy \in CAPIClusters /\ info \in Progress
  /\ base \in ConfigMaps \cup ProviderConfigs
  /\ queue \in BOOLEAN
  /\ failures \in 0..MaxFailures /\ edits \in 0..MaxEdits

\* A Cluster that is new, or one with the finalizer of an earlier release on
\* its AWSCluster.
Init ==
  /\ kind \in Kinds
  /\ cl = [phase |-> "live", rv |-> 0, fins |-> OtherFinalizers, paused |-> FALSE]
  /\ clCache = cl
  /\ infra \in [phase : {"live"}, rv : {0}, fins : {OtherFinalizers} \cup
                  (IF kind = "aws" THEN {OtherFinalizers \cup {Finalizer}} ELSE {}),
                values : {"none"}]
               \cup (IF "infra" \in Edits
                     THEN [phase : {"absent"}, rv : {0}, fins : {OtherFinalizers}, values : {"none"}]
                     ELSE {})
  /\ infraCache = infra
  /\ identity = ("identity" \notin Edits) /\ crd = ("crd" \notin Edits)
  /\ config = "absent" /\ provider = "absent"
  /\ pc = "idle" /\ copy = Unread /\ info = "none" /\ base = "absent"
  /\ queue = TRUE
  /\ failures = 0 /\ edits = 0

-----------------------------------------------------------------------------
(* The worker. *)

Goto(l) == pc' = l /\ UNCHANGED <<copy, info, base, queue>>
Return == pc' = "idle" /\ copy' = Unread /\ info' = "none" /\ base' = "absent" /\ UNCHANGED queue
Error  == pc' = "idle" /\ copy' = Unread /\ info' = "none" /\ base' = "absent" /\ queue' = TRUE

\* getEKSId: the endpoint of an EKS cluster is known.
EndpointKnown(i) == kind = "eks" => i.values # "none"

\* Reconcile.  A deletion does not ask for the finalizer.  The infrastructure
\* or the identity that is not found is no error; an endpoint that is not known
\* is (getEKSId).
Reconcile ==
  /\ pc = "idle" /\ queue /\ queue' = FALSE
  /\ \/ /\ clCache.phase = "deleting"
        /\ pc' = "deleteConfigMap" /\ copy' = clCache /\ UNCHANGED info
     \/ /\ clCache.phase = "live" /\ infraCache.phase \in {"live", "deleting"} /\ identity
        /\ EndpointKnown(infraCache)
        /\ pc' = "reread" /\ info' = infraCache.values /\ UNCHANGED copy
     \/ /\ \/ clCache.phase = "gone"
           \/ clCache.phase = "live" /\ infraCache.phase \in {"absent", "gone"}
           \/ clCache.phase = "live" /\ ~identity
        /\ UNCHANGED <<pc, copy, info>>
  /\ UNCHANGED <<base, objVars, ownVars, boundVars>>

\* reconcileNormal gets the Cluster once more, which may be a later one.
Reread ==
  /\ pc = "reread"
  /\ IF clCache.phase = "gone" THEN Return
     ELSE /\ pc' = "addFinalizer" /\ copy' = clCache
          /\ UNCHANGED <<info, base, queue>>
  /\ UNCHANGED <<objVars, ownVars, boundVars>>

\* Fault: the conflict is ignored.
FaultAddFinalizerCall ==
  /\ pc = "addFinalizer"
  /\ cl' = IF Unconflicted(cl, copy) /\ cl.phase = "live" THEN AddFinalizer(cl, Finalizer) ELSE cl
  /\ pc' = "getConfigMap" /\ copy' = Unread /\ UNCHANGED <<info, base, queue>>
  /\ UNCHANGED <<kind, clCache, infra, infraCache, identity, crd, ownVars, boundVars>>

\* AddFinalizer.  The API server adds none to an object that is being deleted.
AddFinalizerCall ==
  /\ pc = "addFinalizer"
  /\ IF Unconflicted(cl, copy) /\ (cl.phase = "live" \/ Finalizer \in cl.fins)
     THEN /\ cl' = AddFinalizer(cl, Finalizer)
          /\ pc' = "getConfigMap" /\ copy' = Unread /\ UNCHANGED <<info, base, queue>>
     ELSE Error /\ UNCHANGED cl
  /\ UNCHANGED <<kind, clCache, infra, infraCache, identity, crd, ownVars, boundVars>>

\* reconcileConfigMap.  updateConfigMap writes to the map Data without asking
\* whether there is one: the panic ends the reconciliation like an error.
GetConfigMap ==
  /\ pc = "getConfigMap"
  /\ \/ config = "absent" /\ Goto("createConfigMap")
     \/ config = "bare" /\ Error
     \/ /\ config \notin {"absent", "bare"}
        /\ pc' = "updateConfigMap" /\ base' = config /\ UNCHANGED <<copy, info, queue>>
  /\ UNCHANGED <<objVars, ownVars, boundVars>>

\* Fault: the ConfigMap gets the spec of the ProviderConfig.
FaultCreateConfigMap ==
  /\ pc = "createConfigMap"
  /\ config' = "ours" /\ Goto("getProvider")
  /\ UNCHANGED <<objVars, provider, boundVars>>

\* createConfigMap: a ConfigMap that came meanwhile is an error.
CreateConfigMap ==
  /\ pc = "createConfigMap"
  /\ IF config = "absent" THEN config' = info /\ Goto("getProvider")
     ELSE Error /\ UNCHANGED config
  /\ UNCHANGED <<objVars, provider, boundVars>>

\* updateConfigMap: a merge patch with what differs from the ConfigMap that was
\* read; it fails when that is gone.
UpdateConfigMap ==
  /\ pc = "updateConfigMap"
  /\ IF config = "absent" THEN Error /\ UNCHANGED config
     ELSE /\ config' = IF base = info THEN config ELSE info
          /\ pc' = "getProvider" /\ base' = "absent" /\ UNCHANGED <<copy, info, queue>>
  /\ UNCHANGED <<objVars, provider, boundVars>>

\* reconcileProviderConfig; without the CRD there is nothing to do.
GetProviderConfig ==
  /\ pc = "getProvider"
  /\ \/ ~crd /\ Return
     \/ crd /\ provider = "absent" /\ Goto("createProvider")
     \/ /\ crd /\ provider # "absent"
        /\ pc' = "updateProvider" /\ base' = provider /\ UNCHANGED <<copy, info, queue>>
  /\ UNCHANGED <<objVars, ownVars, boundVars>>

\* createProviderConfig: one that came meanwhile is left as it is.
CreateProviderConfig ==
  /\ pc = "createProvider"
  /\ provider' = IF provider = "absent" THEN "ours" ELSE provider
  /\ Return
  /\ UNCHANGED <<objVars, config, boundVars>>

\* updateProviderConfig
UpdateProviderConfig ==
  /\ pc = "updateProvider"
  /\ IF provider = "absent" THEN Error /\ UNCHANGED provider
     ELSE provider' = (IF base = "ours" THEN provider ELSE "ours") /\ Return
  /\ UNCHANGED <<objVars, config, boundVars>>

-----------------------------------------------------------------------------
(* reconcileDelete. *)

\* What is not there, or has no CRD, is deleted.
DeleteConfigMap ==
  /\ pc = "deleteConfigMap"
  /\ config' = "absent" /\ Goto("deleteProvider")
  /\ UNCHANGED <<objVars, provider, boundVars>>

DeleteProviderConfig ==
  /\ pc = "deleteProvider"
  /\ provider' = "absent" /\ Goto("removeLegacy")
  /\ UNCHANGED <<objVars, config, boundVars>>

\* Fault: the AWSCluster is not looked at.
FaultRemoveLegacyFinalizer ==
  /\ pc = "removeLegacy"
  /\ Goto("removeFinalizer")
  /\ UNCHANGED <<objVars, ownVars, boundVars>>

\* RemoveFinalizer, first from an AWSCluster with the name of the Cluster.
RemoveLegacyFinalizer ==
  /\ pc = "removeLegacy"
  /\ IF kind = "eks" \/ infraCache.phase \in {"absent", "gone"}
     THEN Goto("removeFinalizer") /\ UNCHANGED infra
     ELSE IF Unconflicted(infra, infraCache)
     THEN infra' = RemoveFinalizer(infra, Finalizer) /\ Goto("removeFinalizer")
     ELSE Error /\ UNCHANGED infra
  /\ UNCHANGED <<kind, cl, clCache, infraCache, identity, crd, ownVars, boundVars>>

\* RemoveFinalizer, then from the Cluster.
RemoveFinalizerCall ==
  /\ pc = "removeFinalizer"
  /\ IF Unconflicted(cl, copy) THEN cl' = RemoveFinalizer(cl, Finalizer) /\ Return
     ELSE Error /\ UNCHANGED cl
  /\ UNCHANGED <<kind, clCache, infra, infraCache, identity, crd, ownVars, boundVars>>

-----------------------------------------------------------------------------
(* The surroundings of the controller. *)

\* The cache catches up with the Cluster; events of a paused one are dropped.
Observe ==
  /\ clCache # cl
  /\ clCache' = cl
  /\ queue' = (queue \/ ~cl.paused)
  /\ UNCHANGED <<kind, cl, infra, infraCache, identity, crd, ownVars, pc, copy, info, base, boundVars>>

\* The controller does not watch the infrastructure.
ObserveInfra ==
  /\ infraCache # infra
  /\ infraCache' = infra
  /\ UNCHANGED <<kind, cl, clCache, infra, identity, crd, ownVars, workVars, boundVars>>

\* Fault: events without a change are dropped.
FaultResync ==
  /\ clCache.phase # "gone" /\ clCache # cl /\ ~clCache.paused /\ ~queue
  /\ queue' = TRUE
  /\ UNCHANGED <<objVars, ownVars, pc, copy, info, base, boundVars>>

\* The informer resyncs: an event for every Cluster, changed or not.
Resync ==
  /\ clCache.phase # "gone" /\ ~clCache.paused /\ ~queue
  /\ queue' = TRUE
  /\ UNCHANGED <<objVars, ownVars, pc, copy, info, base, boundVars>>

RequestDeletion ==
  /\ cl.phase = "live"
  /\ cl' = DeletionRequested(cl)
  /\ UNCHANGED <<kind, clCache, infra, infraCache, identity, crd, ownVars, workVars, boundVars>>

\* Cluster API deletes the infrastructure of a Cluster that is deleted, its
\* provider lets it go, and then Cluster API lets the Cluster go.
Teardown ==
  /\ cl.phase = "deleting"
  /\ \/ /\ infra.phase = "live" /\ infra' = DeletionRequested(infra) /\ UNCHANGED cl
     \/ /\ infra.phase = "deleting" /\ infra.fins \cap OtherFinalizers # {}
        /\ infra' = Stored(infra, [infra EXCEPT !.fins = @ \ OtherFinalizers])
        /\ UNCHANGED cl
     \/ /\ infra.phase \in {"absent", "gone"} /\ cl.fins \cap OtherFinalizers # {}
        /\ cl' = Stored(cl, [cl EXCEPT !.fins = @ \ OtherFinalizers])
        /\ UNCHANGED infra
  /\ UNCHANGED <<kind, clCache, infraCache, identity, crd, ownVars, workVars, boundVars>>

\* Others change something: they pause or unpause the Cluster, make the
\* infrastructure and go on with it, make the identity, install the CRD, or
\* write or delete the objects that this controller keeps.
Edit ==
  /\ edits < MaxEdits /\ edits' = edits + 1
  /\ \/ /\ "pause" \in Edits /\ cl.phase # "gone"
        /\ cl' = Stored(cl, [cl EXCEPT !.paused = ~@])
        /\ UNCHANGED <<infra, identity, crd, ownVars>>
     \/ /\ infra.phase = "live" /\ infra.values # (IF kind = "eks" THEN "vpc" ELSE "groups")
        /\ infra' = Stored(infra, [infra EXCEPT !.values = Further[@]])
        /\ UNCHANGED <<cl, identity, crd, ownVars>>
     \/ /\ infra.phase = "absent" /\ cl.phase = "live"
        /\ infra' = [infra EXCEPT !.phase = "live"]
        /\ UNCHANGED <<cl, identity, crd, ownVars>>
     \/ /\ ~identity /\ identity' = TRUE
        /\ UNCHANGED <<cl, infra, crd, ownVars>>
     \/ /\ ~crd /\ crd' = TRUE
        /\ UNCHANGED <<cl, infra, identity, ownVars>>
     \/ /\ "config" \in Edits /\ cl.phase = "live"
        /\ \/ config' \in {"absent", "other", "bare"} \ {config} /\ UNCHANGED provider
           \/ crd /\ provider' \in {"absent", "other"} \ {provider} /\ UNCHANGED config
        /\ UNCHANGED <<cl, infra, identity, crd>>
  /\ UNCHANGED <<kind, clCache, infraCache, workVars, failures>>

\* Any call fails.
Fail ==
  /\ failures < MaxFailures /\ failures' = failures + 1
  /\ pc # "idle"
  /\ Error
  /\ UNCHANGED <<objVars, ownVars, edits>>

\* The operator stops and starts again; the events of the first list of a
\* paused Cluster are dropped too.
Restart ==
  /\ failures < MaxFailures /\ failures' = failures + 1
  /\ pc' = "idle" /\ copy' = Unread /\ info' = "none" /\ base' = "absent"
  /\ clCache' = cl /\ infraCache' = infra
  /\ queue' = (cl.phase # "gone" /\ ~cl.paused)
  /\ UNCHANGED <<kind, cl, infra, identity, crd, ownVars, edits>>

Worker ==
  \/ Reconcile \/ Reread \/ AddFinalizerCall
  \/ GetConfigMap \/ CreateConfigMap \/ UpdateConfigMap
  \/ GetProviderConfig \/ CreateProviderConfig \/ UpdateProviderConfig
  \/ DeleteConfigMap \/ DeleteProviderConfig
  \/ RemoveLegacyFinalizer \/ RemoveFinalizerCall

Next ==
  \/ Worker \/ Observe \/ ObserveInfra \/ Resync
  \/ RequestDeletion \/ Teardown \/ Edit \/ Fail \/ Restart

Spec == Init /\ [][Next]_vars

\* The worker goes on, the cache catches up and resyncs (every two minutes),
\* and Cluster API tears down what is deleted.
FairSpec ==
  /\ Spec
  /\ WF_vars(Worker) /\ WF_vars(Observe) /\ WF_vars(ObserveInfra)
  /\ WF_vars(Resync) /\ WF_vars(Teardown)

-----------------------------------------------------------------------------
\* AddFinalizer comes before everything the controller makes, RemoveFinalizer
\* after it has deleted all: whatever it made is there only while its finalizer
\* holds the Cluster, with reads of the Cluster of three different ages.
ConfigGuarded ==
  (config \in Progress \/ provider = "ours") => Finalizer \in cl.fins

\* The infrastructure, the identity and the endpoint are there, nobody pauses
\* the Cluster, and nobody has left a ConfigMap without Data.
Configurable ==
  /\ cl.phase = "live" /\ ~cl.paused /\ infra.phase = "live" /\ identity
  /\ EndpointKnown(infra)
  /\ config # "bare"

\* The ConfigMap and the ProviderConfig say what the infrastructure is like,
\* although none of its changes, no identity and no CRD that comes late raises
\* an event, and whatever others did to the two objects is put right.
EventuallyConfigured ==
  <>[]Configurable => <>[](config = infra.values /\ (crd => provider = "ours"))

\* A Cluster that is deleted goes away: neither the finalizer on the Cluster nor
\* the one an earlier release has left on the AWSCluster, which Cluster API
\* waits for, keeps it.
ClusterReleased == []<>~(cl.phase = "deleting" /\ ~cl.paused)
=============================================================================
