------------------------ MODULE KarpenterMachinePool ------------------------
(***************************************************************************)
(* The KarpenterMachinePool controller                                     *)
(* (controllers/karpentermachinepool_controller.go) with the S3 and EC2    *)
(* calls it makes (pkg/aws/s3client.go, ec2client.go).                     *)
(*                                                                         *)
(* For a KarpenterMachinePool the controller keeps an EC2NodeClass and a   *)
(* NodePool in the workload cluster, where Karpenter launches instances    *)
(* for them, and the bootstrap user data of the nodes in S3.  On deletion  *)
(* it waits until no instance is left.                                     *)
(*                                                                         *)
(* One pool name is modelled; a pool that is gone may be created again     *)
(* under the same name.  The worker reads the pool, its MachinePool and    *)
(* its Cluster from informer caches, the bootstrap Secret and the control  *)
(* plane from the API server.  What it changes in the pool it changes in   *)
(* memory; a patch deferred to the end of the reconciliation sends the     *)
(* fields that differ from what was read, without a lock and by name, and  *)
(* an error of that patch is only logged.                                  *)
(***************************************************************************)
EXTENDS Naturals, FiniteSets

CONSTANTS
  Data,         \* contents of the bootstrap Secret; also stands for their hashes
  NoData,
  Instances,    \* EC2 instances Karpenter may launch
  EKSKinds,     \* subset of BOOLEAN: may the cluster be an EKS cluster?
  MaxVersion,   \* Kubernetes versions are 1..MaxVersion
  EditKinds,    \* what users and other controllers may do
  FailingCalls, \* calls that may fail; "crash": the operator stops
  MaxEdits, MaxFailures, MaxPools

Versions    == 1..MaxVersion
PoolNumbers == 1..MaxPools

Calls ==
  {"skew", "addFinalizer", "nodeClass", "nodePool", "readSecret", "put",
   "saveStatus", "deleteNodePool", "deleteNodeClass", "list", "terminate",
   "deleteUserData", "patch"}

ASSUME KarpenterAssumption ==
  /\ NoData \notin Data
  /\ IsFiniteSet(Instances)
  /\ EKSKinds \subseteq BOOLEAN
  /\ EditKinds \subseteq {"deletePool", "deleteCluster", "secret", "controlPlane",
                          "machinePool", "pool", "hold"}
  /\ FailingCalls \subseteq Calls \cup {"crash"}
  /\ MaxVersion \in Nat \ {0}
  /\ MaxEdits \in Nat
  /\ MaxFailures \in Nat
  /\ MaxPools \in Nat \ {0}

VARIABLES
  kmp,         \* the KarpenterMachinePool in the API server
  pool,        \* how many pools of this name there have been
  kmpCache,    \* the pool in the informer cache
  cluster,     \* the Cluster: "live" or "deleting"
  clusterCache,
  mpVersion,   \* MachinePool.spec.template.spec.version
  mpCache,
  cpVersion,   \* status.version of the control plane
  secret,      \* the bootstrap Secret
  hold,        \* why reconciliations end early: "none", "paused" (or no owner
               \* yet), "unready" (no S3 bucket or no Secret reference)
  eks,         \* the cluster is an EKS cluster: no user data in S3
  replicas,    \* MachinePool.spec.replicas
  \* the worker
  pc, before, mem, clusterDeleted, version, data, listed,
  \* the workload cluster and AWS
  wc,          \* the workload cluster: "up" or "down"
  nodePool,    \* "none", "present" or "deleting"
  nodeClass,   \* the version of the AMI of the EC2NodeClass, 0 without one
  inst,        \* "none", "claimed" (a NodeClaim), "running", "shutting", "terminated"
  s3,          \* the user data object of the pool
  edits, failures

envVars  == <<cluster, clusterCache, mpVersion, mpCache, cpVersion, secret, hold, eks>>
kmpVars  == <<kmp, pool, kmpCache>>
readVars == <<before, clusterDeleted, version, data, listed>>
outVars  == <<wc, nodePool, nodeClass, inst, s3, replicas>>
boundVars == <<edits, failures>>
vars == <<kmpVars, envVars, pc, mem, readVars, outVars, boundVars>>

Pools ==
  [ phase : {"live", "deleting", "gone"},
    fin   : BOOLEAN,               \* KarpenterFinalizer
    hash  : Data \cup {NoData},    \* BootstrapDataHashAnnotation
    ready : BOOLEAN,               \* status.ready
    ami   : Versions ]             \* version of the AMI of spec.ec2NodeClass

NewPool == [phase |-> "live", fin |-> FALSE, hash |-> NoData, ready |-> FALSE, ami |-> 1]

TypeOK ==
  /\ kmp \in Pools /\ kmpCache \in Pools /\ before \in Pools /\ mem \in Pools
  /\ pool \in PoolNumbers
  /\ cluster \in {"live", "deleting"} /\ clusterCache \in {"live", "deleting"}
  /\ clusterDeleted \in BOOLEAN
  /\ {mpVersion, mpCache, cpVersion, version} \subseteq Versions
  /\ secret \in Data
  /\ eks \in EKSKinds
  /\ hold \in {"none", "paused", "unready"}
  /\ replicas \in 0..Cardinality(Instances)
  /\ pc \in Calls \cup {"idle"}
  /\ data \in Data \cup {NoData}
  /\ listed \subseteq Instances
  /\ wc \in {"up", "down"}
  /\ nodePool \in {"none", "present", "deleting"}
  /\ nodeClass \in Versions \cup {0}
  /\ inst \in [Instances -> {"none", "claimed", "running", "shutting", "terminated"}]
  /\ s3 \in Data \cup {NoData}
  /\ edits \in 0..MaxEdits /\ failures \in 0..MaxFailures

Init ==
  /\ kmp = NewPool /\ kmpCache = NewPool
  /\ pool = 1
  /\ cluster = "live" /\ clusterCache = "live"
  /\ mpVersion = 1 /\ mpCache = 1 /\ cpVersion = 1
  /\ secret \in Data
  /\ eks \in EKSKinds
  /\ hold = "none"
  /\ replicas = 0
  /\ pc = "idle"
  /\ before = NewPool /\ mem = NewPool
  /\ clusterDeleted = FALSE /\ version = 1 /\ data = NoData /\ listed = {}
  /\ wc = "up" /\ nodePool = "none" /\ nodeClass = 0
  /\ inst = [i \in Instances |-> "none"]
  /\ s3 = NoData
  /\ edits = 0 /\ failures = 0

-----------------------------------------------------------------------------
(***************************************************************************)
(* The CAPI patch helper: what differs between before and after is written *)
(* into the stored object o; a pool that is being deleted vanishes with    *)
(* its finalizer.                                                          *)
(***************************************************************************)
Patched(o, b, a) ==
  LET n == [o EXCEPT !.fin   = IF a.fin # b.fin THEN a.fin ELSE @,
                     !.hash  = IF a.hash # b.hash THEN a.hash ELSE @,
                     !.ready = IF a.ready # b.ready THEN a.ready ELSE @]
  IN  IF n.phase = "deleting" /\ ~n.fin THEN [n EXCEPT !.phase = "gone"] ELSE n

Call(l) == pc = l
Goto(l) == pc' = l

\* The end of a reconciliation, and of its local variables.
Finish ==
  /\ Goto("idle")
  /\ before' = NewPool /\ mem' = NewPool
  /\ clusterDeleted' = FALSE /\ version' = 1 /\ data' = NoData /\ listed' = {}

\* The reconciliation returns; NotReady: and marks the pool not ready.
Return   == Goto("patch") /\ UNCHANGED mem
NotReady == Goto("patch") /\ mem' = [mem EXCEPT !.ready = FALSE]

\* versionskew.IsSkewAllowed
IsSkewAllowed(controlPlaneVersion, workerVersion) == controlPlaneVersion >= workerVersion

\* Fault: the version skew is checked before the deletion is looked at.
FaultReconcile ==
  /\ Call("idle")
  /\ kmpCache.phase # "gone"
  /\ hold # "paused"
  /\ before' = kmpCache
  /\ clusterDeleted' = (clusterCache = "deleting")
  /\ version' = mpCache
  /\ data' = NoData /\ listed' = {}
  /\ IF hold = "unready" /\ ~eks
     THEN mem' = [kmpCache EXCEPT !.ready = FALSE] /\ Goto("patch")
     ELSE /\ mem' = kmpCache
          /\ Goto(IF kmpCache.phase = "deleting" /\ IsSkewAllowed(cpVersion, mpCache)
                  THEN "deleteNodePool" ELSE "skew")
  /\ UNCHANGED <<kmpVars, envVars, outVars, boundVars>>

\* Reconcile up to the choice between deletion and the rest.
Reconcile ==
  /\ Call("idle")
  /\ kmpCache.phase # "gone"
  /\ hold # "paused"
  /\ before' = kmpCache
  /\ clusterDeleted' = (clusterCache = "deleting")
  /\ version' = mpCache
  /\ data' = NoData /\ listed' = {}
  /\ IF hold = "unready" /\ ~eks
     THEN mem' = [kmpCache EXCEPT !.ready = FALSE] /\ Goto("patch")
     ELSE /\ mem' = kmpCache
          /\ Goto(IF kmpCache.phase = "deleting" THEN "deleteNodePool" ELSE "skew")
  /\ UNCHANGED <<kmpVars, envVars, outVars, boundVars>>

CheckSkew ==
  /\ Call("skew")
  /\ Goto(IF IsSkewAllowed(cpVersion, version) THEN "addFinalizer" ELSE "patch")
  /\ UNCHANGED <<kmpVars, envVars, mem, readVars, outVars, boundVars>>

Failing(l) == l \in FailingCalls /\ failures < MaxFailures

\* Fault: the finalizer is left to the deferred patch.
FaultAddFinalizer ==
  /\ Call("addFinalizer")
  /\ mem' = [mem EXCEPT !.fin = TRUE]
  /\ Goto("nodeClass")
  /\ UNCHANGED <<kmpVars, envVars, readVars, outVars, boundVars>>

\* The finalizer is patched at once; a pool that is gone is an error.  After
\* an error the finalizer is still on the pool in memory, so the deferred
\* patch sends it again.
AddFinalizer ==
  /\ Call("addFinalizer")
  /\ mem' = [mem EXCEPT !.fin = TRUE]
  /\ \/ /\ kmp.phase # "gone" /\ kmp' = Patched(kmp, before, mem')
        /\ Goto("nodeClass") /\ UNCHANGED failures
     \/ kmp.phase = "gone" /\ Goto("patch") /\ UNCHANGED <<kmp, failures>>
     \/ /\ Failing("addFinalizer") /\ failures' = failures + 1
        /\ Goto("patch") /\ UNCHANGED kmp
  /\ UNCHANGED <<pool, kmpCache, envVars, readVars, outVars, edits>>

CreateOrUpdateEC2NodeClass ==
  /\ Call("nodeClass")
  /\ IF wc = "down"
     THEN NotReady /\ UNCHANGED nodeClass
     ELSE nodeClass' = mem.ami /\ Goto("nodePool") /\ UNCHANGED mem
  /\ UNCHANGED <<kmpVars, envVars, readVars, wc, nodePool, inst, s3, replicas, boundVars>>

\* A NodePool on its way out is updated, and stays on its way out.
CreateOrUpdateNodePool ==
  /\ Call("nodePool")
  /\ IF wc = "down"
     THEN NotReady /\ UNCHANGED nodePool
     ELSE /\ nodePool' = IF nodePool = "none" THEN "present" ELSE nodePool
          /\ Goto(IF eks THEN "saveStatus" ELSE "readSecret")
          /\ UNCHANGED mem
  /\ UNCHANGED <<kmpVars, envVars, readVars, wc, nodeClass, inst, s3, replicas, boundVars>>

\* Fault: the new hash is recorded before the upload.
FaultReadSecret ==
  /\ Call("readSecret")
  /\ data' = secret
  /\ mem' = [mem EXCEPT !.hash = secret]
  /\ Goto(IF mem.hash = secret THEN "saveStatus" ELSE "put")
  /\ UNCHANGED <<kmpVars, envVars, before, clusterDeleted, version, listed, outVars, boundVars>>

\* The hash of the Secret is compared with the annotation that was read.
ReadSecret ==
  /\ Call("readSecret")
  /\ data' = secret
  /\ Goto(IF mem.hash = secret THEN "saveStatus" ELSE "put")
  /\ UNCHANGED <<kmpVars, envVars, mem, before, clusterDeleted, version, listed, outVars, boundVars>>

\* The user data is uploaded, then its hash is recorded in memory.
PutUserData ==
  /\ Call("put")
  /\ s3' = data
  /\ mem' = [mem EXCEPT !.hash = data]
  /\ Goto("saveStatus")
  /\ UNCHANGED <<kmpVars, envVars, readVars, wc, nodePool, nodeClass, inst, replicas, boundVars>>

NodeClaims == {i \in Instances : inst[i] \in {"claimed", "running"}}

\* Fault: the NodeClaim of another NodePool is counted as well.
FaultSaveStatus ==
  /\ Call("saveStatus")
  /\ IF wc = "down"
     THEN NotReady /\ UNCHANGED replicas
     ELSE /\ replicas' = Cardinality(NodeClaims) + 1
          /\ mem' = [mem EXCEPT !.ready = TRUE]
          /\ Goto("patch")
  /\ UNCHANGED <<kmpVars, envVars, readVars, wc, nodePool, nodeClass, inst, s3, boundVars>>

\* saveKarpenterInstancesToStatus, and the pool is marked ready.
SaveStatus ==
  /\ Call("saveStatus")
  /\ IF wc = "down"
     THEN NotReady /\ UNCHANGED replicas
     ELSE /\ replicas' = Cardinality(NodeClaims)
          /\ mem' = [mem EXCEPT !.ready = TRUE]
          /\ Goto("patch")
  /\ UNCHANGED <<kmpVars, envVars, readVars, wc, nodePool, nodeClass, inst, s3, boundVars>>

\* The deferred patch; an error (the pool is gone) is logged.
DeferredPatch ==
  /\ Call("patch")
  /\ kmp' = IF kmp.phase = "gone" THEN kmp ELSE Patched(kmp, before, mem)
  /\ Finish
  /\ UNCHANGED <<pool, kmpCache, envVars, outVars, boundVars>>

-----------------------------------------------------------------------------
(* reconcileDelete                                                         *)

\* Where reconcileDelete goes when the workload cluster cannot be reached.
\* Fault: the error is tolerated whatever the Cluster.
FaultOnDeleteError == "list"
\* Fault: the error is never tolerated.
FaultOnDeleteErrorStrict == "patch"
OnDeleteError == IF clusterDeleted THEN "list" ELSE "patch"

DeleteNodePool ==
  /\ Call("deleteNodePool")
  /\ \/ /\ wc = "up"
        /\ nodePool' = IF nodePool = "present" THEN "deleting" ELSE nodePool
        /\ Goto("deleteNodeClass")
        /\ UNCHANGED failures
     \/ /\ wc = "down"
        /\ Goto(OnDeleteError)
        /\ UNCHANGED <<nodePool, failures>>
     \/ /\ Failing("deleteNodePool")
        /\ failures' = failures + 1
        /\ Goto(OnDeleteError)
        /\ UNCHANGED nodePool
  /\ UNCHANGED <<kmpVars, envVars, mem, readVars, wc, nodeClass, inst, s3, replicas, edits>>

DeleteEC2NodeClass ==
  /\ Call("deleteNodeClass")
  /\ \/ /\ wc = "up"
        /\ nodeClass' = 0
        /\ Goto("list")
        /\ UNCHANGED failures
     \/ /\ wc = "down"
        /\ Goto(OnDeleteError)
        /\ UNCHANGED <<nodeClass, failures>>
     \/ /\ Failing("deleteNodeClass")
        /\ failures' = failures + 1
        /\ Goto(OnDeleteError)
        /\ UNCHANGED nodeClass
  /\ UNCHANGED <<kmpVars, envVars, mem, readVars, wc, nodePool, inst, s3, replicas, edits>>

NonTerminated == {i \in Instances : inst[i] \in {"running", "shutting"}}

\* Instances that are left are terminated when the Cluster is being deleted,
\* and waited for in any case; without any the finalizer goes.
ListInstances ==
  /\ Call("list")
  /\ listed' = NonTerminated
  /\ IF NonTerminated # {}
     THEN Goto(IF clusterDeleted THEN "terminate" ELSE "patch") /\ UNCHANGED mem
     ELSE /\ mem' = IF eks THEN [mem EXCEPT !.fin = FALSE] ELSE mem
          /\ Goto(IF eks THEN "patch" ELSE "deleteUserData")
  /\ UNCHANGED <<kmpVars, envVars, before, clusterDeleted, version, data, outVars, boundVars>>

TerminateInstances ==
  /\ Call("terminate")
  /\ inst' = [i \in Instances |->
                IF i \in listed /\ inst[i] = "running" THEN "shutting" ELSE inst[i]]
  /\ Return
  /\ UNCHANGED <<kmpVars, envVars, readVars, wc, nodePool, nodeClass, s3, replicas, boundVars>>

\* The user data is deleted and the finalizer removed in memory.
DeleteUserData ==
  /\ Call("deleteUserData")
  /\ s3' = NoData
  /\ mem' = [mem EXCEPT !.fin = FALSE]
  /\ Goto("patch")
  /\ UNCHANGED <<kmpVars, envVars, readVars, wc, nodePool, nodeClass, inst, replicas, boundVars>>

-----------------------------------------------------------------------------
(* Failures.                                                               *)

\* Errors that also mark the pool not ready.
MarksNotReady == {"nodeClass", "nodePool", "readSecret", "put", "saveStatus"}

\* A call returns an error: the deferred patch still runs.
Fail ==
  /\ Failing(pc)
  /\ pc \notin {"addFinalizer", "deleteNodePool", "deleteNodeClass", "patch"}
  /\ IF pc \in MarksNotReady THEN NotReady ELSE Return
  /\ failures' = failures + 1
  /\ UNCHANGED <<kmpVars, envVars, readVars, outVars, edits>>

\* The deferred patch fails, or the operator stops anywhere: what was
\* changed in memory is lost.
LosePatch ==
  /\ pc # "idle"
  /\ Failing(IF pc = "patch" THEN "patch" ELSE "crash")
  /\ failures' = failures + 1
  /\ Finish
  /\ UNCHANGED <<kmpVars, envVars, outVars, edits>>

-----------------------------------------------------------------------------
(* Karpenter in the workload cluster, and EC2.                             *)

\* Karpenter makes a NodeClaim for pending pods.
Provision(i) ==
  /\ wc = "up" /\ nodePool = "present"
  /\ inst[i] = "none"
  /\ inst' = [inst EXCEPT ![i] = "claimed"]
  /\ UNCHANGED <<kmpVars, envVars, replicas, pc, mem, readVars, wc, nodePool, nodeClass, s3, boundVars>>

\* A launch once requested completes, even when the NodePool goes meanwhile.
Launch(i) ==
  /\ inst[i] = "claimed"
  /\ inst' = [inst EXCEPT ![i] = "running"]
  /\ UNCHANGED <<kmpVars, envVars, replicas, pc, mem, readVars, wc, nodePool, nodeClass, s3, boundVars>>

\* Karpenter drains the nodes of a NodePool that is being deleted.
Drain(i) ==
  /\ wc = "up" /\ nodePool = "deleting"
  /\ inst[i] \in {"claimed", "running"}
  /\ inst' = [inst EXCEPT ![i] = IF @ = "claimed" THEN "none" ELSE "shutting"]
  /\ UNCHANGED <<kmpVars, envVars, replicas, pc, mem, readVars, wc, nodePool, nodeClass, s3, boundVars>>

NodePoolGone ==
  /\ wc = "up" /\ nodePool = "deleting"
  /\ \A i \in Instances : inst[i] \in {"none", "terminated"}
  /\ nodePool' = "none"
  /\ UNCHANGED <<kmpVars, envVars, replicas, pc, mem, readVars, wc, nodeClass, inst, s3, boundVars>>

Terminated(i) ==
  /\ inst[i] = "shutting"
  /\ inst' = [inst EXCEPT ![i] = "terminated"]
  /\ UNCHANGED <<kmpVars, envVars, replicas, pc, mem, readVars, wc, nodePool, nodeClass, s3, boundVars>>

Karpenter ==
  \/ \E i \in Instances : Provision(i) \/ Launch(i) \/ Drain(i) \/ Terminated(i)
  \/ NodePoolGone

-----------------------------------------------------------------------------
(* Users, other controllers, the watches.                                  *)

DeletePool ==
  /\ "deletePool" \in EditKinds
  /\ kmp.phase = "live"
  /\ kmp' = [kmp EXCEPT !.phase = IF kmp.fin THEN "deleting" ELSE "gone"]
  /\ UNCHANGED <<pool, kmpCache, envVars, pc, mem, readVars, outVars, boundVars>>

RecreatePool ==
  /\ kmp.phase = "gone" /\ cluster = "live"
  /\ pool < MaxPools
  /\ pool' = pool + 1
  /\ kmp' = NewPool
  /\ UNCHANGED <<kmpCache, envVars, pc, mem, readVars, outVars, boundVars>>

DeleteCluster ==
  /\ "deleteCluster" \in EditKinds
  /\ cluster = "live"
  /\ cluster' = "deleting"
  /\ UNCHANGED <<kmpVars, clusterCache, mpVersion, mpCache, cpVersion, secret, hold, eks,
                 pc, mem, readVars, outVars, boundVars>>

\* The workload cluster of a Cluster that is being deleted is torn down.
WorkloadClusterDown ==
  /\ cluster = "deleting" /\ wc = "up"
  /\ wc' = "down"
  /\ UNCHANGED <<kmpVars, envVars, replicas, pc, mem, readVars, nodePool, nodeClass, inst, s3, boundVars>>

Edit(k) == k \in EditKinds /\ edits < MaxEdits /\ edits' = edits + 1

EditSecret ==
  /\ Edit("secret")
  /\ secret' \in Data \ {secret}
  /\ UNCHANGED <<kmpVars, cluster, clusterCache, mpVersion, mpCache, cpVersion, hold, eks>>

UpgradeControlPlane ==
  /\ Edit("controlPlane")
  /\ cpVersion < MaxVersion
  /\ cpVersion' = cpVersion + 1
  /\ UNCHANGED <<kmpVars, cluster, clusterCache, mpVersion, mpCache, secret, hold, eks>>

UpgradeMachinePool ==
  /\ Edit("machinePool")
  /\ mpVersion < MaxVersion
  /\ mpVersion' = mpVersion + 1
  /\ UNCHANGED <<kmpVars, cluster, clusterCache, mpCache, cpVersion, secret, hold, eks>>

\* The AMI follows the version of the MachinePool, at the earliest right after.
UpgradePool ==
  /\ Edit("pool")
  /\ kmp.phase = "live" /\ kmp.ami < mpVersion
  /\ kmp' = [kmp EXCEPT !.ami = @ + 1]
  /\ UNCHANGED <<pool, kmpCache, envVars>>

ChangeHold ==
  /\ Edit("hold")
  /\ hold' \in {"none", "paused", "unready"} \ {hold}
  /\ UNCHANGED <<kmpVars, cluster, clusterCache, mpVersion, mpCache, cpVersion, secret, eks>>

Edits ==
  /\ EditSecret \/ UpgradeControlPlane \/ UpgradeMachinePool \/ UpgradePool \/ ChangeHold
  /\ UNCHANGED <<pc, mem, readVars, outVars, failures>>

SyncPool ==
  /\ kmpCache # kmp
  /\ kmpCache' = kmp
  /\ UNCHANGED <<kmp, pool, envVars, pc, mem, readVars, outVars, boundVars>>

SyncCluster ==
  /\ clusterCache # cluster
  /\ clusterCache' = cluster
  /\ UNCHANGED <<kmpVars, cluster, mpVersion, mpCache, cpVersion, secret, hold, eks,
                 pc, mem, readVars, outVars, boundVars>>

SyncMachinePool ==
  /\ mpCache # mpVersion
  /\ mpCache' = mpVersion
  /\ UNCHANGED <<kmpVars, cluster, clusterCache, mpVersion, cpVersion, secret, hold, eks,
                 pc, mem, readVars, outVars, boundVars>>

-----------------------------------------------------------------------------
Worker ==
  \/ CheckSkew \/ AddFinalizer
  \/ CreateOrUpdateEC2NodeClass \/ CreateOrUpdateNodePool
  \/ ReadSecret \/ PutUserData \/ SaveStatus
  \/ DeleteNodePool \/ DeleteEC2NodeClass
  \/ ListInstances \/ TerminateInstances \/ DeleteUserData
  \/ DeferredPatch

Next ==
  \/ Reconcile \/ Worker \/ Fail \/ LosePatch
  \/ Karpenter
  \/ DeletePool \/ RecreatePool \/ DeleteCluster \/ WorkloadClusterDown
  \/ Edits
  \/ SyncPool \/ SyncCluster \/ SyncMachinePool

(***************************************************************************)
(* The worker finishes what it has begun and every pool is reconciled      *)
(* again at the latest after a resync; the watches catch up; Karpenter,    *)
(* while its cluster is up, completes launches and drains the nodes of a   *)
(* NodePool that is being deleted; EC2 finishes terminations.              *)
(***************************************************************************)
Fairness ==
  /\ WF_vars(Worker)
  /\ SF_vars(Reconcile)
  /\ WF_vars(SyncPool) /\ WF_vars(SyncCluster) /\ WF_vars(SyncMachinePool)
  /\ \A i \in Instances : WF_vars(Launch(i)) /\ WF_vars(Drain(i)) /\ WF_vars(Terminated(i))

Spec == Init /\ [][Next]_vars
FairSpec == Spec /\ Fairness

-----------------------------------------------------------------------------
(* Properties.                                                             *)

(***************************************************************************)
(* The user data in S3 is guarded by the finalizer of the pool: the patch  *)
(* that adds it precedes the upload, the upload is undone before it is     *)
(* dropped, whatever is stale, fails or is created again under the name.   *)
(***************************************************************************)
phases  == [u \in PoolNumbers |-> IF u < pool THEN "gone" ELSE IF u > pool THEN "live" ELSE kmp.phase]
guarded == [u \in PoolNumbers |-> u = pool /\ kmp.fin]
kept    == [u \in PoolNumbers |-> u = pool /\ s3 # NoData]

Guard == INSTANCE GuardedResource WITH
  Objects <- PoolNumbers, phase <- phases, guarded <- guarded, resource <- kept

GuardsUserData == Guard!Spec

\* A pool that reports ready has user data its nodes can boot from.
ReadyMeansBootable ==
  (kmp.phase = "live" /\ kmp.ready /\ ~eks) => s3 # NoData

(***************************************************************************)
(* When a pool is gone while its Cluster lives on, any node still there    *)
(* belongs to a NodePool that is being deleted, so Karpenter drains it: an *)
(* unreachable workload cluster is tolerated only when the Cluster is      *)
(* being deleted, even though its deletion is read from a cache.           *)
(***************************************************************************)
LeftoversDrained ==
  (kmp.phase = "gone" /\ cluster = "live" /\ NodeClaims # {}) => nodePool = "deleting"

\* A pool that is being deleted goes away, with the workload cluster or
\* without it, unless the pool is held up.
PoolReleased ==
  (kmp.phase = "deleting") ~> (kmp.phase # "deleting" \/ hold # "none")

Usable == kmp.phase = "live" /\ hold = "none" /\ cluster = "live" /\ ~eks
            /\ IsSkewAllowed(cpVersion, mpVersion)

\* BootstrapDataHashAnnotation is there "to detect when userdata changes and
\* needs to be re-uploaded to S3": what the Secret holds ends up in S3.
EventuallyUploaded ==
  \A d \in Data : (Usable /\ secret = d) ~> (s3 = d \/ secret # d \/ ~Usable)

=============================================================================
