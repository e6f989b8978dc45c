--------------------- MODULE KarpenterMachinePoolProofs ---------------------
(***************************************************************************)
(* Safety of KarpenterMachinePool for any Secrets, instances, versions,    *)
(* failures and pools of the name, one after the other: what is left in S3 *)
(* and of nodes is guarded by the finalizer, however stale the caches, and *)
(* a pool that reports ready can be booted from.                           *)
(***************************************************************************)
EXTENDS KarpenterMachinePool, FiniteSetTheorems, TLAPS

\* The steps that follow the finalizer, all steps of a pool that lives, and those of its deletion.
KeepSteps     == {"nodeClass", "nodePool", "readSecret", "put", "saveStatus"}
NormalSteps   == {"skew", "addFinalizer"} \cup KeepSteps
DeletionSteps == {"deleteNodePool", "deleteNodeClass", "list", "terminate", "deleteUserData"}

\* A pool no reconciliation has reported on.
Fresh(o) == ~o.fin /\ o.hash = NoData /\ ~o.ready

\* What a pool reports, S3 has.
Bootable(o) == (o.ready \/ o.hash # NoData) => s3 # NoData

\* The pool and its cache.  A pool is still in the cache as deleted when a new
\* one of the name is there: then no reconciliation has reported on the new one.
PoolInv ==
  /\ kmp.phase = "deleting" => kmp.fin
  /\ kmp.phase = "gone" => ~kmp.fin
  /\ kmpCache.phase = "deleting" => kmpCache.fin
  /\ (kmpCache.phase = "live" /\ kmpCache.fin) => kmp.fin
  /\ (kmpCache.phase = "deleting" /\ kmp.phase = "live") => Fresh(kmp)
  /\ ~kmp.fin => s3 = NoData
  /\ eks => s3 = NoData

\* What the worker has read and what it is about to write: a pool that was read
\* alive keeps its finalizer, one that was read as deleted is still deleted, or
\* gone, or replaced by a fresh one.
WorkerInv ==
  /\ before.phase # "gone"
  /\ pc \in NormalSteps => before.phase = "live"
  /\ pc \in DeletionSteps => before.phase = "deleting"
  /\ pc \in KeepSteps => kmp.fin
  /\ pc \in {"readSecret", "put"} => ~eks
  /\ pc = "put" => data # NoData
  /\ (before.phase = "live" /\ before.fin) => kmp.fin /\ mem.fin
  /\ (before.phase = "live" /\ pc # "idle" /\ kmpCache.phase = "deleting") => kmp.phase = "deleting"

DeletionInv ==
  before.phase = "deleting" =>
    /\ before.fin /\ mem.hash = before.hash /\ (mem.ready => before.ready)
    /\ pc \in DeletionSteps => mem.fin
    /\ ~mem.fin => s3 = NoData
    /\ kmp.phase = "live" => Fresh(kmp)
    /\ kmpCache.phase = "live" => Fresh(kmpCache)

BootInv ==
  ~eks => /\ kmp.phase = "live" => Bootable(kmp)
          /\ kmpCache.phase = "live" => Bootable(kmpCache)
          /\ before.phase = "live" => Bootable(mem)
          /\ pc = "saveStatus" => s3 # NoData

\* While the Cluster lives, the finalizer goes only after the NodePool was deleted.
NodeInv ==
  /\ (clusterCache = "deleting" \/ wc = "down" \/ clusterDeleted) => cluster = "deleting"
  /\ nodePool = "none" => NodeClaims = {}
  /\ cluster = "live" =>
       /\ ~kmp.fin => nodePool # "present"
       /\ (before.phase = "deleting" /\ (pc \in DeletionSteps \ {"deleteNodePool"} \/ ~mem.fin))
            => nodePool # "present"

IInv == TypeOK /\ PoolInv /\ WorkerInv /\ DeletionInv /\ BootInv /\ NodeInv

-----------------------------------------------------------------------------
(* The operators.                                                          *)

\* What a patch makes of o: the fields that differ between b and a are those of a.
PatchOf(m, o, b, a) ==
  /\ m \in Pools
  /\ m.fin <=> IF a.fin <=> b.fin THEN o.fin ELSE a.fin
  /\ m.hash = IF a.hash # b.hash THEN a.hash ELSE o.hash
  /\ m.ready <=> IF a.ready <=> b.ready THEN o.ready ELSE a.ready
  /\ m.phase = IF o.phase = "deleting" /\ ~m.fin THEN "gone" ELSE o.phase

LEMMA PatchedFacts ==
  ASSUME NEW o \in Pools, NEW b \in Pools, NEW a \in Pools
  PROVE  PatchOf(Patched(o, b, a), o, b, a)
<1>1. PICK f, h, r : /\ f = IF a.fin # b.fin THEN a.fin ELSE o.fin
                     /\ h = IF a.hash # b.hash THEN a.hash ELSE o.hash
                     /\ r = IF a.ready # b.ready THEN a.ready ELSE o.ready
  OBVIOUS
<1>2. a.fin \in BOOLEAN /\ b.fin \in BOOLEAN /\ a.ready \in BOOLEAN /\ b.ready \in BOOLEAN
  BY DEF Pools
<1>3. f \in BOOLEAN /\ h \in Data \cup {NoData} /\ r \in BOOLEAN
  BY <1>1 DEF Pools
<1>4. f <=> IF a.fin <=> b.fin THEN o.fin ELSE a.fin
  BY <1>1, <1>2
<1>5. r <=> IF a.ready <=> b.ready THEN o.ready ELSE a.ready
  BY <1>1, <1>2
<1> DEFINE n == [o EXCEPT !.fin = f, !.hash = h, !.ready = r]
<1>6. n \in Pools /\ n.fin = f /\ n.hash = h /\ n.ready = r /\ n.phase = o.phase
  BY <1>3 DEF Pools
<1>7. Patched(o, b, a) = IF n.phase = "deleting" /\ ~n.fin THEN [n EXCEPT !.phase = "gone"] ELSE n
  BY <1>1 DEF Patched
<1> HIDE DEF n
<1> DEFINE g == [n EXCEPT !.phase = "gone"]
<1>8. g \in Pools /\ g.fin = f /\ g.hash = h /\ g.ready = r /\ g.phase = "gone"
  BY <1>6 DEF Pools
<1> HIDE DEF g
<1>9. PICK m : m = Patched(o, b, a)
  OBVIOUS
<1>10. m = IF o.phase = "deleting" /\ ~f THEN g ELSE n
  BY <1>6, <1>7, <1>9 DEF g
<1>11. /\ m \in Pools /\ m.fin = f /\ m.hash = h /\ m.ready = r
       /\ m.phase = IF o.phase = "deleting" /\ ~f THEN "gone" ELSE o.phase
  BY <1>6, <1>8, <1>10
<1>12. PatchOf(m, o, b, a)
  BY <1>1, <1>4, <1>5, <1>11 DEF PatchOf
<1> QED
  BY <1>9, <1>12

LEMMA NewPoolFacts ==
  NewPool \in Pools /\ NewPool.phase = "live" /\ Fresh(NewPool)
<1>1. 1 \in Versions
  BY KarpenterAssumption DEF Versions
<1> QED
  BY <1>1 DEF NewPool, Pools, Fresh

LEMMA InitInv ==
  ASSUME Init PROVE IInv
<1>1. 1 \in Versions /\ 0 \in 0..MaxEdits /\ 0 \in 0..MaxFailures /\ 1 \in PoolNumbers
  BY KarpenterAssumption DEF Versions, PoolNumbers
<1>2. Cardinality(Instances) \in Nat
  BY KarpenterAssumption, FS_CardinalityType
<1>3. TypeOK
  <2>1. clusterDeleted \in BOOLEAN
    BY Zenon DEF Init
  <2>2. inst \in [Instances -> {"none", "claimed", "running", "shutting", "terminated"}]
    BY DEF Init
  <2> QED
    BY <1>1, <1>2, <2>1, <2>2, NewPoolFacts DEF Init, TypeOK, Calls
<1>4. NodeClaims = {}
  BY DEF Init, NodeClaims
<1> QED
  BY <1>3, <1>4, NewPoolFacts
     DEF Init, IInv, PoolInv, WorkerInv, DeletionInv, BootInv, NodeInv, Fresh, Bootable,
         KeepSteps, NormalSteps, DeletionSteps

-----------------------------------------------------------------------------
(* The steps of the worker.                                                *)

USE DEF KeepSteps, NormalSteps, DeletionSteps

\* A reconciliation ends, and its memory with it.
LEMMA FinishFacts ==
  ASSUME Finish
  PROVE  /\ pc' = "idle" /\ before' = NewPool /\ mem' = NewPool
         /\ clusterDeleted' \in BOOLEAN /\ ~clusterDeleted'
         /\ version' \in Versions /\ data' = NoData /\ listed' = {}
<1>1. 1 \in Versions
  BY KarpenterAssumption DEF Versions
<1>2. clusterDeleted' \in BOOLEAN
  BY Zenon DEF Finish
<1> QED
  BY <1>1, <1>2 DEF Finish, Goto

LEMMA LosePatchInv ==
  ASSUME IInv, LosePatch PROVE IInv'
<1>1. /\ failures' \in 0..MaxFailures
      /\ kmp' = kmp /\ pool' = pool /\ kmpCache' = kmpCache /\ cluster' = cluster
      /\ clusterCache' = clusterCache /\ mpVersion' = mpVersion /\ mpCache' = mpCache
      /\ cpVersion' = cpVersion /\ secret' = secret /\ hold' = hold /\ eks' = eks
      /\ replicas' = replicas /\ wc' = wc /\ nodePool' = nodePool /\ nodeClass' = nodeClass
      /\ inst' = inst /\ s3' = s3 /\ edits' = edits
  BY KarpenterAssumption
     DEF LosePatch, Failing, IInv, TypeOK, kmpVars, envVars, outVars
<1>2. Finish
  BY DEF LosePatch
<1>3. TypeOK'
  BY <1>1, <1>2, FinishFacts, NewPoolFacts DEF IInv, TypeOK
<1>4. PoolInv' /\ WorkerInv' /\ DeletionInv'
  BY <1>1, <1>2, FinishFacts, NewPoolFacts
     DEF IInv, PoolInv, WorkerInv, DeletionInv, Fresh
<1>5. BootInv' /\ NodeInv'
  BY <1>1, <1>2, FinishFacts, NewPoolFacts
     DEF IInv, BootInv, NodeInv, Fresh, Bootable, NodeClaims
<1> QED
  BY <1>3, <1>4, <1>5 DEF IInv

\* A reconciliation returns early.
LEMMA ReturnInv ==
  ASSUME IInv, pc # "idle", Return \/ NotReady, edits' = edits, failures' \in 0..MaxFailures,
         UNCHANGED <<kmpVars, envVars, readVars, outVars>>
  PROVE  IInv'
<1>1. /\ pc' = "patch"
      /\ kmp' = kmp /\ pool' = pool /\ kmpCache' = kmpCache /\ cluster' = cluster
      /\ clusterCache' = clusterCache /\ mpVersion' = mpVersion /\ mpCache' = mpCache
      /\ cpVersion' = cpVersion /\ secret' = secret /\ hold' = hold /\ eks' = eks
      /\ replicas' = replicas /\ before' = before /\ clusterDeleted' = clusterDeleted
      /\ version' = version /\ data' = data /\ listed' = listed /\ wc' = wc
      /\ nodePool' = nodePool /\ nodeClass' = nodeClass /\ inst' = inst /\ s3' = s3
      /\ edits' = edits /\ failures' \in 0..MaxFailures
  BY DEF Return, NotReady, Goto, kmpVars, envVars, readVars, outVars
<1>2. /\ mem' \in Pools /\ (mem'.fin <=> mem.fin) /\ mem'.hash = mem.hash
      /\ mem'.ready => mem.ready
  BY DEF Return, NotReady, IInv, TypeOK, Pools
<1>3. TypeOK'
  BY <1>1, <1>2 DEF IInv, TypeOK, Calls
<1>4. PoolInv' /\ WorkerInv' /\ DeletionInv'
  BY <1>1, <1>2 DEF IInv, PoolInv, WorkerInv, DeletionInv, Fresh
<1>5. BootInv' /\ NodeInv'
  BY <1>1, <1>2 DEF IInv, BootInv, NodeInv, Bootable, NodeClaims
<1> QED
  BY <1>3, <1>4, <1>5 DEF IInv

LEMMA FailInv ==
  ASSUME IInv, Fail PROVE IInv'
<1>1. pc # "idle" /\ failures' \in 0..MaxFailures /\ edits' = edits
  BY KarpenterAssumption DEF Fail, Failing, IInv, TypeOK, Calls
<1> QED
  BY <1>1, ReturnInv DEF Fail

\* Of an informer cache that may be old, the worker reads the phase, the
\* finalizer and the status of the pool.
LEMMA ReconcileInv ==
  ASSUME IInv, Reconcile PROVE IInv'
<1>1. /\ kmpCache.phase # "gone" /\ before' = kmpCache
      /\ clusterDeleted' = (clusterCache = "deleting")
      /\ version' = mpCache /\ data' = NoData /\ listed' = {}
      /\ pc' \in {"patch", "deleteNodePool", "skew"}
      /\ pc' = "deleteNodePool" => kmpCache.phase = "deleting" /\ mem' = kmpCache
      /\ pc' = "skew" => kmpCache.phase = "live" /\ mem' = kmpCache
      /\ kmp' = kmp /\ pool' = pool /\ kmpCache' = kmpCache /\ cluster' = cluster
      /\ clusterCache' = clusterCache /\ mpVersion' = mpVersion /\ mpCache' = mpCache
      /\ cpVersion' = cpVersion /\ secret' = secret /\ hold' = hold /\ eks' = eks
      /\ replicas' = replicas /\ wc' = wc /\ nodePool' = nodePool /\ nodeClass' = nodeClass
      /\ inst' = inst /\ s3' = s3 /\ edits' = edits /\ failures' = failures
  BY DEF Reconcile, Goto, IInv, TypeOK, Pools, kmpVars, envVars, outVars, boundVars
<1>2. /\ mem' \in Pools /\ (mem'.fin <=> kmpCache.fin) /\ mem'.hash = kmpCache.hash
      /\ mem'.ready => kmpCache.ready
  BY DEF Reconcile, IInv, TypeOK, Pools
<1>3. clusterDeleted' \in BOOLEAN /\ (clusterDeleted' <=> clusterCache = "deleting")
  <2>1. (clusterCache = "deleting") \in BOOLEAN
    OBVIOUS
  <2> QED
    BY <1>1, <2>1
<1>4. TypeOK'
  BY <1>1, <1>2, <1>3 DEF IInv, TypeOK, Calls
<1>5. PoolInv' /\ WorkerInv' /\ DeletionInv'
  BY <1>1, <1>2 DEF IInv, TypeOK, Pools, PoolInv, WorkerInv, DeletionInv, Fresh
<1>6. BootInv' /\ NodeInv'
  BY <1>1, <1>2, <1>3 DEF IInv, PoolInv, BootInv, NodeInv, Bootable, NodeClaims
<1> QED
  BY <1>4, <1>5, <1>6 DEF IInv

LEMMA CheckSkewInv ==
  ASSUME IInv, CheckSkew PROVE IInv'
<1>1. CASE pc' = "patch"
  <2>1. Return /\ pc # "idle" /\ failures' \in 0..MaxFailures /\ edits' = edits
    BY <1>1 DEF CheckSkew, Call, Return, Goto, IInv, TypeOK, boundVars
  <2> QED
    BY <2>1, ReturnInv DEF CheckSkew
<1>2. CASE pc' = "addFinalizer"
  <2>1. /\ pc = "skew"
        /\ kmp' = kmp /\ pool' = pool /\ kmpCache' = kmpCache /\ cluster' = cluster
        /\ clusterCache' = clusterCache /\ mpVersion' = mpVersion /\ mpCache' = mpCache
        /\ cpVersion' = cpVersion /\ secret' = secret /\ hold' = hold /\ eks' = eks
        /\ replicas' = replicas /\ before' = before /\ mem' = mem
        /\ clusterDeleted' = clusterDeleted /\ version' = version /\ data' = data
        /\ listed' = listed /\ wc' = wc /\ nodePool' = nodePool /\ nodeClass' = nodeClass
        /\ inst' = inst /\ s3' = s3 /\ edits' = edits /\ failures' = failures
    BY <1>2 DEF CheckSkew, Call, kmpVars, envVars, readVars, outVars, boundVars
  <2>2. TypeOK'
    BY <1>2, <2>1 DEF IInv, TypeOK, Calls
  <2>3. PoolInv' /\ WorkerInv' /\ DeletionInv' /\ BootInv' /\ NodeInv'
    BY <1>2, <2>1 DEF IInv, PoolInv, WorkerInv, DeletionInv, BootInv, NodeInv, Fresh, Bootable,
       NodeClaims
  <2> QED
    BY <2>2, <2>3 DEF IInv
<1> QED
  BY <1>1, <1>2 DEF CheckSkew, Goto

\* The finalizer is written by name: it may reach a later pool, never one that
\* is being deleted without it.
LEMMA AddFinalizerInv ==
  ASSUME IInv, AddFinalizer PROVE IInv'
<1>1. /\ pc = "addFinalizer" /\ mem' = [mem EXCEPT !.fin = TRUE]
      /\ \/ pc' = "patch" /\ kmp' = kmp
         \/ pc' = "nodeClass" /\ kmp' = Patched(kmp, before, mem') /\ kmp.phase # "gone"
      /\ pool' = pool /\ kmpCache' = kmpCache /\ cluster' = cluster
      /\ clusterCache' = clusterCache /\ mpVersion' = mpVersion /\ mpCache' = mpCache
      /\ cpVersion' = cpVersion /\ secret' = secret /\ hold' = hold /\ eks' = eks
      /\ replicas' = replicas /\ before' = before /\ clusterDeleted' = clusterDeleted
      /\ version' = version /\ data' = data /\ listed' = listed /\ wc' = wc
      /\ nodePool' = nodePool /\ nodeClass' = nodeClass /\ inst' = inst /\ s3' = s3
      /\ edits' = edits /\ failures' \in 0..MaxFailures
  BY KarpenterAssumption
     DEF AddFinalizer, Failing, Call, Goto, envVars, readVars, outVars, IInv, TypeOK
<1>2. before.phase = "live"
  BY <1>1 DEF IInv, WorkerInv
<1>3. mem' \in Pools /\ mem'.fin /\ mem'.hash = mem.hash /\ (mem'.ready <=> mem.ready)
  BY <1>1 DEF IInv, TypeOK, Pools
<1>4. /\ kmp' \in Pools /\ kmp'.phase = kmp.phase
      /\ kmp.fin => kmp'.fin
      /\ pc' = "nodeClass" => kmp'.fin
      /\ kmp'.hash \in {kmp.hash, mem.hash} /\ (kmp'.ready => kmp.ready \/ mem.ready)
  <2>1. CASE pc' = "patch"
    BY <1>1, <2>1 DEF IInv, TypeOK
  <2>2. CASE pc' = "nodeClass"
    <3>1. PatchOf(kmp', kmp, before, mem')
      BY <1>1, <1>3, <2>2, PatchedFacts DEF IInv, TypeOK
    <3>2. (before.fin => kmp.fin) /\ (kmp.phase = "deleting" => kmp.fin)
      BY <1>2 DEF IInv, PoolInv, WorkerInv
    <3> QED
      BY <1>3, <3>1, <3>2 DEF PatchOf
  <2> QED
    BY <1>1, <2>1, <2>2
<1>5. TypeOK'
  BY <1>1, <1>3, <1>4 DEF IInv, TypeOK, Calls
<1>6. PoolInv' /\ WorkerInv' /\ DeletionInv'
  BY <1>1, <1>2, <1>3, <1>4 DEF IInv, PoolInv, WorkerInv, DeletionInv, Fresh
<1>7. BootInv' /\ NodeInv'
  BY <1>1, <1>2, <1>3, <1>4 DEF IInv, BootInv, NodeInv, Bootable, NodeClaims
<1> QED
  BY <1>5, <1>6, <1>7 DEF IInv

LEMMA CreateOrUpdateEC2NodeClassInv ==
  ASSUME IInv, CreateOrUpdateEC2NodeClass PROVE IInv'
<1>1. CASE NotReady /\ nodeClass' = nodeClass
  <2>1. /\ pc # "idle" /\ edits' = edits /\ failures' \in 0..MaxFailures
        /\ UNCHANGED <<kmpVars, envVars, readVars, outVars>>
    BY <1>1 DEF CreateOrUpdateEC2NodeClass, Call, IInv, TypeOK, outVars, boundVars
  <2> QED
    BY <1>1, <2>1, ReturnInv
<1>2. CASE nodeClass' = mem.ami /\ Goto("nodePool") /\ mem' = mem
  <2>1. /\ pc = "nodeClass" /\ pc' = "nodePool" /\ nodeClass' = mem.ami
        /\ kmp' = kmp /\ pool' = pool /\ kmpCache' = kmpCache /\ cluster' = cluster
        /\ clusterCache' = clusterCache /\ mpVersion' = mpVersion /\ mpCache' = mpCache
        /\ cpVersion' = cpVersion /\ secret' = secret /\ hold' = hold /\ eks' = eks
        /\ replicas' = replicas /\ before' = before /\ mem' = mem
        /\ clusterDeleted' = clusterDeleted /\ version' = version /\ data' = data
        /\ listed' = listed /\ wc' = wc /\ nodePool' = nodePool /\ inst' = inst /\ s3' = s3
        /\ edits' = edits /\ failures' = failures
    BY <1>2 DEF CreateOrUpdateEC2NodeClass, Call, Goto, kmpVars, envVars, readVars, boundVars
  <2>2. TypeOK'
    BY <2>1 DEF IInv, TypeOK, Calls, Pools
  <2>3. PoolInv' /\ WorkerInv' /\ DeletionInv'
    BY <2>1 DEF IInv, PoolInv, WorkerInv, DeletionInv, Fresh
  <2>4. BootInv' /\ NodeInv'
    BY <2>1 DEF IInv, PoolInv, WorkerInv, DeletionInv, BootInv, NodeInv, Fresh, Bootable, NodeClaims
  <2> QED
    BY <2>2, <2>3, <2>4 DEF IInv
<1> QED
  BY <1>1, <1>2 DEF CreateOrUpdateEC2NodeClass

\* The finalizer is on the pool when its NodePool is made.
LEMMA CreateOrUpdateNodePoolInv ==
  ASSUME IInv, CreateOrUpdateNodePool PROVE IInv'
<1>1. CASE NotReady /\ nodePool' = nodePool
  <2>1. /\ pc # "idle" /\ edits' = edits /\ failures' \in 0..MaxFailures
        /\ UNCHANGED <<kmpVars, envVars, readVars, outVars>>
    BY <1>1 DEF CreateOrUpdateNodePool, Call, IInv, TypeOK, outVars, boundVars
  <2> QED
    BY <1>1, <2>1, ReturnInv
<1>2. CASE /\ nodePool' = IF nodePool = "none" THEN "present" ELSE nodePool
           /\ Goto(IF eks THEN "saveStatus" ELSE "readSecret") /\ mem' = mem
  <2>1. /\ pc = "nodePool" /\ pc' = IF eks THEN "saveStatus" ELSE "readSecret"
        /\ nodePool' = IF nodePool = "none" THEN "present" ELSE nodePool
        /\ kmp' = kmp /\ pool' = pool /\ kmpCache' = kmpCache /\ cluster' = cluster
        /\ clusterCache' = clusterCache /\ mpVersion' = mpVersion /\ mpCache' = mpCache
        /\ cpVersion' = cpVersion /\ secret' = secret /\ hold' = hold /\ eks' = eks
        /\ replicas' = replicas /\ before' = before /\ mem' = mem
        /\ clusterDeleted' = clusterDeleted /\ version' = version /\ data' = data
        /\ listed' = listed /\ wc' = wc /\ nodeClass' = nodeClass /\ inst' = inst /\ s3' = s3
        /\ edits' = edits /\ failures' = failures
    BY <1>2 DEF CreateOrUpdateNodePool, Call, Goto, kmpVars, envVars, readVars, boundVars
  <2>2. TypeOK'
    BY <2>1 DEF IInv, TypeOK, Calls
  <2>3. PoolInv' /\ WorkerInv' /\ DeletionInv'
    BY <2>1 DEF IInv, PoolInv, WorkerInv, DeletionInv, Fresh
  <2>4. BootInv' /\ NodeInv'
    BY <2>1 DEF IInv, PoolInv, WorkerInv, DeletionInv, BootInv, NodeInv, Fresh, Bootable, NodeClaims
  <2> QED
    BY <2>2, <2>3, <2>4 DEF IInv
<1> QED
  BY <1>1, <1>2 DEF CreateOrUpdateNodePool

\* A hash that was read of a pool that lives is that of an upload still there.
LEMMA ReadSecretInv ==
  ASSUME IInv, ReadSecret PROVE IInv'
<1>1. /\ pc = "readSecret" /\ data' = secret
      /\ pc' = IF mem.hash = secret THEN "saveStatus" ELSE "put"
      /\ kmp' = kmp /\ pool' = pool /\ kmpCache' = kmpCache /\ cluster' = cluster
      /\ clusterCache' = clusterCache /\ mpVersion' = mpVersion /\ mpCache' = mpCache
      /\ cpVersion' = cpVersion /\ secret' = secret /\ hold' = hold /\ eks' = eks
      /\ replicas' = replicas /\ before' = before /\ mem' = mem
      /\ clusterDeleted' = clusterDeleted /\ version' = version /\ listed' = listed /\ wc' = wc
      /\ nodePool' = nodePool /\ nodeClass' = nodeClass /\ inst' = inst /\ s3' = s3
      /\ edits' = edits /\ failures' = failures
  BY DEF ReadSecret, Call, Goto, kmpVars, envVars, outVars, boundVars
<1>2. secret # NoData
  BY KarpenterAssumption DEF IInv, TypeOK
<1>3. TypeOK'
  BY <1>1 DEF IInv, TypeOK, Calls
<1>4. PoolInv' /\ WorkerInv' /\ DeletionInv'
  BY <1>1, <1>2 DEF IInv, PoolInv, WorkerInv, DeletionInv, Fresh
<1>5. BootInv' /\ NodeInv'
  BY <1>1, <1>2 DEF IInv, WorkerInv, BootInv, NodeInv, Bootable, NodeClaims
<1> QED
  BY <1>3, <1>4, <1>5 DEF IInv

LEMMA PutUserDataInv ==
  ASSUME IInv, PutUserData PROVE IInv'
<1>1. /\ pc = "put" /\ pc' = "saveStatus" /\ s3' = data /\ mem' = [mem EXCEPT !.hash = data]
      /\ kmp' = kmp /\ pool' = pool /\ kmpCache' = kmpCache /\ cluster' = cluster
      /\ clusterCache' = clusterCache /\ mpVersion' = mpVersion /\ mpCache' = mpCache
      /\ cpVersion' = cpVersion /\ secret' = secret /\ hold' = hold /\ eks' = eks
      /\ replicas' = replicas /\ before' = before /\ clusterDeleted' = clusterDeleted
      /\ version' = version /\ data' = data /\ listed' = listed /\ wc' = wc
      /\ nodePool' = nodePool /\ nodeClass' = nodeClass /\ inst' = inst /\ edits' = edits
      /\ failures' = failures
  BY DEF PutUserData, Call, Goto, kmpVars, envVars, readVars, boundVars
<1>2. data # NoData /\ data \in Data \cup {NoData} /\ before.phase = "live" /\ kmp.fin /\ ~eks
  BY <1>1 DEF IInv, TypeOK, WorkerInv
<1>3. mem' \in Pools /\ (mem'.fin <=> mem.fin)
  BY <1>1, <1>2 DEF IInv, TypeOK, Pools
<1>4. TypeOK'
  BY <1>1, <1>2, <1>3 DEF IInv, TypeOK, Calls
<1>5. PoolInv' /\ WorkerInv' /\ DeletionInv'
  BY <1>1, <1>2, <1>3 DEF IInv, PoolInv, WorkerInv, DeletionInv, Fresh
<1>6. BootInv' /\ NodeInv'
  BY <1>1, <1>2, <1>3 DEF IInv, BootInv, NodeInv, Bootable, NodeClaims
<1> QED
  BY <1>4, <1>5, <1>6 DEF IInv

LEMMA NodeClaimsCount ==
  Cardinality(NodeClaims) \in 0..Cardinality(Instances)
<1>1. NodeClaims \subseteq Instances
  BY DEF NodeClaims
<1>2. /\ Cardinality(NodeClaims) <= Cardinality(Instances)
      /\ Cardinality(NodeClaims) \in Nat /\ Cardinality(Instances) \in Nat
  BY <1>1, KarpenterAssumption, FS_Subset, FS_CardinalityType
<1> QED
  BY <1>2

LEMMA SaveStatusInv ==
  ASSUME IInv, SaveStatus PROVE IInv'
<1>1. CASE NotReady /\ replicas' = replicas
  <2>1. /\ pc # "idle" /\ edits' = edits /\ failures' \in 0..MaxFailures
        /\ UNCHANGED <<kmpVars, envVars, readVars, outVars>>
    BY <1>1 DEF SaveStatus, Call, IInv, TypeOK, outVars, boundVars
  <2> QED
    BY <1>1, <2>1, ReturnInv
<1>2. CASE /\ replicas' = Cardinality(NodeClaims) /\ mem' = [mem EXCEPT !.ready = TRUE]
           /\ Goto("patch")
  <2>1. /\ pc = "saveStatus" /\ pc' = "patch" /\ mem' = [mem EXCEPT !.ready = TRUE]
        /\ replicas' \in 0..Cardinality(Instances)
        /\ kmp' = kmp /\ pool' = pool /\ kmpCache' = kmpCache /\ cluster' = cluster
        /\ clusterCache' = clusterCache /\ mpVersion' = mpVersion /\ mpCache' = mpCache
        /\ cpVersion' = cpVersion /\ secret' = secret /\ hold' = hold /\ eks' = eks
        /\ before' = before /\ clusterDeleted' = clusterDeleted /\ version' = version
        /\ data' = data /\ listed' = listed /\ wc' = wc /\ nodePool' = nodePool
        /\ nodeClass' = nodeClass /\ inst' = inst /\ s3' = s3 /\ edits' = edits
        /\ failures' = failures
    BY <1>2, NodeClaimsCount DEF SaveStatus, Call, Goto, kmpVars, envVars, readVars, boundVars
  <2>2. mem' \in Pools /\ (mem'.fin <=> mem.fin) /\ mem'.hash = mem.hash
    BY <2>1 DEF IInv, TypeOK, Pools
  <2>3. TypeOK'
    BY <2>1, <2>2 DEF IInv, TypeOK, Calls
  <2>4. PoolInv' /\ WorkerInv' /\ DeletionInv'
    BY <2>1, <2>2 DEF IInv, PoolInv, WorkerInv, DeletionInv, Fresh
  <2>5. BootInv' /\ NodeInv'
    BY <2>1, <2>2 DEF IInv, WorkerInv, BootInv, NodeInv, Bootable, NodeClaims
  <2> QED
    BY <2>3, <2>4, <2>5 DEF IInv
<1> QED
  BY <1>1, <1>2 DEF SaveStatus

\* What the deferred patch writes, wherever it lands: the finalizer of a pool
\* that was read alive stays, one that was read as deleted loses it.
LEMMA PatchLands ==
  ASSUME IInv, pc = "patch", kmp' = IF kmp.phase = "gone" THEN kmp ELSE Patched(kmp, before, mem)
  PROVE  /\ kmp' \in Pools
         /\ before.phase = "live" =>
              /\ kmp'.phase = kmp.phase /\ (kmp.fin => kmp'.fin)
              /\ kmp'.hash \in {kmp.hash, mem.hash} /\ (kmp'.ready => kmp.ready \/ mem.ready)
              /\ (kmp'.fin /\ ~kmp.fin) => kmp.phase = "live"
         /\ before.phase = "deleting" =>
              /\ kmp'.hash = kmp.hash /\ (kmp'.ready => kmp.ready)
              /\ kmp'.fin => kmp.fin
              /\ (kmp.fin /\ ~kmp'.fin) => ~mem.fin /\ kmp.phase = "deleting" /\ kmp'.phase = "gone"
              /\ (kmp.fin /\ kmp'.fin) => kmp'.phase = kmp.phase
              /\ ~kmp.fin => kmp'.phase = kmp.phase
<1>1. CASE kmp.phase = "gone"
  BY <1>1 DEF IInv, TypeOK
<1>2. CASE kmp.phase # "gone"
  <2>1. PatchOf(kmp', kmp, before, mem)
    BY <1>2, PatchedFacts DEF IInv, TypeOK
  <2>2. kmp.phase = "deleting" => kmp.fin
    BY DEF IInv, PoolInv
  <2>3. kmp.phase \in {"live", "deleting"}
    BY <1>2 DEF IInv, TypeOK, Pools
  <2>4. CASE before.phase = "live"
    BY <2>1, <2>2, <2>3, <2>4 DEF PatchOf, IInv, WorkerInv
  <2>5. CASE before.phase = "deleting"
    <3>1. /\ before.fin /\ mem.hash = before.hash /\ (mem.ready => before.ready)
          /\ kmp.phase = "live" => ~kmp.fin
      BY <2>5 DEF IInv, DeletionInv, Fresh
    <3> QED
      BY <2>1, <2>2, <2>3, <2>5, <3>1 DEF PatchOf
  <2> QED
    BY <2>1, <2>4, <2>5 DEF PatchOf
<1> QED
  BY <1>1, <1>2

LEMMA DeferredPatchInv ==
  ASSUME IInv, DeferredPatch PROVE IInv'
<1>1. /\ pc = "patch" /\ kmp' = IF kmp.phase = "gone" THEN kmp ELSE Patched(kmp, before, mem)
      /\ pool' = pool /\ kmpCache' = kmpCache /\ cluster' = cluster
      /\ clusterCache' = clusterCache /\ mpVersion' = mpVersion /\ mpCache' = mpCache
      /\ cpVersion' = cpVersion /\ secret' = secret /\ hold' = hold /\ eks' = eks
      /\ replicas' = replicas /\ wc' = wc /\ nodePool' = nodePool /\ nodeClass' = nodeClass
      /\ inst' = inst /\ s3' = s3 /\ edits' = edits /\ failures' = failures
  BY DEF DeferredPatch, Call, envVars, outVars, boundVars
<1>2. Finish
  BY DEF DeferredPatch
<1>3. before.phase \in {"live", "deleting"}
  BY DEF IInv, TypeOK, Pools, WorkerInv
<1>4. kmp' \in Pools
  BY <1>1, PatchLands
<1>5. TypeOK'
  BY <1>1, <1>2, <1>4, FinishFacts, NewPoolFacts DEF IInv, TypeOK
<1>6. CASE before.phase = "live"
  <2>1. /\ kmp'.phase = kmp.phase /\ (kmp.fin => kmp'.fin)
        /\ kmp'.hash \in {kmp.hash, mem.hash} /\ (kmp'.ready => kmp.ready \/ mem.ready)
        /\ (kmp'.fin /\ ~kmp.fin) => kmp.phase = "live"
    BY <1>1, <1>6, PatchLands
  <2>2. PoolInv' /\ WorkerInv' /\ DeletionInv'
    BY <1>1, <1>2, <1>6, <2>1, FinishFacts, NewPoolFacts
       DEF IInv, PoolInv, WorkerInv, DeletionInv, Fresh
  <2>3. BootInv' /\ NodeInv'
    BY <1>1, <1>2, <1>6, <2>1, FinishFacts, NewPoolFacts
       DEF IInv, BootInv, NodeInv, Fresh, Bootable, NodeClaims
  <2> QED
    BY <1>5, <2>2, <2>3 DEF IInv
<1>7. CASE before.phase = "deleting"
  <2>1. /\ kmp'.hash = kmp.hash /\ (kmp'.ready => kmp.ready)
        /\ kmp'.fin => kmp.fin
        /\ (kmp.fin /\ ~kmp'.fin) => ~mem.fin /\ kmp.phase = "deleting" /\ kmp'.phase = "gone"
        /\ (kmp.fin /\ kmp'.fin) => kmp'.phase = kmp.phase
        /\ ~kmp.fin => kmp'.phase = kmp.phase
    BY <1>1, <1>7, PatchLands
  <2>2. PoolInv' /\ WorkerInv' /\ DeletionInv'
    BY <1>1, <1>2, <1>7, <2>1, FinishFacts, NewPoolFacts
       DEF IInv, PoolInv, WorkerInv, DeletionInv, Fresh
  <2>3. BootInv' /\ NodeInv'
    BY <1>1, <1>2, <1>7, <2>1, FinishFacts, NewPoolFacts
       DEF IInv, DeletionInv, BootInv, NodeInv, Fresh, Bootable, NodeClaims
  <2> QED
    BY <1>5, <2>2, <2>3 DEF IInv
<1> QED
  BY <1>3, <1>6, <1>7

-----------------------------------------------------------------------------
(* The steps of a deletion.                                                *)

\* While the Cluster lives the workload cluster is up, and an error ends the
\* reconciliation: the NodePool is deleted before the instances are looked at.
LEMMA DeleteNodePoolInv ==
  ASSUME IInv, DeleteNodePool PROVE IInv'
<1>1. /\ pc = "deleteNodePool" /\ failures' \in 0..MaxFailures
      /\ pc' \in {"deleteNodeClass", "list", "patch"}
      /\ \/ pc' = "deleteNodeClass" /\ nodePool' = IF nodePool = "present" THEN "deleting" ELSE nodePool
         \/ nodePool' = nodePool /\ (pc' = "patch" \/ clusterDeleted)
      /\ kmp' = kmp /\ pool' = pool /\ kmpCache' = kmpCache /\ cluster' = cluster
      /\ clusterCache' = clusterCache /\ mpVersion' = mpVersion /\ mpCache' = mpCache
      /\ cpVersion' = cpVersion /\ secret' = secret /\ hold' = hold /\ eks' = eks
      /\ replicas' = replicas /\ before' = before /\ mem' = mem
      /\ clusterDeleted' = clusterDeleted /\ version' = version /\ data' = data
      /\ listed' = listed /\ wc' = wc /\ nodeClass' = nodeClass /\ inst' = inst /\ s3' = s3
      /\ edits' = edits
  BY KarpenterAssumption
     DEF DeleteNodePool, Call, Goto, OnDeleteError, Failing, IInv, TypeOK, kmpVars, envVars, readVars
<1>2. TypeOK'
  BY <1>1 DEF IInv, TypeOK, Calls
<1>3. PoolInv' /\ WorkerInv' /\ DeletionInv'
  BY <1>1 DEF IInv, PoolInv, WorkerInv, DeletionInv, Fresh
<1>4. BootInv' /\ NodeInv'
  BY <1>1 DEF IInv, PoolInv, WorkerInv, DeletionInv, BootInv, NodeInv, Fresh, Bootable, NodeClaims
<1> QED
  BY <1>2, <1>3, <1>4 DEF IInv

LEMMA DeleteEC2NodeClassInv ==
  ASSUME IInv, DeleteEC2NodeClass PROVE IInv'
<1>1. /\ pc = "deleteNodeClass" /\ pc' \in {"list", "patch"}
      /\ nodeClass' \in {0, nodeClass} /\ failures' \in 0..MaxFailures
      /\ kmp' = kmp /\ pool' = pool /\ kmpCache' = kmpCache /\ cluster' = cluster
      /\ clusterCache' = clusterCache /\ mpVersion' = mpVersion /\ mpCache' = mpCache
      /\ cpVersion' = cpVersion /\ secret' = secret /\ hold' = hold /\ eks' = eks
      /\ replicas' = replicas /\ before' = before /\ mem' = mem
      /\ clusterDeleted' = clusterDeleted /\ version' = version /\ data' = data
      /\ listed' = listed /\ wc' = wc /\ nodePool' = nodePool /\ inst' = inst /\ s3' = s3
      /\ edits' = edits
  BY KarpenterAssumption
     DEF DeleteEC2NodeClass, Call, Goto, OnDeleteError, Failing, IInv, TypeOK, kmpVars, envVars, readVars
<1>2. TypeOK'
  BY <1>1 DEF IInv, TypeOK, Calls
<1>3. PoolInv' /\ WorkerInv' /\ DeletionInv'
  BY <1>1 DEF IInv, PoolInv, WorkerInv, DeletionInv, Fresh
<1>4. BootInv' /\ NodeInv'
  BY <1>1 DEF IInv, PoolInv, WorkerInv, DeletionInv, BootInv, NodeInv, Fresh, Bootable, NodeClaims
<1> QED
  BY <1>2, <1>3, <1>4 DEF IInv

LEMMA ListInstancesInv ==
  ASSUME IInv, ListInstances PROVE IInv'
<1>1. /\ pc = "list" /\ listed' \subseteq Instances
      /\ \/ pc' \in {"terminate", "patch", "deleteUserData"} /\ mem' = mem
         \/ pc' = "patch" /\ mem' = [mem EXCEPT !.fin = FALSE] /\ eks
      /\ kmp' = kmp /\ pool' = pool /\ kmpCache' = kmpCache /\ cluster' = cluster
      /\ clusterCache' = clusterCache /\ mpVersion' = mpVersion /\ mpCache' = mpCache
      /\ cpVersion' = cpVersion /\ secret' = secret /\ hold' = hold /\ eks' = eks
      /\ replicas' = replicas /\ before' = before /\ clusterDeleted' = clusterDeleted
      /\ version' = version /\ data' = data /\ wc' = wc /\ nodePool' = nodePool
      /\ nodeClass' = nodeClass /\ inst' = inst /\ s3' = s3 /\ edits' = edits
      /\ failures' = failures
  BY DEF ListInstances, NonTerminated, Call, Goto, kmpVars, envVars, outVars, boundVars
<1>2. /\ mem' \in Pools /\ mem'.hash = mem.hash /\ (mem'.ready <=> mem.ready)
      /\ (mem'.fin <=> mem.fin) \/ (pc' = "patch" /\ ~mem'.fin /\ eks)
  BY <1>1 DEF IInv, TypeOK, Pools
<1>3. pc' \in {"terminate", "patch", "deleteUserData"}
  BY <1>1
<1>4. TypeOK'
  BY <1>1, <1>2 DEF IInv, TypeOK, Calls
<1>5. /\ pc = "list" /\ before.phase = "deleting"
      /\ kmp' = kmp /\ kmpCache' = kmpCache /\ cluster' = cluster
      /\ clusterCache' = clusterCache /\ eks' = eks /\ before' = before
      /\ clusterDeleted' = clusterDeleted /\ data' = data /\ wc' = wc /\ nodePool' = nodePool
      /\ inst' = inst /\ s3' = s3
  BY <1>1 DEF IInv, WorkerInv
<1>6. PoolInv' /\ WorkerInv' /\ DeletionInv'
  BY <1>2, <1>3, <1>5 DEF IInv, PoolInv, WorkerInv, DeletionInv, Fresh
<1>7. BootInv' /\ NodeInv'
  BY <1>2, <1>3, <1>5 DEF IInv, PoolInv, WorkerInv, DeletionInv, BootInv, NodeInv, Fresh, Bootable, NodeClaims
<1> QED
  BY <1>4, <1>6, <1>7 DEF IInv

LEMMA TerminateInstancesInv ==
  ASSUME IInv, TerminateInstances PROVE IInv'
<1>1. /\ pc = "terminate" /\ pc' = "patch"
      /\ inst' = [i \in Instances |->
                    IF i \in listed /\ inst[i] = "running" THEN "shutting" ELSE inst[i]]
      /\ kmp' = kmp /\ pool' = pool /\ kmpCache' = kmpCache /\ cluster' = cluster
      /\ clusterCache' = clusterCache /\ mpVersion' = mpVersion /\ mpCache' = mpCache
      /\ cpVersion' = cpVersion /\ secret' = secret /\ hold' = hold /\ eks' = eks
      /\ replicas' = replicas /\ before' = before /\ mem' = mem
      /\ clusterDeleted' = clusterDeleted /\ version' = version /\ data' = data
      /\ listed' = listed /\ wc' = wc /\ nodePool' = nodePool /\ nodeClass' = nodeClass
      /\ s3' = s3 /\ edits' = edits /\ failures' = failures
  BY DEF TerminateInstances, Call, Return, Goto, kmpVars, envVars, readVars, boundVars
<1>2. /\ inst' \in [Instances -> {"none", "claimed", "running", "shutting", "terminated"}]
      /\ NodeClaims' \subseteq NodeClaims
  BY <1>1 DEF IInv, TypeOK, NodeClaims
<1>3. TypeOK'
  BY <1>1, <1>2 DEF IInv, TypeOK, Calls
<1>4. PoolInv' /\ WorkerInv' /\ DeletionInv'
  BY <1>1 DEF IInv, PoolInv, WorkerInv, DeletionInv, Fresh
<1>5. BootInv' /\ NodeInv'
  BY <1>1, <1>2 DEF IInv, WorkerInv, DeletionInv, BootInv, NodeInv, Bootable
<1> QED
  BY <1>3, <1>4, <1>5 DEF IInv

\* Only of a pool that was read as deleted: one of the name that lives is fresh.
LEMMA DeleteUserDataInv ==
  ASSUME IInv, DeleteUserData PROVE IInv'
<1>1. /\ pc = "deleteUserData" /\ pc' = "patch" /\ s3' = NoData
      /\ mem' = [mem EXCEPT !.fin = FALSE]
      /\ kmp' = kmp /\ pool' = pool /\ kmpCache' = kmpCache /\ cluster' = cluster
      /\ clusterCache' = clusterCache /\ mpVersion' = mpVersion /\ mpCache' = mpCache
      /\ cpVersion' = cpVersion /\ secret' = secret /\ hold' = hold /\ eks' = eks
      /\ replicas' = replicas /\ before' = before /\ clusterDeleted' = clusterDeleted
      /\ version' = version /\ data' = data /\ listed' = listed /\ wc' = wc
      /\ nodePool' = nodePool /\ nodeClass' = nodeClass /\ inst' = inst /\ edits' = edits
      /\ failures' = failures
  BY DEF DeleteUserData, Call, Goto, kmpVars, envVars, readVars, boundVars
<1>2. mem' \in Pools /\ mem'.hash = mem.hash /\ (mem'.ready <=> mem.ready) /\ ~mem'.fin
  BY <1>1 DEF IInv, TypeOK, Pools
<1>3. before.phase = "deleting"
  BY <1>1 DEF IInv, WorkerInv
<1>4. TypeOK'
  BY <1>1, <1>2 DEF IInv, TypeOK, Calls
<1>5. PoolInv' /\ WorkerInv' /\ DeletionInv'
  BY <1>1, <1>2, <1>3 DEF IInv, PoolInv, WorkerInv, DeletionInv, Fresh
<1>6. BootInv' /\ NodeInv'
  BY <1>1, <1>2, <1>3 DEF IInv, PoolInv, WorkerInv, DeletionInv, BootInv, NodeInv, Fresh, Bootable, NodeClaims
<1> QED
  BY <1>4, <1>5, <1>6 DEF IInv

-----------------------------------------------------------------------------
(* Karpenter, users, the watches.                                          *)

\* NodeClaims come only with a NodePool.
LEMMA KarpenterInv ==
  ASSUME IInv, Karpenter PROVE IInv'
<1>1. /\ nodePool' \in {nodePool, "none"}
      /\ kmp' = kmp /\ pool' = pool /\ kmpCache' = kmpCache /\ cluster' = cluster
      /\ clusterCache' = clusterCache /\ mpVersion' = mpVersion /\ mpCache' = mpCache
      /\ cpVersion' = cpVersion /\ secret' = secret /\ hold' = hold /\ eks' = eks
      /\ replicas' = replicas /\ pc' = pc /\ before' = before /\ mem' = mem
      /\ clusterDeleted' = clusterDeleted /\ version' = version /\ data' = data
      /\ listed' = listed /\ wc' = wc /\ nodeClass' = nodeClass /\ s3' = s3 /\ edits' = edits
      /\ failures' = failures
  BY DEF Karpenter, Provision, Launch, Drain, Terminated, NodePoolGone, kmpVars, envVars, readVars,
     boundVars
<1>2. /\ inst' \in [Instances -> {"none", "claimed", "running", "shutting", "terminated"}]
      /\ NodeClaims' \subseteq NodeClaims \/ (nodePool = "present" /\ nodePool' = nodePool)
      /\ (nodePool' = "none" /\ nodePool # "none") => NodeClaims' = {}
  <2>1. ASSUME NEW i \in Instances, Provision(i) \/ Launch(i) \/ Drain(i) \/ Terminated(i)
        PROVE  /\ inst' \in [Instances -> {"none", "claimed", "running", "shutting", "terminated"}]
               /\ NodeClaims' \subseteq NodeClaims \/ nodePool = "present"
               /\ nodePool' = nodePool
    BY <2>1 DEF Provision, Launch, Drain, Terminated, NodeClaims, IInv, TypeOK
  <2>2. CASE NodePoolGone
    BY <2>2 DEF NodePoolGone, NodeClaims, IInv, TypeOK
  <2> QED
    BY <2>1, <2>2 DEF Karpenter
<1>3. TypeOK'
  BY <1>1, <1>2 DEF IInv, TypeOK
<1>4. PoolInv' /\ WorkerInv' /\ DeletionInv'
  BY <1>1 DEF IInv, PoolInv, WorkerInv, DeletionInv, Fresh
<1>5. BootInv' /\ NodeInv'
  BY <1>1, <1>2 DEF IInv, TypeOK, BootInv, NodeInv, Bootable
<1> QED
  BY <1>3, <1>4, <1>5 DEF IInv

\* A pool that carries the finalizer is only marked as deleted.
LEMMA DeletePoolInv ==
  ASSUME IInv, DeletePool PROVE IInv'
<1>1. /\ kmp.phase = "live"
      /\ kmp' = [kmp EXCEPT !.phase = IF kmp.fin THEN "deleting" ELSE "gone"]
      /\ pool' = pool /\ kmpCache' = kmpCache /\ cluster' = cluster
      /\ clusterCache' = clusterCache /\ mpVersion' = mpVersion /\ mpCache' = mpCache
      /\ cpVersion' = cpVersion /\ secret' = secret /\ hold' = hold /\ eks' = eks
      /\ replicas' = replicas /\ pc' = pc /\ before' = before /\ mem' = mem
      /\ clusterDeleted' = clusterDeleted /\ version' = version /\ data' = data
      /\ listed' = listed /\ wc' = wc /\ nodePool' = nodePool /\ nodeClass' = nodeClass
      /\ inst' = inst /\ s3' = s3 /\ edits' = edits /\ failures' = failures
  BY DEF DeletePool, envVars, readVars, outVars, boundVars
<1>2. PICK p \in {"deleting", "gone"} : p = IF kmp.fin THEN "deleting" ELSE "gone"
  OBVIOUS
<1>3. /\ kmp' \in Pools /\ kmp'.phase = p /\ (kmp'.fin <=> kmp.fin)
      /\ kmp'.hash = kmp.hash /\ (kmp'.ready <=> kmp.ready)
  BY <1>1, <1>2 DEF IInv, TypeOK, Pools
<1>4. TypeOK'
  BY <1>1, <1>3 DEF IInv, TypeOK
<1>5. PoolInv' /\ WorkerInv' /\ DeletionInv'
  BY <1>1, <1>2, <1>3 DEF IInv, PoolInv, WorkerInv, DeletionInv, Fresh
<1>6. BootInv' /\ NodeInv'
  BY <1>1, <1>2, <1>3 DEF IInv, PoolInv, WorkerInv, DeletionInv, BootInv, NodeInv, Fresh, Bootable, NodeClaims
<1> QED
  BY <1>4, <1>5, <1>6 DEF IInv

LEMMA RecreatePoolInv ==
  ASSUME IInv, RecreatePool PROVE IInv'
<1>1. /\ kmp.phase = "gone" /\ kmp' = NewPool /\ pool' \in PoolNumbers
      /\ kmpCache' = kmpCache /\ cluster' = cluster /\ clusterCache' = clusterCache
      /\ mpVersion' = mpVersion /\ mpCache' = mpCache /\ cpVersion' = cpVersion
      /\ secret' = secret /\ hold' = hold /\ eks' = eks /\ replicas' = replicas /\ pc' = pc
      /\ before' = before /\ mem' = mem /\ clusterDeleted' = clusterDeleted
      /\ version' = version /\ data' = data /\ listed' = listed /\ wc' = wc
      /\ nodePool' = nodePool /\ nodeClass' = nodeClass /\ inst' = inst /\ s3' = s3
      /\ edits' = edits /\ failures' = failures
  BY KarpenterAssumption
     DEF RecreatePool, PoolNumbers, IInv, TypeOK, envVars, readVars, outVars, boundVars
<1>2. TypeOK'
  BY <1>1, NewPoolFacts DEF IInv, TypeOK
<1>3. PoolInv' /\ WorkerInv' /\ DeletionInv'
  BY <1>1, NewPoolFacts DEF IInv, PoolInv, WorkerInv, DeletionInv, Fresh
<1>4. BootInv' /\ NodeInv'
  BY <1>1, NewPoolFacts DEF IInv, PoolInv, WorkerInv, DeletionInv, BootInv, NodeInv, Fresh, Bootable, NodeClaims
<1> QED
  BY <1>2, <1>3, <1>4 DEF IInv

LEMMA ClusterInv ==
  ASSUME IInv, DeleteCluster \/ WorkloadClusterDown \/ SyncCluster PROVE IInv'
<1>1. /\ cluster' \in {cluster, "deleting"} /\ wc' \in {wc, "down"} /\ clusterCache' \in {clusterCache, cluster}
      /\ wc' # wc => cluster = "deleting"
      /\ kmp' = kmp /\ pool' = pool /\ kmpCache' = kmpCache /\ mpVersion' = mpVersion
      /\ mpCache' = mpCache /\ cpVersion' = cpVersion /\ secret' = secret /\ hold' = hold
      /\ eks' = eks /\ replicas' = replicas /\ pc' = pc /\ before' = before /\ mem' = mem
      /\ clusterDeleted' = clusterDeleted /\ version' = version /\ data' = data
      /\ listed' = listed /\ nodePool' = nodePool /\ nodeClass' = nodeClass /\ inst' = inst
      /\ s3' = s3 /\ edits' = edits /\ failures' = failures
  BY DEF DeleteCluster, WorkloadClusterDown, SyncCluster, kmpVars, envVars, readVars, outVars,
     boundVars
<1>2. TypeOK'
  BY <1>1 DEF IInv, TypeOK
<1>3. PoolInv' /\ WorkerInv' /\ DeletionInv'
  BY <1>1 DEF IInv, PoolInv, WorkerInv, DeletionInv, Fresh
<1>4. BootInv' /\ NodeInv'
  BY <1>1 DEF IInv, PoolInv, WorkerInv, DeletionInv, BootInv, NodeInv, Fresh, Bootable, NodeClaims
<1> QED
  BY <1>2, <1>3, <1>4 DEF IInv

\* The cache skips what happened in between, but never goes back.
LEMMA SyncPoolInv ==
  ASSUME IInv, SyncPool PROVE IInv'
<1>1. /\ kmpCache' = kmp
      /\ kmp' = kmp /\ pool' = pool /\ cluster' = cluster /\ clusterCache' = clusterCache
      /\ mpVersion' = mpVersion /\ mpCache' = mpCache /\ cpVersion' = cpVersion
      /\ secret' = secret /\ hold' = hold /\ eks' = eks /\ replicas' = replicas /\ pc' = pc
      /\ before' = before /\ mem' = mem /\ clusterDeleted' = clusterDeleted
      /\ version' = version /\ data' = data /\ listed' = listed /\ wc' = wc
      /\ nodePool' = nodePool /\ nodeClass' = nodeClass /\ inst' = inst /\ s3' = s3
      /\ edits' = edits /\ failures' = failures
  BY DEF SyncPool, envVars, readVars, outVars, boundVars
<1>2. TypeOK'
  BY <1>1 DEF IInv, TypeOK
<1>3. PoolInv' /\ WorkerInv' /\ DeletionInv'
  BY <1>1 DEF IInv, PoolInv, WorkerInv, DeletionInv, Fresh
<1>4. BootInv' /\ NodeInv'
  BY <1>1 DEF IInv, PoolInv, WorkerInv, DeletionInv, BootInv, NodeInv, Fresh, Bootable, NodeClaims
<1> QED
  BY <1>2, <1>3, <1>4 DEF IInv

\* What others change of versions, Secret and holds.
LEMMA EditsInv ==
  ASSUME IInv, Edits \/ SyncMachinePool \/ UNCHANGED vars PROVE IInv'
<1>1. /\ kmp' = kmp \/ (kmp.ami < mpVersion /\ kmp' = [kmp EXCEPT !.ami = kmp.ami + 1])
      /\ edits' \in 0..MaxEdits /\ secret' \in Data /\ hold' \in {"none", "paused", "unready"}
      /\ {mpVersion', mpCache', cpVersion'} \subseteq Versions
      /\ pool' = pool /\ kmpCache' = kmpCache /\ cluster' = cluster
      /\ clusterCache' = clusterCache /\ eks' = eks /\ replicas' = replicas /\ pc' = pc
      /\ before' = before /\ mem' = mem /\ clusterDeleted' = clusterDeleted
      /\ version' = version /\ data' = data /\ listed' = listed /\ wc' = wc
      /\ nodePool' = nodePool /\ nodeClass' = nodeClass /\ inst' = inst /\ s3' = s3
      /\ failures' = failures
  BY KarpenterAssumption
     DEF Edits, EditSecret, UpgradeControlPlane, UpgradeMachinePool, UpgradePool, ChangeHold, Edit,
         SyncMachinePool, IInv, TypeOK, Versions, vars, kmpVars, envVars, readVars, outVars, boundVars
<1>2. /\ kmp' \in Pools /\ kmp'.phase = kmp.phase /\ (kmp'.fin <=> kmp.fin)
      /\ kmp'.hash = kmp.hash /\ (kmp'.ready <=> kmp.ready)
  <2>1. kmp.ami < mpVersion => kmp.ami + 1 \in Versions
    BY KarpenterAssumption DEF IInv, TypeOK, Pools, Versions
  <2> QED
    BY <1>1, <2>1 DEF IInv, TypeOK, Pools
<1>3. TypeOK'
  BY <1>1, <1>2 DEF IInv, TypeOK
<1>4. PoolInv' /\ WorkerInv' /\ DeletionInv'
  BY <1>1, <1>2 DEF IInv, PoolInv, WorkerInv, DeletionInv, Fresh
<1>5. BootInv' /\ NodeInv'
  BY <1>1, <1>2 DEF IInv, PoolInv, WorkerInv, DeletionInv, BootInv, NodeInv, Fresh, Bootable, NodeClaims
<1> QED
  BY <1>3, <1>4, <1>5 DEF IInv

LEMMA NextInv ==
  ASSUME IInv, [Next]_vars PROVE IInv'
<1>1. CASE Worker
  BY <1>1, CheckSkewInv, AddFinalizerInv, CreateOrUpdateEC2NodeClassInv, CreateOrUpdateNodePoolInv,
     ReadSecretInv, PutUserDataInv, SaveStatusInv, DeleteNodePoolInv, DeleteEC2NodeClassInv,
     ListInstancesInv, TerminateInstancesInv, DeleteUserDataInv, DeferredPatchInv DEF Worker
<1>2. CASE Reconcile \/ Fail \/ LosePatch \/ Karpenter
  BY <1>2, ReconcileInv, FailInv, LosePatchInv, KarpenterInv
<1>3. CASE \/ DeletePool \/ RecreatePool \/ DeleteCluster \/ WorkloadClusterDown
           \/ Edits \/ SyncPool \/ SyncCluster \/ SyncMachinePool \/ UNCHANGED vars
  BY <1>3, DeletePoolInv, RecreatePoolInv, ClusterInv, EditsInv, SyncPoolInv
<1> QED
  BY <1>1, <1>2, <1>3 DEF Next

-----------------------------------------------------------------------------
(* The theorems.                                                           *)

\* The inductive invariant holds, whatever is stale, fails or is created again.
THEOREM KarpenterInvariance == Spec => []IInv
<1>1. Init => IInv
  BY InitInv
<1>2. IInv /\ [Next]_vars => IInv'
  BY NextInv
<1> QED
  BY <1>1, <1>2, PTL DEF Spec

\* The state of the controller has its type: the replicas it writes to the
\* MachinePool are a number of instances, the hash is that of a Secret or none.
THEOREM KarpenterTypeCorrect == Spec => []TypeOK
<1>1. IInv => TypeOK
  BY DEF IInv
<1> QED
  BY <1>1, KarpenterInvariance, PTL

\* karpentermachinepool_controller.go skips the upload when the annotation it
\* has read equals the hash of the Secret, and marks the pool ready in a patch
\* by name: a pool that reports ready has its user data in S3 all the same.
THEOREM ReadyAlwaysBootable == Spec => []ReadyMeansBootable
<1>1. IInv => ReadyMeansBootable
  BY DEF IInv, BootInv, Bootable, ReadyMeansBootable
<1> QED
  BY <1>1, KarpenterInvariance, PTL

\* reconcileDelete tolerates an unreachable workload cluster only when the
\* Cluster it has read is being deleted: no pool goes and leaves nodes behind
\* that Karpenter does not drain.
THEOREM LeftoversAlwaysDrained == Spec => []LeftoversDrained
<1>1. IInv => LeftoversDrained
  BY DEF IInv, TypeOK, PoolInv, NodeInv, LeftoversDrained
<1> QED
  BY <1>1, KarpenterInvariance, PTL

-----------------------------------------------------------------------------
(* The finalizer guards the user data: GuardedResource.                    *)

Stored == s3 # NoData

\* The functions of GuardedResource, of which only one value ever changes.
PoolFlagsOK ==
  /\ phases = [u \in PoolNumbers |-> phases[u]]
  /\ guarded \in [PoolNumbers -> BOOLEAN] /\ kept \in [PoolNumbers -> BOOLEAN]
  /\ \A u \in PoolNumbers :
       /\ phases[u] = IF u < pool THEN "gone" ELSE IF u > pool THEN "live" ELSE kmp.phase
       /\ guarded[u] <=> u = pool /\ kmp.fin
       /\ kept[u] <=> u = pool /\ Stored

LEMMA PoolFlags == PoolFlagsOK
<1>1. \A u \in PoolNumbers : (u = pool /\ kmp.fin) \in BOOLEAN
  OBVIOUS
<1>2. \A u \in PoolNumbers : (u = pool /\ s3 # NoData) \in BOOLEAN
  OBVIOUS
<1>3. /\ guarded \in [PoolNumbers -> BOOLEAN]
      /\ \A u \in PoolNumbers : guarded[u] <=> u = pool /\ kmp.fin
  BY <1>1 DEF guarded
<1>4. /\ kept \in [PoolNumbers -> BOOLEAN]
      /\ \A u \in PoolNumbers : kept[u] <=> u = pool /\ Stored
  BY <1>2 DEF kept, Stored
<1> QED
  BY <1>3, <1>4 DEF PoolFlagsOK, phases

LEMMA PoolFlagsAfter == PoolFlagsOK'
  BY PoolFlags, PTL

LEMMA SameFlags ==
  ASSUME NEW F, NEW G, F \in [PoolNumbers -> BOOLEAN], G \in [PoolNumbers -> BOOLEAN],
         \A u \in PoolNumbers : G[u] <=> F[u]
  PROVE  G = F
<1>1. \A u \in PoolNumbers : G[u] = F[u]
  OBVIOUS
<1> QED
  BY <1>1

LEMMA OneFlag ==
  ASSUME NEW F, NEW G, F \in [PoolNumbers -> BOOLEAN], G \in [PoolNumbers -> BOOLEAN],
         NEW x \in PoolNumbers, \A u \in PoolNumbers : u # x => (G[u] <=> F[u]),
         NEW v \in BOOLEAN, G[x] <=> v
  PROVE  G = [F EXCEPT ![x] = v]
<1>1. \A u \in PoolNumbers : G[u] = [F EXCEPT ![x] = v][u]
  OBVIOUS
<1>2. [F EXCEPT ![x] = v] \in [PoolNumbers -> BOOLEAN]
  OBVIOUS
<1> QED
  BY <1>1, <1>2, Zenon

\* A step for the pool there is: nothing, the finalizer is put on, the user data
\* uploaded or deleted, the finalizer dropped, or the deletion requested.
LEMMA GuardPoint ==
  ASSUME TypeOK, pool' = pool,
         \/ kmp'.phase = kmp.phase /\ (kmp'.fin <=> kmp.fin) /\ (Stored' <=> Stored)
         \/ kmp.phase = "live" /\ kmp'.phase = kmp.phase /\ kmp'.fin /\ (Stored' <=> Stored)
         \/ kmp'.phase = kmp.phase /\ kmp.fin /\ kmp'.fin /\ Stored'
         \/ kmp.phase = "deleting" /\ kmp'.phase = kmp.phase /\ kmp.fin /\ kmp'.fin /\ ~Stored'
         \/ kmp.phase = "deleting" /\ kmp'.phase = "gone" /\ ~kmp'.fin /\ ~Stored /\ ~Stored'
         \/ /\ kmp.phase = "live" /\ kmp'.phase \in {"deleting", "gone"}
            /\ kmp.fin => kmp'.phase = "deleting"
            /\ (kmp'.fin <=> kmp.fin) /\ (Stored' <=> Stored)
  PROVE  [Guard!Next]_(Guard!vars)
<1>1. PICK x \in PoolNumbers : x = pool
  BY DEF TypeOK
<1>2. PICK P, G, R, P1, G1, R1 :
        P = phases /\ G = guarded /\ R = kept /\ P1 = phases' /\ G1 = guarded' /\ R1 = kept'
  OBVIOUS
<1>3. /\ P = [u \in PoolNumbers |-> P[u]]
      /\ G \in [PoolNumbers -> BOOLEAN] /\ R \in [PoolNumbers -> BOOLEAN]
      /\ P[x] = kmp.phase /\ (G[x] <=> kmp.fin) /\ (R[x] <=> Stored)
  BY <1>1, <1>2, PoolFlags DEF PoolFlagsOK, TypeOK, PoolNumbers
<1>4. /\ P1 = [u \in PoolNumbers |-> P1[u]]
      /\ G1 \in [PoolNumbers -> BOOLEAN] /\ R1 \in [PoolNumbers -> BOOLEAN]
      /\ P1[x] = kmp'.phase /\ (G1[x] <=> kmp'.fin) /\ (R1[x] <=> Stored')
  BY <1>1, <1>2, PoolFlagsAfter DEF PoolFlagsOK, TypeOK, PoolNumbers
<1>5. \A u \in PoolNumbers : u # x => P1[u] = P[u] /\ (G1[u] <=> G[u]) /\ (R1[u] <=> R[u])
  <2>1. \A u \in PoolNumbers : u # x => u < pool \/ u > pool
    BY <1>1 DEF PoolNumbers
  <2> QED
    BY <1>1, <1>2, <2>1, PoolFlags, PoolFlagsAfter DEF PoolFlagsOK
<1>6. /\ (G1[x] <=> G[x]) => G1 = G
      /\ (R1[x] <=> R[x]) => R1 = R
  BY <1>3, <1>4, <1>5, SameFlags
<1>7. /\ \A v \in BOOLEAN : (G1[x] <=> v) => G1 = [G EXCEPT ![x] = v]
      /\ \A v \in BOOLEAN : (R1[x] <=> v) => R1 = [R EXCEPT ![x] = v]
  BY <1>3, <1>4, <1>5, OneFlag
<1>8. P1 = [P EXCEPT ![x] = P1[x]] /\ (P1[x] = P[x] => P1 = P)
  BY <1>3, <1>4, <1>5
<1>9. \/ P1 = P /\ G1 = G /\ R1 = R
      \/ \E o \in PoolNumbers :
           \/ P[o] = "live" /\ G1 = [G EXCEPT ![o] = TRUE] /\ P1 = P /\ R1 = R
           \/ G[o] /\ R1 = [R EXCEPT ![o] = TRUE] /\ P1 = P /\ G1 = G
           \/ G[o] /\ P[o] = "deleting" /\ R1 = [R EXCEPT ![o] = FALSE] /\ P1 = P /\ G1 = G
           \/ /\ P[o] = "deleting" /\ ~R[o] /\ G1 = [G EXCEPT ![o] = FALSE] /\ R1 = R
              /\ \E p \in {"deleting", "gone"} : P1 = [P EXCEPT ![o] = p]
           \/ /\ P[o] = "live" /\ G1 = G /\ R1 = R
              /\ \E p \in {"deleting", "gone"} : (G[o] => p = "deleting") /\ P1 = [P EXCEPT ![o] = p]
  <2>1. CASE kmp'.phase = kmp.phase /\ (kmp'.fin <=> kmp.fin) /\ (Stored' <=> Stored)
    BY <1>3, <1>4, <1>6, <1>8, <2>1
  <2>2. CASE kmp.phase = "live" /\ kmp'.phase = kmp.phase /\ kmp'.fin /\ (Stored' <=> Stored)
    BY <1>3, <1>4, <1>6, <1>7, <1>8, <2>2
  <2>3. CASE kmp'.phase = kmp.phase /\ kmp.fin /\ kmp'.fin /\ Stored'
    BY <1>3, <1>4, <1>6, <1>7, <1>8, <2>3
  <2>4. CASE kmp.phase = "deleting" /\ kmp'.phase = kmp.phase /\ kmp.fin /\ kmp'.fin /\ ~Stored'
    BY <1>3, <1>4, <1>6, <1>7, <1>8, <2>4
  <2>5. CASE kmp.phase = "deleting" /\ kmp'.phase = "gone" /\ ~kmp'.fin /\ ~Stored /\ ~Stored'
    BY <1>3, <1>4, <1>6, <1>7, <1>8, <2>5
  <2>6. CASE /\ kmp.phase = "live" /\ kmp'.phase \in {"deleting", "gone"}
             /\ kmp.fin => kmp'.phase = "deleting"
             /\ (kmp'.fin <=> kmp.fin) /\ (Stored' <=> Stored)
    BY <1>3, <1>4, <1>6, <1>8, <2>6
  <2> QED
    BY <2>1, <2>2, <2>3, <2>4, <2>5, <2>6
<1> QED
  BY <1>2, <1>9 DEF Guard!Next, Guard!vars, Guard!PutGuard, Guard!Acquire, Guard!Release,
     Guard!DropGuard, Guard!RequestDeletion

LEMMA GuardInit ==
  ASSUME Init PROVE Guard!Init
<1>1. pool = 1 /\ kmp.phase = "live" /\ ~kmp.fin /\ ~Stored
  BY NewPoolFacts DEF Init, Stored, Fresh
<1>2. PICK P, G, R : P = phases /\ G = guarded /\ R = kept
  OBVIOUS
<1>3. /\ P = [u \in PoolNumbers |-> P[u]]
      /\ G \in [PoolNumbers -> BOOLEAN] /\ R \in [PoolNumbers -> BOOLEAN]
      /\ \A u \in PoolNumbers : P[u] = "live" /\ ~G[u] /\ ~R[u]
  BY <1>1, <1>2, PoolFlags DEF PoolFlagsOK, PoolNumbers
<1>4. P = [u \in PoolNumbers |-> "live"]
  BY <1>3
<1>5. [u \in PoolNumbers |-> FALSE] \in [PoolNumbers -> BOOLEAN]
  OBVIOUS
<1>6. G = [u \in PoolNumbers |-> FALSE] /\ R = [u \in PoolNumbers |-> FALSE]
  BY <1>3, <1>5, SameFlags
<1> QED
  BY <1>2, <1>4, <1>6 DEF Guard!Init

LEMMA GuardNextHolds ==
  ASSUME IInv, IInv', [Next]_vars PROVE [Guard!Next]_(Guard!vars)
<1>1. CASE kmp' = kmp /\ s3' = s3 /\ pool' = pool
  BY <1>1, GuardPoint DEF IInv, Stored
<1>2. CASE AddFinalizer
  <2>1. /\ pc = "addFinalizer" /\ mem' = [mem EXCEPT !.fin = TRUE] /\ pool' = pool /\ s3' = s3
        /\ kmp' = kmp \/ (kmp.phase # "gone" /\ kmp' = Patched(kmp, before, mem'))
    BY <1>2 DEF AddFinalizer, Call, outVars
  <2>2. CASE kmp.phase # "gone" /\ kmp' = Patched(kmp, before, mem')
    <3>1. mem' \in Pools /\ mem'.fin
      BY <2>1 DEF IInv, TypeOK, Pools
    <3>2. PatchOf(kmp', kmp, before, mem')
      BY <2>2, <3>1, PatchedFacts DEF IInv, TypeOK
    <3>3. (before.fin => kmp.fin) /\ (kmp.phase = "deleting" => kmp.fin)
      BY <2>1 DEF IInv, PoolInv, WorkerInv
    <3>4. kmp'.phase = kmp.phase /\ kmp'.fin /\ (kmp.phase = "live" \/ kmp.fin)
      BY <2>2, <3>1, <3>2, <3>3 DEF PatchOf, IInv, TypeOK, Pools
    <3> QED
      BY <2>1, <3>4, GuardPoint DEF IInv, Stored
  <2> QED
    BY <1>1, <2>1, <2>2
<1>3. CASE PutUserData
  <2>1. pc = "put" /\ pool' = pool /\ kmp' = kmp /\ s3' = data
    BY <1>3 DEF PutUserData, Call, kmpVars
  <2>2. kmp.fin /\ Stored'
    BY <2>1 DEF IInv, WorkerInv, Stored
  <2> QED
    BY <2>1, <2>2, GuardPoint DEF IInv
<1>4. CASE DeleteUserData
  <2>1. pc = "deleteUserData" /\ pool' = pool /\ kmp' = kmp /\ s3' = NoData
    BY <1>4 DEF DeleteUserData, Call, kmpVars
  <2>2. CASE kmp.fin
    <3>1. kmp.phase = "deleting" /\ ~Stored'
      BY <2>1, <2>2 DEF IInv, TypeOK, Pools, PoolInv, WorkerInv, DeletionInv, Fresh, Stored
    <3> QED
      BY <2>1, <2>2, <3>1, GuardPoint DEF IInv
  <2>3. CASE ~kmp.fin
    BY <1>1, <2>1, <2>3 DEF IInv, PoolInv
  <2> QED
    BY <2>2, <2>3
\* The patch lands on a pool that lives, is being deleted or is gone.
<1>5. CASE DeferredPatch
  <2>1. /\ pc = "patch" /\ pool' = pool /\ s3' = s3
        /\ kmp' = IF kmp.phase = "gone" THEN kmp ELSE Patched(kmp, before, mem)
    BY <1>5 DEF DeferredPatch, Call, outVars
  <2>2. CASE before.phase = "live"
    <3>1. /\ kmp'.phase = kmp.phase /\ (kmp.fin => kmp'.fin)
          /\ (kmp'.fin /\ ~kmp.fin) => kmp.phase = "live"
      BY <2>1, <2>2, PatchLands
    <3> QED
      BY <2>1, <3>1, GuardPoint DEF IInv, Stored
  <2>3. CASE before.phase = "deleting"
    <3>1. /\ kmp'.fin => kmp.fin
          /\ (kmp.fin /\ ~kmp'.fin) => ~mem.fin /\ kmp.phase = "deleting" /\ kmp'.phase = "gone"
          /\ (kmp.fin /\ kmp'.fin) => kmp'.phase = kmp.phase
          /\ ~kmp.fin => kmp'.phase = kmp.phase
      BY <2>1, <2>3, PatchLands
    <3>2. ~mem.fin => ~Stored /\ ~Stored'
      BY <2>1, <2>3 DEF IInv, DeletionInv, Stored
    <3> QED
      BY <2>1, <3>1, <3>2, GuardPoint DEF IInv, Stored
  <2> QED
    BY <2>2, <2>3 DEF IInv, TypeOK, Pools, WorkerInv
<1>6. CASE DeletePool
  <2>1. /\ kmp.phase = "live" /\ pool' = pool /\ s3' = s3
        /\ kmp' = [kmp EXCEPT !.phase = IF kmp.fin THEN "deleting" ELSE "gone"]
    BY <1>6 DEF DeletePool, outVars
  <2>2. PICK p \in {"deleting", "gone"} : p = IF kmp.fin THEN "deleting" ELSE "gone"
    OBVIOUS
  <2>3. kmp'.phase = p /\ (kmp'.fin <=> kmp.fin)
    BY <2>1, <2>2 DEF IInv, TypeOK, Pools
  <2> QED
    BY <2>1, <2>2, <2>3, GuardPoint DEF IInv, Stored
\* The pool before is gone, with all it had; the next one has nothing yet.
<1>7. CASE RecreatePool
  <2>1. /\ kmp.phase = "gone" /\ ~kmp.fin /\ ~Stored /\ pool \in PoolNumbers
        /\ pool' = pool + 1 /\ kmp'.phase = "live" /\ ~kmp'.fin /\ ~Stored'
    BY <1>7, NewPoolFacts
       DEF RecreatePool, IInv, TypeOK, PoolInv, Stored, Fresh, outVars
  <2>2. PICK P, G, R, P1, G1, R1 :
          P = phases /\ G = guarded /\ R = kept /\ P1 = phases' /\ G1 = guarded' /\ R1 = kept'
    OBVIOUS
  <2>3. /\ P = [u \in PoolNumbers |-> P[u]] /\ P1 = [u \in PoolNumbers |-> P1[u]]
        /\ G \in [PoolNumbers -> BOOLEAN] /\ R \in [PoolNumbers -> BOOLEAN]
        /\ G1 \in [PoolNumbers -> BOOLEAN] /\ R1 \in [PoolNumbers -> BOOLEAN]
        /\ \A u \in PoolNumbers : ~G[u] /\ ~R[u] /\ ~G1[u] /\ ~R1[u]
    BY <2>1, <2>2, PoolFlags, PoolFlagsAfter DEF PoolFlagsOK
  <2>4. \A u \in PoolNumbers : P1[u] = P[u]
    BY <2>1, <2>2, PoolFlags, PoolFlagsAfter DEF PoolFlagsOK, PoolNumbers
  <2>5. P1 = P /\ G1 = G /\ R1 = R
    BY <2>3, <2>4, SameFlags
  <2> QED
    BY <2>2, <2>5 DEF Guard!vars
<1>8. CASE Worker
  <2>1. CASE \/ CheckSkew \/ CreateOrUpdateEC2NodeClass \/ CreateOrUpdateNodePool \/ ReadSecret
             \/ SaveStatus \/ DeleteNodePool \/ DeleteEC2NodeClass \/ ListInstances
             \/ TerminateInstances
    BY <1>1, <2>1 DEF CheckSkew, CreateOrUpdateEC2NodeClass, CreateOrUpdateNodePool, ReadSecret,
       SaveStatus, DeleteNodePool, DeleteEC2NodeClass, ListInstances, TerminateInstances, kmpVars,
       outVars
  <2> QED
    BY <1>2, <1>3, <1>4, <1>5, <1>8, <2>1 DEF Worker
<1>9. CASE Reconcile \/ Fail \/ LosePatch \/ Karpenter
  BY <1>1, <1>9 DEF Reconcile, Fail, LosePatch, Karpenter, Provision, Launch, Drain, Terminated,
     NodePoolGone, kmpVars, outVars
<1>10. CASE \/ DeleteCluster \/ WorkloadClusterDown \/ SyncPool \/ SyncCluster \/ SyncMachinePool
            \/ UNCHANGED vars
  BY <1>1, <1>10 DEF DeleteCluster, WorkloadClusterDown, SyncPool, SyncCluster, SyncMachinePool,
     vars, kmpVars, outVars
<1>11. CASE Edits
  <2>1. /\ s3' = s3 /\ pool' = pool
        /\ kmp' = kmp \/ kmp' = [kmp EXCEPT !.ami = kmp.ami + 1]
    BY <1>11 DEF Edits, EditSecret, UpgradeControlPlane, UpgradeMachinePool, UpgradePool, ChangeHold,
       kmpVars, outVars
  <2>2. kmp'.phase = kmp.phase /\ (kmp'.fin <=> kmp.fin)
    BY <2>1 DEF IInv, TypeOK, Pools
  <2> QED
    BY <2>1, <2>2, GuardPoint DEF IInv, Stored
<1> QED
  BY <1>6, <1>7, <1>8, <1>9, <1>10, <1>11 DEF Next

\* karpentermachinepool_controller.go patches the finalizer before it uploads
\* the user data with s3client.go and deletes it before the deferred patch drops
\* the finalizer: for every pool of the name, whatever is stale or fails.
THEOREM UserDataAlwaysGuarded == Spec => GuardsUserData
<1>1. Init => Guard!Init
  BY GuardInit
<1>2. IInv /\ IInv' /\ [Next]_vars => [Guard!Next]_(Guard!vars)
  BY GuardNextHolds
<1> QED
  BY <1>1, <1>2, KarpenterInvariance, PTL DEF Spec, GuardsUserData, Guard!Spec
=============================================================================
