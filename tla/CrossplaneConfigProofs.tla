----------------------- MODULE CrossplaneConfigProofs -----------------------
(***************************************************************************)
(* The ConfigMap and the ProviderConfig are guarded by the finalizer of    *)
(* the controller, whatever the age of what it reads, for any other        *)
(* finalizers and any number of edits and failures.                        *)
(***************************************************************************)
EXTENDS CrossplaneConfig, TLAPS

\* The calls that follow AddFinalizer, and those of reconcileDelete.
WritingSteps ==
  {"getConfigMap", "createConfigMap", "updateConfigMap",
   "getProvider", "createProvider", "updateProvider"}
DeletingSteps == {"deleteConfigMap", "deleteProvider", "removeLegacy", "removeFinalizer"}

\* A copy of the Cluster is an earlier version of it, or the version itself; a
\* deletion that was seen has been requested.
VersionsInv ==
  /\ clCache.rv <= cl.rv
  /\ clCache.rv = cl.rv => clCache = cl
  /\ clCache.phase # "live" => cl.phase # "live"
  /\ cl.phase = "gone" => cl.fins = {}
  /\ pc \in {"addFinalizer"} \cup DeletingSteps =>
       copy.rv <= cl.rv /\ (copy.rv = cl.rv => copy = cl)

\* What the worker relies on at each call.
WorkerInv ==
  /\ pc \in WritingSteps => Finalizer \in cl.fins
  /\ pc \in DeletingSteps => cl.phase # "live"
  /\ pc \in {"deleteProvider", "removeLegacy", "removeFinalizer"} => config = "absent"
  /\ pc \in {"removeLegacy", "removeFinalizer"} => provider = "absent"

IInv == TypeOK /\ VersionsInv /\ WorkerInv /\ ConfigGuarded

-----------------------------------------------------------------------------
(* The writes to an object, the Cluster or its infrastructure. *)

\* How the Cluster may follow from an earlier version of itself.
Follows(o, n) ==
  /\ n \in CAPIClusters
  /\ n.rv >= o.rv
  /\ n.rv = o.rv => n = o
  /\ o.phase # "live" => n.phase # "live"
  /\ n.phase = "gone" => n.fins = {}

\* What the API server stores is well typed, never older, and new if it differs.
LEMMA StoredFollows ==
  ASSUME NEW o \in CAPIClusters, o.phase = "gone" => o.fins = {},
         NEW n \in CAPIClusters, n.rv = o.rv, n.phase = o.phase, o.phase # "gone"
  PROVE  Follows(o, Stored(o, n)) /\ Stored(o, n).fins = n.fins
<1>1. CASE n = o
  BY <1>1 DEF Stored, Follows, CAPIClusters
<1>2. CASE n # o
  <2> DEFINE p == IF n.phase = "deleting" /\ n.fins = {} THEN "gone" ELSE n.phase
  <2>1. Stored(o, n) = [n EXCEPT !.rv = o.rv + 1, !.phase = p]
    BY <1>2 DEF Stored
  <2>2. o.rv \in Nat /\ o.rv + 1 \in Nat /\ p \in {"live", "deleting", "gone"}
    BY DEF CAPIClusters
  <2>3. ASSUME NEW k \in Nat, NEW q \in {"live", "deleting", "gone"}
        PROVE  [n EXCEPT !.rv = k, !.phase = q] \in CAPIClusters
    BY DEF CAPIClusters
  <2>4. Stored(o, n) \in CAPIClusters
    <3> HIDE DEF p
    <3> QED
      BY <2>1, <2>2, <2>3, Zenon
  <2>5. Stored(o, n).rv = o.rv + 1 /\ Stored(o, n).phase = p /\ Stored(o, n).fins = n.fins
    BY <2>1 DEF CAPIClusters
  <2> QED
    BY <2>2, <2>4, <2>5 DEF Follows, CAPIClusters
<1> QED
  BY <1>1, <1>2

\* The same for the type of the infrastructure object.
LEMMA StoredInfra ==
  ASSUME NEW o \in Infras, NEW n \in Infras
  PROVE  Stored(o, n) \in Infras
<1>1. CASE n = o
  BY <1>1 DEF Stored
<1>2. CASE n # o
  <2> DEFINE p == IF n.phase = "deleting" /\ n.fins = {} THEN "gone" ELSE n.phase
  <2>1. Stored(o, n) = [n EXCEPT !.rv = o.rv + 1, !.phase = p]
    BY <1>2 DEF Stored
  <2>2. o.rv + 1 \in Nat
    BY DEF Infras
  <2>3. p \in {"absent", "live", "deleting", "gone"}
    BY DEF Infras
  <2>4. ASSUME NEW k \in Nat, NEW q \in {"absent", "live", "deleting", "gone"}
        PROVE  [n EXCEPT !.rv = k, !.phase = q] \in Infras
    BY DEF Infras
  <2>5. Stored(o, n) \in Infras
    <3> HIDE DEF p
    <3>1. [n EXCEPT !.rv = o.rv + 1, !.phase = p] \in Infras
      BY <2>2, <2>4, <2>3
    <3> QED
      BY <2>1, <3>1
  <2> QED
    BY <2>5
<1> QED
  BY <1>1, <1>2

\* The finalizer patches on the Cluster.
LEMMA FinalizerFacts ==
  ASSUME NEW o \in CAPIClusters, o.phase # "gone"
  PROVE  /\ Follows(o, AddFinalizer(o, Finalizer))
         /\ AddFinalizer(o, Finalizer).fins = o.fins \cup {Finalizer}
         /\ Follows(o, RemoveFinalizer(o, Finalizer))
         /\ RemoveFinalizer(o, Finalizer).fins = o.fins \ {Finalizer}
<1>1. ASSUME NEW s \in SUBSET (OtherFinalizers \cup {Finalizer})
      PROVE  LET n == [o EXCEPT !.fins = s]
             IN  n \in CAPIClusters /\ n.rv = o.rv /\ n.phase = o.phase /\ n.fins = s
  BY DEF CAPIClusters
<1>2. ASSUME NEW s \in SUBSET (OtherFinalizers \cup {Finalizer})
      PROVE  /\ Follows(o, Stored(o, [o EXCEPT !.fins = s]))
             /\ Stored(o, [o EXCEPT !.fins = s]).fins = s
  BY <1>1, StoredFollows
<1>3. /\ o.fins \cup {Finalizer} \in SUBSET (OtherFinalizers \cup {Finalizer})
      /\ o.fins \ {Finalizer} \in SUBSET (OtherFinalizers \cup {Finalizer})
  BY DEF CAPIClusters
<1>4. /\ AddFinalizer(o, Finalizer) = Stored(o, [o EXCEPT !.fins = o.fins \cup {Finalizer}])
      /\ RemoveFinalizer(o, Finalizer) = Stored(o, [o EXCEPT !.fins = o.fins \ {Finalizer}])
  BY DEF AddFinalizer, RemoveFinalizer
<1> QED
  BY <1>2, <1>3, <1>4

LEMMA DeletionRequestedFacts ==
  ASSUME NEW o \in CAPIClusters, o.phase = "live"
  PROVE  Follows(o, DeletionRequested(o)) /\ DeletionRequested(o).fins = o.fins
<1> DEFINE p == IF o.fins = {} THEN "gone" ELSE "deleting"
           n == DeletionRequested(o)
<1>1. n = [o EXCEPT !.rv = o.rv + 1, !.phase = p]
  BY DEF DeletionRequested
<1>2. o.rv \in Nat /\ o.rv + 1 \in Nat /\ p \in {"live", "deleting", "gone"}
  BY DEF CAPIClusters
<1>3. ASSUME NEW r \in Nat, NEW q \in {"live", "deleting", "gone"}
      PROVE  [o EXCEPT !.rv = r, !.phase = q] \in CAPIClusters
  BY DEF CAPIClusters
<1>4. n \in CAPIClusters
  <2> HIDE DEF p, n
  <2> QED
    BY <1>1, <1>2, <1>3, Zenon
<1>5. n.rv = o.rv + 1 /\ n.phase = p /\ n.fins = o.fins
  BY <1>1 DEF CAPIClusters
<1> QED
  BY <1>2, <1>4, <1>5 DEF Follows

-----------------------------------------------------------------------------
(* The invariant is inductive. *)

LEMMA InitInv == Init => IInv
<1> SUFFICES ASSUME Init PROVE IInv
  OBVIOUS
<1>1. cl \in CAPIClusters /\ cl.rv = 0 /\ cl.phase = "live"
  BY DEF Init, CAPIClusters
<1>2. infra \in Infras
  BY DEF Init, Infras, Progress
<1>3. TypeOK
  BY <1>1, <1>2, CrossplaneConstantsAssumption
     DEF Init, TypeOK, ConfigMaps, ProviderConfigs, Progress, Steps, Unread, CAPIClusters
<1> QED
  BY <1>1, <1>3 DEF Init, IInv, VersionsInv, WorkerInv, ConfigGuarded, DeletingSteps,
     WritingSteps, Progress

\* Another writes to the Cluster and leaves the finalizer as it is.
LEMMA ForeignWrite ==
  ASSUME IInv, Follows(cl, cl'), Finalizer \in cl.fins => Finalizer \in cl'.fins,
         TypeOK', UNCHANGED <<clCache, ownVars, pc, copy, info, base>>
  PROVE  IInv'
<1>1. clCache.rv \in Nat /\ cl.rv \in Nat /\ copy.rv \in Nat /\ cl'.rv \in Nat
  BY DEF IInv, TypeOK, CAPIClusters
<1>2. VersionsInv'
  BY <1>1 DEF IInv, VersionsInv, Follows
<1>3. WorkerInv' /\ ConfigGuarded'
  BY DEF IInv, WorkerInv, ConfigGuarded, Follows, ownVars
<1> QED
  BY <1>2, <1>3 DEF IInv

\* The infrastructure and the other surroundings do not matter for it.
LEMMA SurroundingsChange ==
  ASSUME IInv, TypeOK', UNCHANGED <<cl, clCache, ownVars, pc, copy>>
  PROVE  IInv'
  BY DEF IInv, VersionsInv, WorkerInv, ConfigGuarded, ownVars

\* A reconciliation may end at any point.
LEMMA WorkerEnds ==
  ASSUME IInv, TypeOK', pc' = "idle", UNCHANGED <<cl, clCache, ownVars>>
  PROVE  IInv'
  BY DEF IInv, VersionsInv, WorkerInv, ConfigGuarded, WritingSteps, DeletingSteps, ownVars

LEMMA IdleType ==
  Unread \in CAPIClusters /\ "none" \in Progress /\ "absent" \in ConfigMaps
BY DEF Unread, CAPIClusters, Progress, ConfigMaps

LEMMA ReconcileInv == ASSUME IInv, Reconcile PROVE IInv'
<1> USE DEF Reconcile, objVars, ownVars, boundVars
<1>1. TypeOK'
  BY DEF IInv, TypeOK, Steps, Infras
<1>2. VersionsInv'
  BY DEF IInv, TypeOK, VersionsInv, DeletingSteps
<1>3. WorkerInv' /\ ConfigGuarded'
  BY DEF IInv, TypeOK, VersionsInv, WorkerInv, ConfigGuarded, DeletingSteps, WritingSteps
<1> QED
  BY <1>1, <1>2, <1>3 DEF IInv

LEMMA RereadInv == ASSUME IInv, Reread PROVE IInv'
<1> USE DEF Reread, Return, objVars, ownVars, boundVars
<1>1. TypeOK'
  BY IdleType DEF IInv, TypeOK, Steps
<1>2. VersionsInv'
  BY DEF IInv, TypeOK, VersionsInv, DeletingSteps
<1>3. WorkerInv' /\ ConfigGuarded'
  BY DEF IInv, WorkerInv, ConfigGuarded, DeletingSteps, WritingSteps
<1> QED
  BY <1>1, <1>2, <1>3 DEF IInv

LEMMA AddFinalizerCallInv == ASSUME IInv, AddFinalizerCall PROVE IInv'
<1> USE DEF AddFinalizerCall, Error, objVars, ownVars, boundVars
<1>1. CASE Unconflicted(cl, copy) /\ (cl.phase = "live" \/ Finalizer \in cl.fins)
  <2>1. cl \in CAPIClusters /\ cl.phase # "gone" /\ cl' = AddFinalizer(cl, Finalizer)
    BY <1>1 DEF IInv, TypeOK, Unconflicted
  <2>2. Follows(cl, cl') /\ cl'.fins = cl.fins \cup {Finalizer}
    BY <2>1, FinalizerFacts
  <2>3. pc' = "getConfigMap" /\ copy' = Unread /\ UNCHANGED <<clCache, config, provider>>
    BY <1>1
  <2>4. TypeOK'
    BY <1>1, <2>2, IdleType DEF IInv, TypeOK, Steps, Follows
  <2>5. VersionsInv'
    <3>1. clCache.rv \in Nat /\ cl.rv \in Nat /\ cl'.rv \in Nat
      BY <2>2 DEF IInv, TypeOK, Follows, CAPIClusters
    <3> QED
      BY <2>2, <2>3, <3>1 DEF IInv, VersionsInv, Follows, DeletingSteps
  <2>6. WorkerInv' /\ ConfigGuarded'
    BY <2>2, <2>3 DEF WorkerInv, ConfigGuarded, DeletingSteps, WritingSteps
  <2> QED
    BY <2>4, <2>5, <2>6 DEF IInv
<1>2. CASE ~(Unconflicted(cl, copy) /\ (cl.phase = "live" \/ Finalizer \in cl.fins))
  <2>1. TypeOK'
    BY <1>2, IdleType DEF IInv, TypeOK, Steps
  <2> QED
    BY <1>2, <2>1, WorkerEnds
<1> QED
  BY <1>1, <1>2

\* The calls between the two finalizer patches move on or end, and write what
\* the finalizer guards.
LEMMA WritingInv ==
  ASSUME IInv,
         GetConfigMap \/ CreateConfigMap \/ UpdateConfigMap
           \/ GetProviderConfig \/ CreateProviderConfig \/ UpdateProviderConfig
  PROVE  IInv'
<1> USE DEF GetConfigMap, CreateConfigMap, UpdateConfigMap, GetProviderConfig,
    CreateProviderConfig, UpdateProviderConfig, Goto, Return, Error, objVars, ownVars, boundVars
<1>1. TypeOK'
  BY IdleType DEF IInv, TypeOK, Steps, ConfigMaps, ProviderConfigs
<1>2. VersionsInv'
  BY DEF IInv, VersionsInv, DeletingSteps
<1>3. WorkerInv' /\ ConfigGuarded'
  BY DEF IInv, WorkerInv, ConfigGuarded, DeletingSteps, WritingSteps
<1> QED
  BY <1>1, <1>2, <1>3 DEF IInv

LEMMA DeletingInv ==
  ASSUME IInv, DeleteConfigMap \/ DeleteProviderConfig PROVE IInv'
<1> USE DEF DeleteConfigMap, DeleteProviderConfig, Goto, objVars, ownVars, boundVars
<1>1. TypeOK'
  BY DEF IInv, TypeOK, Steps, ConfigMaps, ProviderConfigs
<1>2. VersionsInv'
  BY DEF IInv, VersionsInv, DeletingSteps
<1>3. WorkerInv' /\ ConfigGuarded'
  BY DEF IInv, WorkerInv, ConfigGuarded, DeletingSteps, WritingSteps, Progress
<1> QED
  BY <1>1, <1>2, <1>3 DEF IInv

LEMMA RemoveLegacyFinalizerInv ==
  ASSUME IInv, RemoveLegacyFinalizer PROVE IInv'
<1> USE DEF RemoveLegacyFinalizer, Goto, Error, ownVars, boundVars
<1>1. infra' \in Infras
  <2>1. RemoveFinalizer(infra, Finalizer) = Stored(infra, [infra EXCEPT !.fins = @ \ {Finalizer}])
    BY DEF RemoveFinalizer
  <2>2. infra \in Infras /\ [infra EXCEPT !.fins = @ \ {Finalizer}] \in Infras
    BY DEF IInv, TypeOK, Infras
  <2>3. RemoveFinalizer(infra, Finalizer) \in Infras
    BY <2>1, <2>2, StoredInfra
  <2> QED
    BY <2>2, <2>3
<1>2. TypeOK'
  BY <1>1, IdleType DEF IInv, TypeOK, Steps
<1>3. VersionsInv'
  BY DEF IInv, VersionsInv, DeletingSteps
<1>4. WorkerInv' /\ ConfigGuarded'
  BY DEF IInv, WorkerInv, ConfigGuarded, DeletingSteps, WritingSteps
<1> QED
  BY <1>2, <1>3, <1>4 DEF IInv

LEMMA RemoveFinalizerCallInv ==
  ASSUME IInv, RemoveFinalizerCall PROVE IInv'
<1> USE DEF RemoveFinalizerCall, Return, Error, ownVars, boundVars
<1>1. CASE Unconflicted(cl, copy)
  <2>1. cl \in CAPIClusters /\ cl.phase # "gone" /\ cl' = RemoveFinalizer(cl, Finalizer)
    BY <1>1 DEF IInv, TypeOK, Unconflicted
  <2>2. Follows(cl, cl')
    BY <2>1, FinalizerFacts
  <2>3. config = "absent" /\ provider = "absent"
    BY DEF IInv, WorkerInv
  <2>4. TypeOK'
    BY <1>1, <2>2, IdleType DEF IInv, TypeOK, Steps, Follows
  <2>5. pc' = "idle" /\ UNCHANGED <<clCache, config, provider>>
    BY <1>1
  <2>6. VersionsInv'
    <3>1. clCache.rv \in Nat /\ cl.rv \in Nat /\ cl'.rv \in Nat
      BY <2>2 DEF IInv, TypeOK, Follows, CAPIClusters
    <3> QED
      BY <2>2, <2>5, <3>1 DEF IInv, VersionsInv, Follows, DeletingSteps
  <2>7. WorkerInv' /\ ConfigGuarded'
    BY <2>3, <2>5 DEF WorkerInv, ConfigGuarded, DeletingSteps, WritingSteps, Progress
  <2> QED
    BY <2>4, <2>6, <2>7 DEF IInv
<1>2. CASE ~Unconflicted(cl, copy)
  <2>1. TypeOK'
    BY <1>2, IdleType DEF IInv, TypeOK, Steps
  <2> QED
    BY <1>2, <2>1, WorkerEnds
<1> QED
  BY <1>1, <1>2

\* The cache follows the Cluster; the resync and the failures.
LEMMA ObserveInv == ASSUME IInv, Observe PROVE IInv'
<1> USE DEF Observe, ownVars, boundVars
<1>1. TypeOK'
  BY DEF IInv, TypeOK, CAPIClusters
<1>2. VersionsInv'
  BY DEF IInv, TypeOK, VersionsInv, CAPIClusters
<1>3. WorkerInv' /\ ConfigGuarded'
  BY DEF IInv, WorkerInv, ConfigGuarded
<1> QED
  BY <1>1, <1>2, <1>3 DEF IInv

LEMMA RestartInv == ASSUME IInv, Restart PROVE IInv'
<1> USE DEF Restart, ownVars, boundVars
<1>1. TypeOK'
  BY IdleType, CrossplaneConstantsAssumption DEF IInv, TypeOK, Steps, CAPIClusters
<1>2. VersionsInv'
  BY DEF IInv, TypeOK, VersionsInv, CAPIClusters, DeletingSteps
<1>3. WorkerInv' /\ ConfigGuarded'
  BY DEF IInv, WorkerInv, ConfigGuarded, DeletingSteps, WritingSteps
<1> QED
  BY <1>1, <1>2, <1>3 DEF IInv

LEMMA FailInv == ASSUME IInv, Fail PROVE IInv'
<1>1. TypeOK'
  BY IdleType, CrossplaneConstantsAssumption
     DEF Fail, Error, objVars, ownVars, IInv, TypeOK, Steps
<1> QED
  BY <1>1, WorkerEnds DEF Fail, Error, objVars, ownVars

LEMMA RequestDeletionInv == ASSUME IInv, RequestDeletion PROVE IInv'
<1>1. Follows(cl, cl') /\ cl'.fins = cl.fins
  BY DeletionRequestedFacts DEF RequestDeletion, IInv, TypeOK
<1>2. TypeOK'
  BY <1>1 DEF RequestDeletion, IInv, TypeOK, Follows, ownVars, workVars, boundVars
<1> QED
  BY <1>1, <1>2, ForeignWrite DEF RequestDeletion, ownVars, workVars

LEMMA TeardownInv == ASSUME IInv, Teardown PROVE IInv'
<1> DEFINE n == [infra EXCEPT !.fins = @ \ OtherFinalizers]
           m == [cl EXCEPT !.fins = @ \ OtherFinalizers]
<1>1. cl \in CAPIClusters /\ infra \in Infras /\ Finalizer \notin OtherFinalizers
  BY CrossplaneConstantsAssumption DEF IInv, TypeOK
<1>2. n \in Infras
  BY <1>1 DEF Infras
<1>3. /\ m \in CAPIClusters /\ m.rv = cl.rv /\ m.phase = cl.phase
      /\ m.fins = cl.fins \ OtherFinalizers
  BY <1>1 DEF CAPIClusters
<1>4. DeletionRequested(infra) \in Infras
  <2> DEFINE p == IF infra.fins = {} THEN "gone" ELSE "deleting"
  <2>1. DeletionRequested(infra) = [infra EXCEPT !.rv = infra.rv + 1, !.phase = p]
    BY DEF DeletionRequested
  <2>2. infra.rv + 1 \in Nat
    BY <1>1 DEF Infras
  <2>3. p \in {"absent", "live", "deleting", "gone"}
    OBVIOUS
  <2>4. ASSUME NEW k \in Nat, NEW q \in {"absent", "live", "deleting", "gone"}
        PROVE  [infra EXCEPT !.rv = k, !.phase = q] \in Infras
    BY <1>1 DEF Infras
  <2> HIDE DEF p
  <2>5. [infra EXCEPT !.rv = infra.rv + 1, !.phase = p] \in Infras
    BY <2>2, <2>3, <2>4
  <2> QED
    BY <2>1, <2>5
<1>5. CASE cl' = cl
  <2>1. infra' \in {infra, DeletionRequested(infra), Stored(infra, n)}
    BY <1>5 DEF Teardown
  <2>2. infra' \in Infras
    BY <2>1, <1>1, <1>2, <1>4, StoredInfra
  <2>3. TypeOK'
    BY <1>5, <2>2 DEF Teardown, IInv, TypeOK, ownVars, workVars, boundVars
  <2> QED
    BY <1>5, <2>3, SurroundingsChange DEF Teardown, ownVars, workVars
<1>6. CASE cl' # cl
  <2>1. cl' = Stored(cl, m) /\ infra' = infra /\ cl.phase = "deleting"
    BY <1>6 DEF Teardown
  <2>2. Follows(cl, cl') /\ cl'.fins = cl.fins \ OtherFinalizers
    BY <1>1, <1>3, <2>1, StoredFollows
  <2>3. TypeOK'
    BY <2>1, <2>2 DEF Teardown, IInv, TypeOK, Follows, ownVars, workVars, boundVars
  <2> QED
    BY <1>1, <2>2, <2>3, ForeignWrite DEF Teardown, ownVars, workVars
<1> QED
  BY <1>5, <1>6

\* Others change the Cluster, what it depends on, or the objects the controller
\* keeps; those only while the Cluster lives.
LEMMA EditInv == ASSUME IInv, Edit PROVE IInv'
<1>1. /\ cl \in CAPIClusters /\ infra \in Infras /\ edits' \in 0..MaxEdits
      /\ UNCHANGED <<kind, clCache, infraCache, pc, copy, info, base, queue, failures>>
  BY CrossplaneConstantsAssumption DEF Edit, IInv, TypeOK, workVars
<1>2. CASE cl' # cl
  <2> DEFINE n == [cl EXCEPT !.paused = ~@]
  <2>1. cl' = Stored(cl, n) /\ cl.phase # "gone" /\ UNCHANGED <<infra, identity, crd, ownVars>>
    BY <1>2 DEF Edit
  <2>2. n \in CAPIClusters /\ n.rv = cl.rv /\ n.phase = cl.phase /\ n.fins = cl.fins
    BY <1>1 DEF CAPIClusters
  <2>3. Follows(cl, cl') /\ cl'.fins = cl.fins
    BY <1>1, <2>1, <2>2, StoredFollows
  <2>4. TypeOK'
    BY <1>1, <2>1, <2>3 DEF IInv, TypeOK, Follows, ownVars
  <2> QED
    BY <1>1, <2>1, <2>3, <2>4, ForeignWrite DEF ownVars
<1>3. CASE cl' = cl /\ UNCHANGED ownVars
  <2> DEFINE n == [infra EXCEPT !.values = Further[@]]
  <2>1. \/ infra' = infra
        \/ infra' = Stored(infra, n)
        \/ infra' = [infra EXCEPT !.phase = "live"]
    BY <1>3 DEF Edit
  <2>2. n \in Infras /\ [infra EXCEPT !.phase = "live"] \in Infras
    BY <1>1 DEF Infras, Further, Progress
  <2>3. infra' \in Infras
    BY <1>1, <2>1, <2>2, StoredInfra
  <2>4. identity' \in BOOLEAN /\ crd' \in BOOLEAN
    BY DEF Edit, IInv, TypeOK
  <2>5. TypeOK'
    BY <1>1, <1>3, <2>3, <2>4 DEF IInv, TypeOK, ownVars
  <2> QED
    BY <1>1, <1>3, <2>5, SurroundingsChange
<1>4. CASE cl' = cl /\ ~UNCHANGED ownVars
  <2>1. /\ cl.phase = "live" /\ UNCHANGED <<infra, identity, crd>>
        /\ config' \in {config, "absent", "other", "bare"}
        /\ provider' \in {provider, "absent", "other"}
    BY <1>4 DEF Edit, ownVars
  <2>2. TypeOK'
    BY <1>1, <1>4, <2>1 DEF IInv, TypeOK, ConfigMaps, ProviderConfigs
  <2>3. VersionsInv' /\ WorkerInv' /\ ConfigGuarded'
    BY <1>1, <1>4, <2>1
       DEF IInv, VersionsInv, WorkerInv, ConfigGuarded, DeletingSteps, WritingSteps, Progress
  <2> QED
    BY <2>2, <2>3 DEF IInv
<1> QED
  BY <1>2, <1>3, <1>4

LEMMA NextInv == IInv /\ [Next]_vars => IInv'
<1> SUFFICES ASSUME IInv, [Next]_vars PROVE IInv'
  OBVIOUS
<1>1. CASE Worker
  BY <1>1, ReconcileInv, RereadInv, AddFinalizerCallInv, WritingInv, DeletingInv,
     RemoveLegacyFinalizerInv, RemoveFinalizerCallInv DEF Worker
<1>2. CASE ObserveInfra \/ Resync \/ UNCHANGED vars
  <2>1. TypeOK'
    BY <1>2 DEF ObserveInfra, Resync, vars, IInv, TypeOK, objVars, ownVars, workVars, boundVars
  <2>2. UNCHANGED <<cl, clCache, ownVars, pc, copy>>
    BY <1>2 DEF ObserveInfra, Resync, vars, objVars, workVars
  <2> QED
    BY <2>1, <2>2, SurroundingsChange
<1>3. CASE Observe \/ RequestDeletion \/ Teardown \/ Edit \/ Fail \/ Restart
  BY <1>3, ObserveInv, RequestDeletionInv, TeardownInv, EditInv, FailInv, RestartInv
<1> QED
  BY <1>1, <1>2, <1>3 DEF Next

-----------------------------------------------------------------------------

\* The inductive invariant holds of every reachable state.
THEOREM CrossplaneInvariance == Spec => []IInv
  BY InitInv, NextInv, PTL DEF Spec

\* Cluster, infrastructure, ConfigMap, ProviderConfig and worker are well typed.
THEOREM CrossplaneTypeCorrect == Spec => []TypeOK
<1>1. IInv => TypeOK
  BY DEF IInv
<1> QED
  BY <1>1, CrossplaneInvariance, PTL

\* Neither a ConfigMap nor a ProviderConfig of the controller is ever there
\* without its finalizer on the Cluster.
THEOREM ConfigAlwaysGuarded == Spec => []ConfigGuarded
<1>1. IInv => ConfigGuarded
  BY DEF IInv
<1> QED
  BY <1>1, CrossplaneInvariance, PTL
=============================================================================
