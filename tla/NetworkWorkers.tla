--------------------------- MODULE NetworkWorkers ---------------------------
(***************************************************************************)
(* What the five controllers of the network topology share: the AWSCluster *)
(* objects they serve, the informer cache they all read, a worker and a    *)
(* work queue each, and the AWS resources they keep.  A controller is      *)
(* named after its finalizer:                                              *)
(*                                                                         *)
(*   "mc"          transit gateway and prefix list of the management       *)
(*                 cluster (ManagementClusterNetwork)                      *)
(*   "attachment"  attachment of a cluster to the transit gateway          *)
(*                 (TransitGatewayAttachment)                              *)
(*   "entry"       entry of a cluster in the prefix list (PrefixListEntry) *)
(*   "route"       routes in the cluster's route tables (RouteTables)      *)
(*   "share"       resource shares with the cluster's account              *)
(*                 (ResourceShares)                                        *)
(*                                                                         *)
(* A reconciliation that ends, before its first write, with an error or    *)
(* with RequeueAfter leaves the cluster in the queue and changes nothing:  *)
(* it is no step of the model.                                             *)
(***************************************************************************)
EXTENDS AWSClusterObject, FiniteSets

CONSTANTS
  Clusters,        \* the AWSClusters followed, the management cluster's too or not
  MC,              \* the management cluster; outside Clusters its network is ready
  Controllers,     \* the controllers that run
  SameAccount,     \* clusters in the account of the transit gateway
  UserArns,        \* sets of ARN annotations users may have put on a workload cluster
  Modes,           \* network topology modes
  Networks,        \* the network of a cluster at first
  Cidrs, CidrOf,   \* address ranges, and the one of each cluster's VPC
  Tables,          \* the route tables of a cluster
  MaxEntries,      \* prefixListMaxEntries
  Other,           \* another writer of the prefix list
  EditKinds,       \* what others may change
  MaxEdits,        \* bound on changes made by others
  MaxFailures      \* bound on failed calls and restarts

FinalizerManagementCluster        == "mc"
FinalizerTransitGatewayAttachment == "attachment"
FinalizerPrefixListEntry          == "entry"
RouteFinalizer                    == "route"
FinalizerResourceShare            == "share"

\* The controllers that defer UpdateStatus.
WritesStatus ==
  {FinalizerManagementCluster, FinalizerTransitGatewayAttachment, FinalizerPrefixListEntry}

AllControllers == {"mc", "attachment", "entry", "route", "share"}

Arns == {"tgw", "pl"}
Lists == Clusters \cup {MC}    \* a prefix list of the MC, or a user's for one cluster

ASSUME NetworkConstantsAssumption ==
  /\ Controllers \subseteq AllControllers
  /\ AllControllers \cap OtherFinalizers = {}
  /\ SameAccount \subseteq Clusters
  /\ UserArns \subseteq SUBSET Arns
  /\ Modes \subseteq {"GiantSwarmManaged", "UserManaged", "None"} /\ Modes # {}
  /\ Networks \subseteq {"none", "vpc", "ready"}
  /\ CidrOf \in [Clusters -> Cidrs]
  /\ Other \notin Clusters
  /\ EditKinds \subseteq {"network", "paused", "entries"}
  /\ MaxEntries \in Nat /\ MaxEdits \in Nat /\ MaxFailures \in Nat

\* Conditions the controllers set.  InProgress stands for NetworkTopologyReady
\* being present and False.
TransitGatewayAttached == "TransitGatewayAttached"
PrefixListEntriesReady == "PrefixListEntriesReady"
TransitGatewayCreated  == "TransitGatewayCreated"
InProgress             == "InProgress"

NetClusters ==
  [ phase   : {"live", "deleting", "gone"},
    rv      : Nat,
    fins    : SUBSET (OtherFinalizers \cup Controllers),
    conds   : SUBSET {TransitGatewayAttached, PrefixListEntriesReady,
                      TransitGatewayCreated, InProgress},
    mode    : Modes,
    paused  : BOOLEAN,
    network : {"none", "vpc", "ready"},   \* VPC.ID known, subnets created
    arns    : SUBSET Arns ]               \* the ARN annotations that are set

Entries == [list : Lists, cidr : Cidrs, by : Clusters \cup {Other}]

Steps ==
  {"idle", "addFinalizer", "removeFinalizer", "status",
   "attach", "detach", "lookup", "version", "modify", "addRoutes", "removeRoutes",
   "shareTgw", "sharePl", "unshareTgw", "unsharePl",
   "gateway", "annotateGateway", "list", "annotateList", "deleteGateway", "deleteList"}

VARIABLES
  obj, cache,      \* the AWSClusters in the API server and in the informer cache
  w,               \* w[k]: the worker of a controller
  queue,           \* queue[k]: the clusters in its work queue
  gateway,         \* the management cluster's transit gateway
  plist,           \* its prefix list exists
  att,             \* att[c]: the attachment of the cluster's VPC
  entries,         \* the entries of the prefix lists
  version,         \* version[l]: the version of a prefix list
  routes,          \* routes[c]: route tables that lead to the transit gateway
  shares,          \* shares[c]: what is shared with the cluster's account
  failures, edits

objVars   == <<obj, cache>>
workVars  == <<w, queue>>
mcVars    == <<gateway, plist>>
entryVars == <<entries, version>>
awsVars   == <<mcVars, att, entryVars, routes, shares>>
boundVars == <<failures, edits>>
vars == <<objVars, workVars, awsVars, boundVars>>

\* A worker: its next call, its cluster and copy of it, the ARNs it found, the
\* version of the prefix list it read, and whether it ends with a requeue.
Workers ==
  [ pc : Steps, cl : Clusters \cup {MC}, copy : NetClusters, arns : SUBSET Arns,
    version : Nat, again : BOOLEAN ]

Unread ==
  [ phase |-> "live", rv |-> 0, fins |-> {}, conds |-> {}, mode |-> CHOOSE m \in Modes : TRUE,
    paused |-> FALSE, network |-> "none", arns |-> {} ]
Idle ==
  [pc |-> "idle", cl |-> MC, copy |-> Unread, arns |-> {}, version |-> 0, again |-> FALSE]

TypeOK ==
  /\ obj \in [Clusters -> NetClusters] /\ cache \in [Clusters -> NetClusters]
  /\ w \in [Controllers -> Workers]
  /\ queue \in [Controllers -> SUBSET Clusters]
  /\ gateway \in {"none", "pending", "available", "deleted"} /\ plist \in BOOLEAN
  /\ att \in [Clusters -> {"none", "available", "deleting", "deleted"}]
  /\ entries \subseteq Entries
  /\ version \in [Lists -> Nat]
  /\ routes \in [Clusters -> SUBSET Tables]
  /\ shares \in [Clusters -> SUBSET Arns]
  /\ failures \in 0..MaxFailures /\ edits \in 0..MaxEdits

Init ==
  /\ obj \in {f \in [Clusters -> [phase : {"live"}, rv : {0}, fins : {OtherFinalizers},
                                  conds : {{}}, mode : Modes, paused : {FALSE},
                                  network : Networks, arns : UserArns \cup {{}}]] :
                MC \in Clusters => f[MC].arns = {} /\ f[MC].mode = "GiantSwarmManaged"}
  /\ cache = obj
  /\ w = [k \in Controllers |-> Idle]
  /\ queue = [k \in Controllers |-> Clusters]
  /\ gateway = (IF MC \in Clusters THEN "none" ELSE "available")
  /\ plist = (MC \notin Clusters)
  /\ att = [c \in Clusters |-> "none"]
  /\ entries = {}
  /\ version = [l \in Lists |-> 0]
  /\ routes = [c \in Clusters |-> {}]
  /\ shares = [c \in Clusters |-> {}]
  /\ failures = 0 /\ edits = 0

-----------------------------------------------------------------------------
(* A worker and its queue. *)

\* The worker k is about to make the call l.
Call(k, l) == k \in Controllers /\ w[k].pc = l

Cl(k)   == w[k].cl
Copy(k) == w[k].copy

\* The worker k is free and takes the cluster c.
Takes(k, c) == Call(k, "idle") /\ c \in queue[k]

\* The ARNs a reconciliation of c finds: those of c's annotations, for the
\* others those of the management cluster's.
KnownArns(c) == cache[c].arns \cup (IF MC \in Clusters THEN cache[MC].arns ELSE Arns)

\* Every controller needs the management cluster's AWSCluster.
ManagementClusterFound == MC \in Clusters => cache[MC].phase # "gone"

\* Begin with the call l; return at once.
Begin(k, c, l) ==
  /\ w' = [w EXCEPT ![k] = [Idle EXCEPT !.pc = l, !.cl = c, !.copy = cache[c],
                                        !.arns = KnownArns(c)]]
  /\ queue' = [queue EXCEPT ![k] = @ \ {c}]
Skip(k, c) == w' = w /\ queue' = [queue EXCEPT ![k] = @ \ {c}]

\* The next call; the end of a reconciliation; an end after which the cluster
\* is queued again (RequeueAfter).
Goto(k, l) == w' = [w EXCEPT ![k].pc = l] /\ UNCHANGED queue
Return(k)  == w' = [w EXCEPT ![k] = Idle] /\ UNCHANGED queue
Requeue(k) ==
  /\ w' = [w EXCEPT ![k] = Idle]
  /\ queue' = [queue EXCEPT ![k] = @ \cup {Cl(k)}]

\* Fault: an error is taken for the end of the work.
FaultError(k) ==
  IF k \in WritesStatus
  THEN w' = [w EXCEPT ![k].pc = "status"] /\ UNCHANGED queue
  ELSE Return(k)

\* An error queues the cluster again; what the controller has put into the
\* status of its copy by then is stored by the deferred UpdateStatus.
Error(k) ==
  IF k \in WritesStatus
  THEN w' = [w EXCEPT ![k].pc = "status", ![k].again = TRUE] /\ UNCHANGED queue
  ELSE Requeue(k)

\* The reconciliation succeeded; MarkReady sets the condition in the copy.
MarkReady(k, cond) ==
  /\ w' = [w EXCEPT ![k].pc = "status", ![k].copy.conds = @ \cup {cond}]
  /\ UNCHANGED queue

-----------------------------------------------------------------------------
(* The writes to the AWSCluster. *)

\* The response of a patch is decoded into the copy.  An empty list of
\* conditions is not in the response and leaves the one of the copy alone.
Decoded(o, copy) ==
  [o EXCEPT !.conds = IF o.conds = {} THEN copy.conds ELSE o.conds]

\* What the route and share controllers still read of their copy then.
Used(copy) == [Unread EXCEPT !.network = copy.network]

\* What follows the finalizer in reconcileNormal.
AfterFinalizer(k) ==
  CASE k = "mc"         -> "gateway"
    [] k = "attachment" -> "attach"
    [] k = "entry"      -> "lookup"
    [] k = "route"      -> "addRoutes"
    [] k = "share"      -> "shareTgw"

\* Fault: the finalizer is not stored.
FaultAddFinalizerCall(k) ==
  /\ Call(k, "addFinalizer")
  /\ Goto(k, AfterFinalizer(k))
  /\ UNCHANGED <<objVars, awsVars, boundVars>>

\* AddFinalizer patches under the optimistic lock, with the finalizer on the
\* copy or not; the route controller's client patches only when it is not.
AddFinalizerCall(k) ==
  /\ Call(k, "addFinalizer")
  /\ LET c == Cl(k)
         o == AddFinalizer(obj[c], k)
     IN IF k = "route" /\ k \in Copy(k).fins
        THEN Goto(k, AfterFinalizer(k)) /\ UNCHANGED obj
        ELSE IF Unconflicted(obj[c], Copy(k))
        THEN /\ obj' = [obj EXCEPT ![c] = o]
             /\ w' = [w EXCEPT ![k].pc = AfterFinalizer(k),
                               ![k].copy = IF k \in WritesStatus THEN Decoded(o, @) ELSE Used(@)]
             /\ UNCHANGED queue
        ELSE Error(k) /\ UNCHANGED obj
  /\ UNCHANGED <<cache, awsVars, boundVars>>

\* The end of reconcileDelete.  A deferred UpdateStatus has nothing to store.
RemoveFinalizerCall(k) ==
  /\ Call(k, "removeFinalizer")
  /\ LET c == Cl(k)
     IN IF Unconflicted(obj[c], Copy(k))
        THEN obj' = [obj EXCEPT ![c] = RemoveFinalizer(@, k)] /\ Return(k)
        ELSE Error(k) /\ UNCHANGED obj
  /\ UNCHANGED <<cache, awsVars, boundVars>>

\* The deferred UpdateStatus: refused when the AWSCluster has changed since the
\* copy was last read or written, and the refusal is ignored.
UpdateStatus(k) ==
  /\ Call(k, "status")
  /\ LET c == Cl(k)
     IN obj' = [obj EXCEPT ![c] =
                  IF Unconflicted(@, Copy(k))
                  THEN Stored(@, [@ EXCEPT !.conds = Copy(k).conds]) ELSE @]
  /\ IF w[k].again THEN Requeue(k) ELSE Return(k)
  /\ UNCHANGED <<cache, awsVars, boundVars>>

-----------------------------------------------------------------------------
(* The surroundings of the controllers. *)

\* Fault: the filter does not look at the deletion.
FaultOnlyStatusChanged(old, new) ==
  [old EXCEPT !.rv = new.rv, !.conds = new.conds, !.phase = new.phase] = new

\* Nothing the event filter lets through differs between the two.
OnlyStatusChanged(old, new) ==
  [old EXCEPT !.rv = new.rv, !.conds = new.conds] = new

\* The cache catches up; one informer serves all controllers.
Observe(c) ==
  /\ cache[c] # obj[c]
  /\ cache' = [cache EXCEPT ![c] = obj[c]]
  /\ queue' = IF OnlyStatusChanged(cache[c], obj[c]) THEN queue
              ELSE [k \in Controllers |-> queue[k] \cup {c}]
  /\ UNCHANGED <<obj, w, awsVars, boundVars>>

\* Someone deletes a cluster; the management cluster after all others.
RequestDeletion(c) ==
  /\ obj[c].phase = "live"
  /\ c = MC => \A d \in Clusters \ {MC} : obj[d].phase = "gone"
  /\ obj' = [obj EXCEPT ![c] = DeletionRequested(@)]
  /\ UNCHANGED <<cache, workVars, awsVars, boundVars>>

\* Somebody else writes to the stored object.
Write(c, new) == obj' = [obj EXCEPT ![c] = Stored(@, new)]

\* The infrastructure controller finishes with a cluster that is deleted.
ReleaseOther(c) ==
  /\ obj[c].phase = "deleting" /\ obj[c].fins \cap OtherFinalizers # {}
  /\ Write(c, [obj[c] EXCEPT !.fins = @ \ OtherFinalizers])
  /\ UNCHANGED <<cache, workVars, awsVars, boundVars>>

\* Others write to the AWSCluster: the VPC and then the subnets are there, or
\* the pause annotation comes or goes.
Edit(c) ==
  /\ edits < MaxEdits /\ edits' = edits + 1
  /\ obj[c].phase # "gone"
  /\ \/ /\ "network" \in EditKinds /\ obj[c].network # "ready"
        /\ Write(c, [obj[c] EXCEPT !.network = IF @ = "none" THEN "vpc" ELSE "ready"])
     \/ "paused" \in EditKinds /\ Write(c, [obj[c] EXCEPT !.paused = ~@])
  /\ UNCHANGED <<cache, workVars, awsVars, failures>>

\* Any call fails; the error of UpdateStatus is ignored.  A call whose effect
\* took place and whose answer was lost is the failure of the next one.
Fail(k) ==
  /\ failures < MaxFailures /\ failures' = failures + 1
  /\ w[k].pc # "idle"
  /\ IF w[k].pc = "status" /\ ~w[k].again THEN Return(k)
     ELSE IF w[k].pc = "status" THEN Requeue(k)
     ELSE Error(k)
  /\ UNCHANGED <<objVars, awsVars, edits>>

\* The operator stops and starts again: no worker remembers anything, the
\* cache is filled anew and every cluster is queued.
Restart ==
  /\ failures < MaxFailures /\ failures' = failures + 1
  /\ w' = [k \in Controllers |-> Idle]
  /\ cache' = obj
  /\ queue' = [k \in Controllers |-> Clusters]
  /\ UNCHANGED <<obj, awsVars, edits>>
=============================================================================
