------------------------------- MODULE DnsZone -------------------------------
(***************************************************************************)
(* The DNS controllers (controllers/dns.go, and eks_dns.go, which differs  *)
(* in the kind of the object only), the zoner they share                   *)
(* (pkg/resolver/zoner.go) and the Route 53 client with its caches         *)
(* (pkg/aws/route53.go).                                                   *)
(*                                                                         *)
(* For a workload cluster the controller keeps a hosted zone, the records  *)
(* api and * in it and, in public mode, the delegation in the parent zone. *)
(* The finalizer is on the AWSCluster, the deletion is read from the       *)
(* Cluster, and both come from caches of their own.  The zone id, the name *)
(* servers and recent upserts are cached for minutes, in clients that both *)
(* controllers share.                                                      *)
(*                                                                         *)
(* The module follows one cluster name.  The cluster may be deleted and    *)
(* created again; the zone made for the n-th cluster of the name has the   *)
(* id n, which stands for its name servers too.                            *)
(***************************************************************************)
EXTENDS AWSClusterObject

CONSTANTS
  NeedsIRSA,       \* the wildcard waits for the irsa record: not for EKS, not in China
  Modes,           \* DNS modes; "private" also stands for a public zone without a parent
  Targets,         \* names the wildcard may point at
  NoTarget,        \* no wildcard record
  Names,           \* names of the records others may keep in the zone
  EditKinds,       \* what others may change
  FailingCalls,    \* steps that may fail
  MaxFailures,     \* bound on failures
  MaxEdits,        \* bound on changes made by others
  MaxClusters      \* bound on clusters of the name, one after the other

DnsFinalizer == "dns"
Zones  == 1..MaxClusters
NoZone == 0

NormalSteps ==
  {"addFinalizer", "lookup", "create", "tag", "records", "dropWildcard",
   "upsert", "ns", "delegate"}
DeleteSteps ==
  {"findZone", "nsDelete", "undelegate", "deleteRecords", "dropId",
   "deleteZone", "removeFinalizer"}
Steps == {"idle"} \cup NormalSteps \cup DeleteSteps

ASSUME DnsConstantsAssumption ==
  /\ DnsFinalizer \notin OtherFinalizers
  /\ NeedsIRSA \in BOOLEAN
  /\ Modes \subseteq {"public", "private"}
  /\ "ingress" \in Targets /\ NoTarget \notin Targets
  /\ EditKinds \subseteq {"target", "paused", "endpoint", "finalizer", "records"}
  /\ FailingCalls \subseteq NormalSteps \cup DeleteSteps
  /\ MaxFailures \in Nat /\ MaxEdits \in Nat /\ MaxClusters \in Nat \ {0}

\* What the DNS controllers read of an AWSCluster.
DnsClusters ==
  [ phase    : {"live", "deleting", "gone"},
    rv       : Nat,
    fins     : SUBSET (OtherFinalizers \cup {DnsFinalizer}),
    dnsMode  : Modes,
    paused   : BOOLEAN,     \* or without identityRef: reconciliations are skipped
    endpoint : BOOLEAN,     \* the host of the control plane endpoint is set
    target   : Targets ]    \* of the wildcard: an annotation, by default ingress

\* The records of one upsert.
Upserts  == [wild : Targets \cup {NoTarget}, api : BOOLEAN]
NoUpsert == [wild |-> NoTarget, api |-> FALSE]

VARIABLES
  aws, awsCache,   \* the AWSCluster in the API server and in the informer cache
  cl, clCache,     \* the phase of the Cluster, likewise
  inc,             \* the number of the cluster of this name
  \* the worker
  pc, copy,        \* the call it makes next, its copy of the AWSCluster
  zid,             \* the zone id it has looked up, or NoZone
  want,            \* the upsert it has decided on
  queued,          \* the cluster is in its work queue
  \* Route 53
  zone,            \* the id of the zone of that name, or NoZone
  wild, api,       \* the records * and api in it
  others,          \* names of records others keep in it
  delegation,      \* the zone whose name servers the parent zone names, or NoZone
  \* the Route 53 clients
  idCache,         \* zoneNameToIdCache: the id cached for the name, or NoZone
  nsCache,         \* zoneIdToNSRecordCache: zones whose name servers are cached
  \* upsertCache.  The keys hold the id or the name servers of the zone: the
  \* entries of a zone that is gone are never looked up again and are left out.
  upserts,         \* of the cluster's client: upserts to the zone
  delegated,       \* of the delegation client: the zone was delegated to
  peer,            \* the id in a list the other controller has read, or NoZone
  failures, edits

objVars   == <<aws, awsCache, cl, clCache, inc>>
workVars  == <<pc, copy, zid, want, queued>>
zoneVars  == <<zone, wild, api, others, delegation>>
cacheVars == <<idCache, nsCache, upserts, delegated, peer>>
boundVars == <<failures, edits>>
vars == <<objVars, workVars, zoneVars, cacheVars, boundVars>>

TypeOK ==
  /\ aws \in DnsClusters /\ awsCache \in DnsClusters /\ copy \in DnsClusters
  /\ cl \in {"live", "deleting", "gone"} /\ clCache \in {"live", "deleting", "gone"}
  /\ inc \in Zones
  /\ pc \in Steps /\ queued \in BOOLEAN
  /\ zid \in Zones \cup {NoZone}
  /\ want \in Upserts
  /\ zone \in Zones \cup {NoZone}
  /\ wild \in Targets \cup {NoTarget} /\ api \in BOOLEAN
  /\ others \subseteq Names
  /\ delegation \in Zones \cup {NoZone}
  /\ idCache \in Zones \cup {NoZone} /\ peer \in Zones \cup {NoZone}
  /\ nsCache \subseteq Zones /\ delegated \in BOOLEAN
  /\ upserts \subseteq Upserts
  /\ failures \in 0..MaxFailures /\ edits \in 0..MaxEdits

Init ==
  /\ aws \in [phase : {"live"}, rv : {0}, fins : {{}}, dnsMode : Modes, paused : {FALSE},
              endpoint : {"endpoint" \notin EditKinds}, target : {"ingress"}]
  /\ awsCache = aws /\ copy = aws
  /\ cl = "live" /\ clCache = "live"
  /\ inc = 1
  /\ pc = "idle" /\ zid = NoZone /\ want = NoUpsert /\ queued = TRUE
  /\ zone = NoZone /\ wild = NoTarget /\ api = FALSE /\ others = {} /\ delegation = NoZone
  /\ idCache = NoZone /\ nsCache = {} /\ upserts = {} /\ delegated = FALSE /\ peer = NoZone
  /\ failures = 0 /\ edits = 0

-----------------------------------------------------------------------------
Call(l) == pc = l

\* The worker keeps nothing between reconciliations.
Forget ==
  /\ pc' = "idle"
  /\ copy' = [phase |-> "live", rv |-> 0, fins |-> {}, dnsMode |-> copy.dnsMode,
              paused |-> FALSE, endpoint |-> FALSE, target |-> copy.target]
  /\ zid' = NoZone
  /\ want' = NoUpsert

\* The next call; the end of the reconciliation; an error, after which the
\* cluster is queued again.
Goto(l)        == pc' = l /\ UNCHANGED <<copy, queued, zid, want>>
GotoZone(l, z) == pc' = l /\ zid' = z /\ UNCHANGED <<copy, queued, want>>
Return         == Forget /\ UNCHANGED queued
ReturnError    == Forget /\ queued' = TRUE

\* The guards of Reconcile.  A Cluster that is not found is an error, and
\* the cluster stays queued.
Present == awsCache.phase # "gone"
Deletes == clCache = "deleting" /\ DnsFinalizer \in awsCache.fins
Serves  == clCache = "live"

Reconcile ==
  /\ Call("idle") /\ queued
  /\ Present /\ ~awsCache.paused
  /\ \/ Deletes /\ pc' = "findZone"
     \/ Serves /\ pc' = "addFinalizer"
  /\ queued' = FALSE
  /\ copy' = awsCache
  /\ zid' = NoZone
  /\ want' = NoUpsert
  /\ UNCHANGED <<objVars, zoneVars, cacheVars, boundVars>>

\* The early returns of Reconcile and reconcileDelete.
Skip ==
  /\ Call("idle") /\ queued
  /\ ~Present \/ (clCache # "gone" /\ (awsCache.paused \/ (~Deletes /\ ~Serves)))
  /\ queued' = FALSE
  /\ UNCHANGED <<pc, copy, zid, want, objVars, zoneVars, cacheVars, boundVars>>

-----------------------------------------------------------------------------
(* reconcileNormal and CreateHostedZone.                                   *)

\* AddAWSClusterFinalizer patches only when the copy lacks the finalizer.
\* A conflict is an error, and so is a finalizer for an object that is
\* being deleted, which the API server refuses.
AddFinalizerCall ==
  /\ Call("addFinalizer")
  /\ IF DnsFinalizer \in copy.fins THEN Goto("lookup") /\ UNCHANGED aws
     ELSE IF Unconflicted(aws, copy) /\ aws.phase = "live"
     THEN Goto("lookup") /\ aws' = AddFinalizer(aws, DnsFinalizer)
     ELSE ReturnError /\ UNCHANGED aws
  /\ UNCHANGED <<awsCache, cl, clCache, inc, zoneVars, cacheVars, boundVars>>

\* GetHostedZoneIdByName: the cached id, else the listed one, which is cached.
ZoneIdByName == IF idCache # NoZone THEN idCache ELSE zone

Lookup ==
  /\ Call("lookup")
  /\ idCache' = ZoneIdByName
  /\ GotoZone(IF ZoneIdByName = NoZone THEN "create" ELSE "tag", ZoneIdByName)
  /\ UNCHANGED <<objVars, zoneVars, nsCache, upserts, delegated, peer, boundVars>>

CreateHostedZone ==
  /\ Call("create")
  /\ zone' = inc /\ idCache' = inc
  /\ wild' = NoTarget /\ api' = FALSE /\ others' = {}
  /\ GotoZone("tag", inc)
  /\ UNCHANGED <<objVars, delegation, nsCache, upserts, delegated, peer, boundVars>>

\* Fault: a zone that does not exist is skipped.
FaultTagHostedZoneSkip ==
  /\ Call("tag")
  /\ IF zid = zone THEN Goto("records") ELSE Return
  /\ UNCHANGED <<objVars, zoneVars, cacheVars, boundVars>>

\* tagHostedZone: the first call that notices a zone that is gone.  Errors of
\* the associations with more VPCs are only logged.
TagHostedZone ==
  /\ Call("tag")
  /\ IF zid = zone THEN Goto("records") ELSE ReturnError
  /\ UNCHANGED <<objVars, zoneVars, cacheVars, boundVars>>

\* DnsRecordExists
RecordExists(n) == n \in others

(***************************************************************************)
(* getWorkloadClusterDnsRecords: the wildcard waits for the irsa record;   *)
(* it is wanted when its target has a record and is dropped when not.  The *)
(* records are listed, which fails for a zone that does not exist.         *)
(***************************************************************************)
WorkloadClusterDnsRecords ==
  LET wildcard == NeedsIRSA => RecordExists("irsa")
      resolves == RecordExists(copy.target)
  IN  /\ Call("records")
      /\ IF zid = zone
         THEN /\ pc' = IF wildcard /\ ~resolves THEN "dropWildcard" ELSE "upsert"
              /\ want' = [api |-> copy.endpoint,
                          wild |-> IF wildcard /\ resolves THEN copy.target ELSE NoTarget]
              /\ UNCHANGED <<copy, queued, zid>>
         ELSE ReturnError
      /\ UNCHANGED <<objVars, zoneVars, cacheVars, boundVars>>

\* Fault: the cached upserts of the zone are kept.
FaultDeleteDnsRecord ==
  /\ Call("dropWildcard")
  /\ wild' = NoTarget
  /\ Goto("upsert")
  /\ UNCHANGED <<objVars, zone, api, others, delegation, cacheVars, boundVars>>

\* DeleteDnsRecord of the wildcard; the cached upserts of the zone may have
\* included it and are forgotten.
DeleteDnsRecord ==
  /\ Call("dropWildcard")
  /\ wild' = NoTarget
  /\ upserts' = IF wild = NoTarget THEN upserts ELSE {}
  /\ Goto("upsert")
  /\ UNCHANGED <<objVars, zone, api, others, delegation,
                 idCache, nsCache, delegated, peer, boundVars>>

\* AddDnsRecordsToHostedZone: an upsert of the same records that is
\* remembered is not made again.  A zone without a parent is done.
AddDnsRecords ==
  /\ Call("upsert")
  /\ IF want = NoUpsert \/ want \in upserts
     THEN UNCHANGED <<wild, api, upserts>>
     ELSE /\ wild' = IF want.wild = NoTarget THEN wild ELSE want.wild
          /\ api' = (api \/ want.api)
          /\ upserts' = upserts \cup {want}
  /\ IF copy.dnsMode = "public" THEN Goto("ns") ELSE Return
  /\ UNCHANGED <<objVars, zone, others, delegation,
                 idCache, nsCache, delegated, peer, boundVars>>

\* GetHostedZoneNSRecord: cached, or read from the zone, which must exist.
NSRecord(l, next) ==
  /\ Call(l)
  /\ IF zid \in nsCache \cup {zone}
     THEN Goto(next) /\ nsCache' = nsCache \cup {zid}
     ELSE ReturnError /\ UNCHANGED nsCache
  /\ UNCHANGED <<objVars, zoneVars, idCache, upserts, delegated, peer, boundVars>>

\* AddDelegationToParentZone, unless it was made recently.
AddDelegation ==
  /\ Call("delegate")
  /\ delegation' = IF delegated THEN delegation ELSE zid
  /\ delegated' = TRUE
  /\ Return
  /\ UNCHANGED <<objVars, zone, wild, api, others,
                 idCache, nsCache, upserts, peer, boundVars>>

-----------------------------------------------------------------------------
(* reconcileDelete and DeleteHostedZone.                                   *)

\* Fault: the delegation is left to dangle.
FaultFirstDeletion == "deleteRecords"

\* In public mode the delegation goes first.
FirstDeletion == IF copy.dnsMode = "public" THEN "nsDelete" ELSE "deleteRecords"

\* Fault: the zone that is not found goes unnoticed.
FaultFindZone ==
  /\ Call("findZone")
  /\ idCache' = ZoneIdByName
  /\ GotoZone(FirstDeletion, ZoneIdByName)
  /\ UNCHANGED <<objVars, zoneVars, nsCache, upserts, delegated, peer, boundVars>>

\* Fault: a zone that is not found is an error.
FaultFindZoneStrict ==
  /\ Call("findZone")
  /\ idCache' = ZoneIdByName
  /\ IF ZoneIdByName = NoZone THEN ReturnError ELSE GotoZone(FirstDeletion, ZoneIdByName)
  /\ UNCHANGED <<objVars, zoneVars, nsCache, upserts, delegated, peer, boundVars>>

\* Without a zone nothing is left to delete.
FindZone ==
  /\ Call("findZone")
  /\ idCache' = ZoneIdByName
  /\ GotoZone(IF ZoneIdByName = NoZone THEN "removeFinalizer" ELSE FirstDeletion, ZoneIdByName)
  /\ UNCHANGED <<objVars, zoneVars, nsCache, upserts, delegated, peer, boundVars>>

\* DeleteDelegationFromParentZone: a delegation to other name servers is an
\* error, none at all is not.
DeleteDelegation ==
  /\ Call("undelegate")
  /\ IF delegation \in {zid, NoZone}
     THEN Goto("deleteRecords") /\ delegation' = NoZone
     ELSE ReturnError /\ UNCHANGED delegation
  /\ UNCHANGED <<objVars, zone, wild, api, others, cacheVars, boundVars>>

\* Fault: a zone that does not exist has no records to delete.
FaultDeleteDnsRecords ==
  /\ Call("deleteRecords")
  /\ Goto("dropId")
  /\ IF zid = zone
     THEN wild' = NoTarget /\ api' = FALSE /\ others' = {}
     ELSE UNCHANGED <<wild, api, others>>
  /\ UNCHANGED <<objVars, zone, delegation, cacheVars, boundVars>>

\* DeleteDnsRecordsFromHostedZone: whoever made them.
DeleteDnsRecords ==
  /\ Call("deleteRecords")
  /\ IF zid = zone
     THEN Goto("dropId") /\ wild' = NoTarget /\ api' = FALSE /\ others' = {}
     ELSE ReturnError /\ UNCHANGED <<wild, api, others>>
  /\ UNCHANGED <<objVars, zone, delegation, cacheVars, boundVars>>

\* DeleteHostedZone drops the id from the cache before it makes the call.
DropZoneId ==
  /\ Call("dropId")
  /\ idCache' = IF idCache = zid THEN NoZone ELSE idCache
  /\ Goto("deleteZone")
  /\ UNCHANGED <<objVars, zoneVars, nsCache, upserts, delegated, peer, boundVars>>

\* Route 53 refuses to delete a zone with records.  That there is no such
\* zone is no error.
DeleteHostedZone ==
  /\ Call("deleteZone")
  /\ IF zid = zone /\ (wild # NoTarget \/ api \/ others # {})
     THEN ReturnError /\ UNCHANGED <<zone, upserts, delegated>>
     ELSE /\ Goto("removeFinalizer")
          /\ IF zid = zone
             THEN zone' = NoZone /\ upserts' = {} /\ delegated' = FALSE
             ELSE UNCHANGED <<zone, upserts, delegated>>
  /\ UNCHANGED <<objVars, wild, api, others, delegation, idCache, nsCache, peer, boundVars>>

\* A conflict and an object that is gone are errors.
RemoveFinalizerCall ==
  /\ Call("removeFinalizer")
  /\ IF Unconflicted(aws, copy)
     THEN Return /\ aws' = RemoveFinalizer(aws, DnsFinalizer)
     ELSE ReturnError /\ UNCHANGED aws
  /\ UNCHANGED <<awsCache, cl, clCache, inc, zoneVars, cacheVars, boundVars>>

\* A call returns an error, or the operator stops before it.
Fail ==
  /\ pc \in FailingCalls /\ failures < MaxFailures
  /\ failures' = failures + 1
  /\ ReturnError
  /\ UNCHANGED <<objVars, zoneVars, cacheVars, edits>>

-----------------------------------------------------------------------------
(* The caches of the Route 53 clients.                                     *)

\* Entries expire; a restart and a new client empty all of them.
Expire ==
  /\ \/ idCache # NoZone /\ idCache' = NoZone /\ UNCHANGED <<nsCache, upserts, delegated>>
     \/ \E z \in nsCache : nsCache' = nsCache \ {z} /\ UNCHANGED <<idCache, upserts, delegated>>
     \/ \E u \in upserts : upserts' = upserts \ {u} /\ UNCHANGED <<idCache, nsCache, delegated>>
     \/ delegated /\ delegated' = FALSE /\ UNCHANGED <<idCache, nsCache, upserts>>
  /\ UNCHANGED <<objVars, workVars, zoneVars, peer, boundVars>>

\* The other DNS controller looks for a zone of its own with the same
\* client, and caches every zone that was in the list, however late.
PeerLookup ==
  /\ \/ /\ peer = NoZone /\ zone # NoZone
        /\ peer' = zone /\ UNCHANGED idCache
     \/ /\ peer # NoZone
        /\ idCache' = peer /\ peer' = NoZone
  /\ UNCHANGED <<objVars, workVars, zoneVars, nsCache, upserts, delegated, boundVars>>

-----------------------------------------------------------------------------
(* Users, other controllers, the watches.                                  *)

\* Only AWSClusters are watched: their events queue the cluster.  The filter
\* drops changes of the status alone, and no field here is in the status.
SyncAWSCluster ==
  /\ awsCache # aws
  /\ awsCache' = aws
  /\ queued' = TRUE
  /\ UNCHANGED <<aws, cl, clCache, inc, pc, copy, zid, want, zoneVars, cacheVars, boundVars>>

SyncCluster ==
  /\ clCache # cl
  /\ clCache' = cl
  /\ UNCHANGED <<aws, awsCache, cl, inc, workVars, zoneVars, cacheVars, boundVars>>

(***************************************************************************)
(* A Cluster is deleted; CAPI then deletes its AWSCluster and, when that   *)
(* is gone, lets the Cluster go.  The name is used again only once both    *)
(* removals are in the caches.                                             *)
(***************************************************************************)
DeleteCluster ==
  /\ \/ /\ cl = "live"
        /\ cl' = "deleting" /\ UNCHANGED aws
     \/ /\ cl = "deleting" /\ aws.phase = "live"
        /\ aws' = DeletionRequested(aws) /\ UNCHANGED cl
     \/ /\ cl = "deleting" /\ aws.phase = "gone"
        /\ cl' = "gone" /\ UNCHANGED aws
  /\ UNCHANGED <<awsCache, clCache, inc, workVars, zoneVars, cacheVars, boundVars>>

RecreateCluster ==
  /\ cl = "gone" /\ clCache = "gone" /\ awsCache.phase = "gone"
  /\ inc < MaxClusters
  /\ inc' = inc + 1
  /\ cl' = "live"
  /\ aws' = [aws EXCEPT !.phase = "live", !.rv = @ + 1, !.fins = {}, !.paused = FALSE]
  /\ UNCHANGED <<awsCache, clCache, workVars, zoneVars, cacheVars, boundVars>>

Edit(k) == k \in EditKinds /\ edits < MaxEdits /\ edits' = edits + 1

EditAWSCluster ==
  /\ aws.phase # "gone"
  /\ \/ Edit("target") /\ \E t \in Targets \ {aws.target} : aws' = Stored(aws, [aws EXCEPT !.target = t])
     \/ Edit("paused") /\ aws' = Stored(aws, [aws EXCEPT !.paused = ~@])
     \/ Edit("endpoint") /\ ~aws.endpoint /\ aws' = Stored(aws, [aws EXCEPT !.endpoint = TRUE])
     \/ /\ Edit("finalizer")
        /\ \E f \in OtherFinalizers :
             \/ aws.phase = "live" /\ f \notin aws.fins /\ aws' = AddFinalizer(aws, f)
             \/ aws.phase = "deleting" /\ f \in aws.fins /\ aws' = RemoveFinalizer(aws, f)
  /\ UNCHANGED <<awsCache, cl, clCache, inc, workVars, zoneVars, cacheVars, failures>>

\* external-dns and others keep records of their own in the zone.
EditRecords ==
  /\ zone # NoZone /\ Edit("records")
  /\ \E n \in Names : others' \in {others \cup {n}, others \ {n}} \ {others}
  /\ UNCHANGED <<objVars, workVars, zone, wild, api, delegation, cacheVars, failures>>

-----------------------------------------------------------------------------
Worker ==
  \/ AddFinalizerCall \/ Lookup \/ CreateHostedZone \/ TagHostedZone
  \/ WorkloadClusterDnsRecords \/ DeleteDnsRecord \/ AddDnsRecords
  \/ NSRecord("ns", "delegate") \/ AddDelegation
  \/ FindZone \/ NSRecord("nsDelete", "undelegate") \/ DeleteDelegation
  \/ DeleteDnsRecords \/ DropZoneId \/ DeleteHostedZone \/ RemoveFinalizerCall

Next ==
  \/ Reconcile \/ Skip \/ Worker \/ Fail
  \/ Expire \/ PeerLookup
  \/ SyncAWSCluster \/ SyncCluster
  \/ DeleteCluster \/ RecreateCluster \/ EditAWSCluster \/ EditRecords

(***************************************************************************)
(* The worker finishes what it has begun and comes back to a queued        *)
(* cluster; the watches catch up; the cached zone id expires.              *)
(***************************************************************************)
Fairness ==
  /\ WF_vars(Worker) /\ WF_vars(Reconcile \/ Skip)
  /\ WF_vars(SyncAWSCluster) /\ WF_vars(SyncCluster)
  /\ WF_vars(Expire /\ idCache' # idCache)

Spec == Init /\ [][Next]_vars
FairSpec == Spec /\ Fairness

-----------------------------------------------------------------------------
(* Properties.                                                             *)

(***************************************************************************)
(* Zone and delegation are guarded by the finalizer on the AWSCluster: it  *)
(* is there before the zone is made, and goes only when neither is left,   *)
(* whatever the clients have cached of an earlier zone of the same name.   *)
(* The deletion is the one the controller acts on: it is in the cache of   *)
(* Clusters, and no earlier reconciliation is under way.                   *)
(***************************************************************************)
OwnPhase ==
  IF aws.phase = "gone" THEN "gone"
  ELSE IF clCache = "deleting" /\ pc \notin NormalSteps THEN "deleting" ELSE "live"

phases  == [u \in Zones |-> IF u < inc THEN "gone" ELSE IF u > inc THEN "live" ELSE OwnPhase]
guarded == [u \in Zones |-> u = inc /\ DnsFinalizer \in aws.fins]
kept    == [u \in Zones |-> u = inc /\ (zone # NoZone \/ delegation # NoZone)]

Guard == INSTANCE GuardedResource WITH
  Objects <- Zones, phase <- phases, guarded <- guarded, resource <- kept

GuardsZone == Guard!Spec

(***************************************************************************)
(* The parent zone never delegates to a zone that does not exist: it is    *)
(* delegated to last and undelegated first, and a stale zone id, for which *)
(* the name servers are still cached, is noticed before the delegation is  *)
(* written from them.                                                      *)
(***************************************************************************)
NoDanglingDelegation == delegation \in {zone, NoZone}

(***************************************************************************)
(* While the Cluster lives, a remembered upsert stands for records that    *)
(* are there: DeleteDnsRecord forgets the upserts of the zone.             *)
(***************************************************************************)
RememberedUpsertsPresent ==
  cl = "live" => \A u \in upserts :
    (u.wild # NoTarget => wild # NoTarget) /\ (u.api => api)

Ready  == aws.phase = "live" /\ cl = "live" /\ ~aws.paused /\ aws.endpoint
Served == zone # NoZone /\ api /\ (aws.dnsMode = "public" => delegation = zone)

\* A cluster gets its zone, its api record and the delegation to this zone,
\* whatever was cached of an earlier one and whatever failed.
EventuallyServed == Ready ~> (Served \/ ~Ready)

(***************************************************************************)
(* A cluster that is deleted is let go, provided that the deletion of the  *)
(* Cluster, which raises no event, is in the cache when the AWSCluster is  *)
(* deleted: CAPI deletes the AWSCluster last, after all machines.          *)
(***************************************************************************)
ZoneReleased ==
  [](aws.phase = "deleting" => clCache # "live") =>
    (aws.phase = "deleting" ~> (DnsFinalizer \notin aws.fins \/ aws.paused))
=============================================================================
