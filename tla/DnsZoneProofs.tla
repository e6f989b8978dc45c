---------------------------- MODULE DnsZoneProofs ----------------------------
(***************************************************************************)
(* Safety of DnsZone for any number of clusters of the name, one after the *)
(* other, any records of others, any failures and edits, and caches that   *)
(* expire when they like: the zone and its delegation are guarded by the   *)
(* finalizer, and the delegation never dangles.                            *)
(***************************************************************************)
EXTENDS DnsZone, TLAPS

\* The zone id the worker holds is that of the zone there is, in all calls
\* after the first that notices one that is gone.
ZoneSteps == {"records", "dropWildcard", "upsert", "ns", "delegate", "dropId", "deleteZone"}

\* The worker has a zone id.
IdSteps == ZoneSteps \cup {"tag", "nsDelete", "undelegate", "deleteRecords"}

\* The delegation is gone.
Undelegated == {"deleteRecords", "dropId", "deleteZone", "removeFinalizer"}

Guarded == DnsFinalizer \in aws.fins

\* How the AWSCluster, the Cluster and their caches depend on each other.  The
\* finalizer comes off only when the deletion of the Cluster is in the cache: as
\* long as that or the Cluster itself is live, the cached finalizer is real.
ObjectsInv ==
  /\ aws.phase = "gone" => aws.fins = {}
  /\ awsCache.phase = "gone" => awsCache.fins = {}
  /\ cl = "gone" => aws.phase = "gone"
  /\ clCache = "deleting" => cl # "live"
  /\ awsCache.dnsMode = aws.dnsMode /\ copy.dnsMode = aws.dnsMode
  /\ ("live" \in {cl, clCache} /\ DnsFinalizer \in awsCache.fins) => Guarded

\* What the worker relies on at each call.
WorkerInv ==
  /\ (pc = "addFinalizer" /\ DnsFinalizer \in copy.fins) => Guarded
  /\ pc \in NormalSteps \ {"addFinalizer"} => Guarded
  /\ (pc \in DeleteSteps /\ Guarded) => cl = "deleting" /\ clCache = "deleting"
  /\ pc \in ZoneSteps => zid = zone
  /\ pc \in IdSteps => zid # NoZone
  /\ pc \in {"create", "removeFinalizer"} => zone = NoZone
  /\ pc \in Undelegated => delegation = NoZone
  /\ pc \in {"ns", "delegate"} => aws.dnsMode = "public"

\* A zone is guarded, and nothing is remembered of one that is gone.
ZoneInv ==
  /\ zone # NoZone => Guarded
  /\ NoDanglingDelegation
  /\ delegation # NoZone => aws.dnsMode = "public"
  /\ zone = NoZone => upserts = {}
  /\ RememberedUpsertsPresent

IInv == TypeOK /\ ObjectsInv /\ WorkerInv /\ ZoneInv

-----------------------------------------------------------------------------
(* The writes to the AWSCluster.                                           *)

LEMMA StoredFacts ==
  ASSUME NEW o \in DnsClusters, NEW n \in DnsClusters, n.phase = o.phase, o.phase # "gone"
  PROVE  LET m == Stored(o, n)
         IN  /\ m \in DnsClusters /\ m.fins = n.fins /\ m.dnsMode = n.dnsMode
             /\ m.phase \in {o.phase, "gone"} /\ (m.phase = "gone" => n.fins = {})
<1>1. CASE n = o
  BY <1>1 DEF Stored, DnsClusters
<1>2. CASE n # o
  <2> DEFINE p == IF n.phase = "deleting" /\ n.fins = {} THEN "gone" ELSE n.phase
             r == o.rv + 1
  <2>1. Stored(o, n) = [n EXCEPT !.rv = r, !.phase = p]
    BY <1>2 DEF Stored
  <2>2. /\ r \in Nat /\ p \in {"live", "deleting", "gone"}
        /\ p \in {o.phase, "gone"} /\ (p = "gone" => n.fins = {})
    BY DEF DnsClusters
  <2> HIDE DEF p, r
  <2> DEFINE m == [n EXCEPT !.rv = r, !.phase = p]
  <2>3. m \in DnsClusters /\ m.fins = n.fins /\ m.dnsMode = n.dnsMode /\ m.phase = p
    BY <2>2 DEF DnsClusters
  <2> HIDE DEF m
  <2> QED
    BY <2>1, <2>2, <2>3 DEF m
<1> QED
  BY <1>1, <1>2

\* The finalizer patches, of this controller and of others.
LEMMA FinalizerFacts ==
  ASSUME NEW o \in DnsClusters, o.phase # "gone", NEW f \in OtherFinalizers \cup {DnsFinalizer}
  PROVE  /\ LET m == AddFinalizer(o, f)
            IN  /\ m \in DnsClusters /\ m.fins = o.fins \cup {f} /\ m.dnsMode = o.dnsMode
                /\ m.phase = o.phase
         /\ LET m == RemoveFinalizer(o, f)
            IN  /\ m \in DnsClusters /\ m.fins = o.fins \ {f} /\ m.dnsMode = o.dnsMode
                /\ m.phase \in {o.phase, "gone"} /\ (m.phase = "gone" => m.fins = {})
<1>1. ASSUME NEW s \in SUBSET (OtherFinalizers \cup {DnsFinalizer})
      PROVE  LET n == [o EXCEPT !.fins = s]
             IN  n \in DnsClusters /\ n.phase = o.phase /\ n.fins = s /\ n.dnsMode = o.dnsMode
  BY DEF DnsClusters
<1>2. ASSUME NEW s \in SUBSET (OtherFinalizers \cup {DnsFinalizer})
      PROVE  LET m == Stored(o, [o EXCEPT !.fins = s])
             IN  /\ m \in DnsClusters /\ m.fins = s /\ m.dnsMode = o.dnsMode
                 /\ m.phase \in {o.phase, "gone"} /\ (m.phase = "gone" => s = {})
  <2> DEFINE n == [o EXCEPT !.fins = s]
  <2>1. n \in DnsClusters /\ n.phase = o.phase /\ n.fins = s /\ n.dnsMode = o.dnsMode
    BY <1>1
  <2> HIDE DEF n
  <2>2. LET m == Stored(o, n)
        IN  /\ m \in DnsClusters /\ m.fins = s /\ m.dnsMode = o.dnsMode
            /\ m.phase \in {o.phase, "gone"} /\ (m.phase = "gone" => s = {})
    BY <2>1, StoredFacts
  <2> QED
    BY <2>2 DEF n
<1>3. PICK s, t : s = o.fins \cup {f} /\ t = o.fins \ {f}
  OBVIOUS
<1>4. s \in SUBSET (OtherFinalizers \cup {DnsFinalizer}) /\ t \in SUBSET (OtherFinalizers \cup {DnsFinalizer})
  BY <1>3 DEF DnsClusters
<1>5. AddFinalizer(o, f) = Stored(o, [o EXCEPT !.fins = s])
  BY <1>3 DEF AddFinalizer
<1>6. RemoveFinalizer(o, f) = Stored(o, [o EXCEPT !.fins = t])
  BY <1>3 DEF RemoveFinalizer
<1>7. PICK m : m = Stored(o, [o EXCEPT !.fins = s])
  OBVIOUS
<1>8. /\ m \in DnsClusters /\ m.fins = s /\ m.dnsMode = o.dnsMode
      /\ m.phase \in {o.phase, "gone"} /\ (m.phase = "gone" => s = {})
  BY <1>2, <1>4, <1>7
<1>9. PICK k : k = Stored(o, [o EXCEPT !.fins = t])
  OBVIOUS
<1>10. /\ k \in DnsClusters /\ k.fins = t /\ k.dnsMode = o.dnsMode
       /\ k.phase \in {o.phase, "gone"} /\ (k.phase = "gone" => t = {})
  BY <1>2, <1>4, <1>9
<1> QED
  BY <1>3, <1>5, <1>6, <1>7, <1>8, <1>9, <1>10

LEMMA DeletionFacts ==
  ASSUME NEW o \in DnsClusters, o.phase = "live"
  PROVE  LET m == DeletionRequested(o)
         IN  /\ m \in DnsClusters /\ m.fins = o.fins /\ m.dnsMode = o.dnsMode
             /\ m.phase = IF o.fins = {} THEN "gone" ELSE "deleting"
<1> DEFINE p == IF o.fins = {} THEN "gone" ELSE "deleting"
           r == o.rv + 1
<1>1. DeletionRequested(o) = [o EXCEPT !.rv = r, !.phase = p]
  BY DEF DeletionRequested
<1>2. r \in Nat /\ p \in {"live", "deleting", "gone"}
  BY DEF DnsClusters
<1> HIDE DEF p, r
<1> DEFINE m == [o EXCEPT !.rv = r, !.phase = p]
<1>3. m \in DnsClusters /\ m.fins = o.fins /\ m.dnsMode = o.dnsMode /\ m.phase = p
  BY <1>2 DEF DnsClusters
<1> HIDE DEF m
<1> QED
  BY <1>1, <1>3 DEF m, p

-----------------------------------------------------------------------------
(* The invariant is inductive.                                             *)

USE DEF NoZone

LEMMA InitInv ==
  ASSUME Init PROVE IInv
<1>1. aws.phase = "live" /\ aws.fins = {} /\ aws.dnsMode \in Modes /\ aws \in DnsClusters
  <2>1. PICK e : e = ("endpoint" \notin EditKinds)
    OBVIOUS
  <2>2. e \in BOOLEAN
    BY <2>1, Zenon
  <2>3. aws \in [phase : {"live"}, rv : {0}, fins : {{}}, dnsMode : Modes, paused : {FALSE},
                 endpoint : {e}, target : {"ingress"}]
    BY <2>1 DEF Init
  <2>4. /\ aws.phase = "live" /\ aws.rv = 0 /\ aws.fins = {} /\ aws.dnsMode \in Modes
        /\ aws.paused = FALSE /\ aws.endpoint = e /\ aws.target = "ingress"
        /\ aws = [phase |-> aws.phase, rv |-> aws.rv, fins |-> aws.fins, dnsMode |-> aws.dnsMode,
                  paused |-> aws.paused, endpoint |-> aws.endpoint, target |-> aws.target]
    BY <2>3
  <2>5. aws.paused \in BOOLEAN
    BY <2>4, Zenon
  <2>6. aws \in DnsClusters
    BY <2>2, <2>4, <2>5, DnsConstantsAssumption DEF DnsClusters
  <2> QED
    BY <2>4, <2>6
<1>2. /\ awsCache = aws /\ copy = aws /\ cl = "live" /\ clCache = "live" /\ inc = 1
      /\ pc = "idle" /\ zid = NoZone /\ want = NoUpsert /\ queued = TRUE
      /\ zone = NoZone /\ wild = NoTarget /\ api = FALSE /\ others = {} /\ delegation = NoZone
      /\ idCache = NoZone /\ nsCache = {} /\ upserts = {} /\ delegated = FALSE /\ peer = NoZone
      /\ failures = 0 /\ edits = 0
  BY DEF Init
<1>3. inc \in Zones /\ want \in Upserts /\ pc \in Steps
  BY <1>2, DnsConstantsAssumption DEF Zones, NoUpsert, Upserts, Steps
<1>4. TypeOK
  <2>1. queued \in BOOLEAN /\ api \in BOOLEAN /\ delegated \in BOOLEAN
    BY <1>2, Zenon
  <2> QED
    BY <1>1, <1>2, <1>3, <2>1, DnsConstantsAssumption DEF TypeOK
<1>5. ObjectsInv
  BY <1>1, <1>2 DEF ObjectsInv
<1>6. WorkerInv /\ ZoneInv
  BY <1>2 DEF WorkerInv, ZoneInv, NoDanglingDelegation, RememberedUpsertsPresent, NormalSteps,
     DeleteSteps, ZoneSteps, IdSteps, Undelegated
<1> QED
  BY <1>4, <1>5, <1>6 DEF IInv

LEMMA ForgetFacts ==
  ASSUME TypeOK, Forget
  PROVE  /\ pc' = "idle" /\ pc' \in Steps /\ copy' \in DnsClusters /\ copy'.dnsMode = copy.dnsMode
         /\ zid' = NoZone /\ want' \in Upserts
<1>1. copy' \in DnsClusters /\ copy'.dnsMode = copy.dnsMode
  BY DEF Forget, TypeOK, DnsClusters
<1> QED
  BY <1>1 DEF Forget, Steps, NoUpsert, Upserts

\* A reconciliation may end at any point.
LEMMA WorkerEnds ==
  ASSUME IInv, Forget, queued' \in BOOLEAN, UNCHANGED <<objVars, zoneVars, cacheVars>>,
         failures' \in 0..MaxFailures, edits' \in 0..MaxEdits
  PROVE  IInv'
<1>1. /\ pc' = "idle" /\ pc' \in Steps /\ copy' \in DnsClusters /\ copy'.dnsMode = copy.dnsMode
      /\ zid' = NoZone /\ want' \in Upserts
  BY ForgetFacts DEF IInv
<1>2. /\ aws' = aws /\ awsCache' = awsCache /\ cl' = cl /\ clCache' = clCache /\ inc' = inc
      /\ zone' = zone /\ wild' = wild /\ api' = api /\ others' = others /\ delegation' = delegation
      /\ idCache' = idCache /\ nsCache' = nsCache /\ upserts' = upserts /\ delegated' = delegated
      /\ peer' = peer
  BY DEF objVars, zoneVars, cacheVars
<1>3. TypeOK'
  BY <1>1, <1>2 DEF IInv, TypeOK
<1>4. ObjectsInv'
  BY <1>1, <1>2 DEF IInv, ObjectsInv, Guarded
<1>5. WorkerInv' /\ ZoneInv'
  BY <1>1, <1>2 DEF IInv, WorkerInv, ZoneInv, Guarded, NoDanglingDelegation,
     RememberedUpsertsPresent, NormalSteps, DeleteSteps, ZoneSteps, IdSteps, Undelegated
<1> QED
  BY <1>3, <1>4, <1>5 DEF IInv

LEMMA ReturnErrorInv ==
  ASSUME IInv, ReturnError, UNCHANGED <<objVars, zoneVars, cacheVars, boundVars>>
  PROVE  IInv'
<1>1. failures' \in 0..MaxFailures /\ edits' \in 0..MaxEdits
  BY DEF IInv, TypeOK, boundVars
<1> QED
  BY <1>1, WorkerEnds DEF ReturnError

\* The others write to the AWSCluster and leave the finalizer as it is.
LEMMA ForeignWrite ==
  ASSUME IInv, aws' \in DnsClusters, aws'.dnsMode = aws.dnsMode,
         aws'.phase = "gone" => aws'.fins = {}, aws.phase = "gone" => aws'.phase = "gone",
         Guarded' <=> Guarded,
         UNCHANGED <<awsCache, cl, clCache, inc, workVars, zoneVars, cacheVars, failures>>,
         edits' \in 0..MaxEdits
  PROVE  IInv'
<1>1. /\ awsCache' = awsCache /\ cl' = cl /\ clCache' = clCache /\ inc' = inc
      /\ pc' = pc /\ copy' = copy /\ zid' = zid /\ want' = want /\ queued' = queued
      /\ zone' = zone /\ wild' = wild /\ api' = api /\ others' = others /\ delegation' = delegation
      /\ idCache' = idCache /\ nsCache' = nsCache /\ upserts' = upserts /\ delegated' = delegated
      /\ peer' = peer /\ failures' = failures
  BY DEF workVars, zoneVars, cacheVars
<1>2. TypeOK'
  BY <1>1 DEF IInv, TypeOK
<1>3. ObjectsInv'
  BY <1>1 DEF IInv, ObjectsInv
<1>4. WorkerInv' /\ ZoneInv'
  BY <1>1 DEF IInv, WorkerInv, ZoneInv, NoDanglingDelegation, RememberedUpsertsPresent
<1> QED
  BY <1>2, <1>3, <1>4 DEF IInv

USE DEF Guarded, NoDanglingDelegation, NormalSteps, DeleteSteps, ZoneSteps, IdSteps, Undelegated

LEMMA ReconcileInv ==
  ASSUME IInv, Reconcile PROVE IInv'
<1>1. /\ copy' = awsCache /\ zid' = NoZone /\ want' = NoUpsert /\ queued' = FALSE
      /\ \/ Deletes /\ pc' = "findZone"
         \/ clCache = "live" /\ pc' = "addFinalizer"
      /\ aws' = aws /\ awsCache' = awsCache /\ cl' = cl /\ clCache' = clCache /\ inc' = inc
      /\ zone' = zone /\ wild' = wild /\ api' = api /\ others' = others
      /\ delegation' = delegation /\ idCache' = idCache /\ nsCache' = nsCache
      /\ upserts' = upserts /\ delegated' = delegated /\ peer' = peer /\ failures' = failures
      /\ edits' = edits
  BY DEF Reconcile, Serves, objVars, zoneVars, cacheVars, boundVars
<1>2. TypeOK'
  BY <1>1 DEF IInv, TypeOK, Steps, NoUpsert, Upserts
<1>3. ObjectsInv'
  BY <1>1 DEF IInv, ObjectsInv
<1>4. WorkerInv' /\ ZoneInv'
  BY <1>1 DEF IInv, TypeOK, ObjectsInv, WorkerInv, ZoneInv, Deletes, RememberedUpsertsPresent
<1> QED
  BY <1>2, <1>3, <1>4 DEF IInv

LEMMA LookupInv ==
  ASSUME IInv, Lookup PROVE IInv'
<1>1. /\ pc = "lookup" /\ idCache' = ZoneIdByName /\ zid' = ZoneIdByName
      /\ pc' = IF ZoneIdByName = NoZone THEN "create" ELSE "tag"
      /\ aws' = aws /\ awsCache' = awsCache /\ cl' = cl /\ clCache' = clCache /\ inc' = inc
      /\ copy' = copy /\ want' = want /\ queued' = queued /\ zone' = zone /\ wild' = wild
      /\ api' = api /\ others' = others /\ delegation' = delegation /\ nsCache' = nsCache
      /\ upserts' = upserts /\ delegated' = delegated /\ peer' = peer /\ failures' = failures
      /\ edits' = edits
  BY DEF Lookup, Call, GotoZone, objVars, zoneVars, cacheVars, boundVars
<1>2. TypeOK'
  BY <1>1 DEF IInv, TypeOK, Steps, ZoneIdByName
<1>3. ObjectsInv'
  BY <1>1 DEF IInv, ObjectsInv
<1>4. WorkerInv' /\ ZoneInv'
  BY <1>1 DEF IInv, ObjectsInv, WorkerInv, ZoneInv, RememberedUpsertsPresent,
     ZoneIdByName
<1> QED
  BY <1>2, <1>3, <1>4 DEF IInv

LEMMA CreateHostedZoneInv ==
  ASSUME IInv, CreateHostedZone PROVE IInv'
<1>1. /\ pc = "create" /\ pc' = "tag" /\ zid' = inc /\ zone' = inc /\ idCache' = inc
      /\ wild' = NoTarget /\ api' = FALSE /\ others' = {}
      /\ aws' = aws /\ awsCache' = awsCache /\ cl' = cl /\ clCache' = clCache /\ inc' = inc
      /\ copy' = copy /\ want' = want /\ queued' = queued /\ delegation' = delegation
      /\ nsCache' = nsCache /\ upserts' = upserts /\ delegated' = delegated /\ peer' = peer
      /\ failures' = failures /\ edits' = edits
  BY DEF CreateHostedZone, Call, GotoZone, objVars, zoneVars, cacheVars, boundVars
<1>2. TypeOK'
  BY <1>1 DEF IInv, TypeOK, Steps
<1>3. ObjectsInv'
  BY <1>1 DEF IInv, ObjectsInv
<1>4. inc # NoZone
  BY DEF IInv, TypeOK, Zones
<1>5. WorkerInv' /\ ZoneInv'
  BY <1>1, <1>4 DEF IInv, ObjectsInv, WorkerInv, ZoneInv, RememberedUpsertsPresent
<1> QED
  BY <1>2, <1>3, <1>5 DEF IInv

LEMMA TagHostedZoneInv ==
  ASSUME IInv, TagHostedZone PROVE IInv'
<1>1. CASE ReturnError /\ UNCHANGED <<objVars, zoneVars, cacheVars, boundVars>>
  BY <1>1, ReturnErrorInv
<1>2. CASE zid = zone /\ Goto("records")
  <2>1. /\ pc = "tag" /\ zid = zone /\ pc' = "records"
        /\ aws' = aws /\ awsCache' = awsCache /\ cl' = cl /\ clCache' = clCache /\ inc' = inc
        /\ copy' = copy /\ zid' = zid /\ want' = want /\ queued' = queued /\ zone' = zone
        /\ wild' = wild /\ api' = api /\ others' = others /\ delegation' = delegation
        /\ idCache' = idCache /\ nsCache' = nsCache /\ upserts' = upserts
        /\ delegated' = delegated /\ peer' = peer /\ failures' = failures /\ edits' = edits
    BY <1>2 DEF TagHostedZone, Call, Goto, objVars, zoneVars, cacheVars, boundVars
  <2>2. TypeOK'
    BY <2>1 DEF IInv, TypeOK, Steps
  <2>3. ObjectsInv'
    BY <2>1 DEF IInv, ObjectsInv
  <2>4. WorkerInv' /\ ZoneInv'
    BY <2>1
       DEF IInv, ObjectsInv, WorkerInv, ZoneInv, RememberedUpsertsPresent
  <2> QED
    BY <2>2, <2>3, <2>4 DEF IInv
<1> QED
  BY <1>1, <1>2 DEF TagHostedZone, objVars, zoneVars, cacheVars, boundVars

LEMMA RecordsInv ==
  ASSUME IInv, WorkloadClusterDnsRecords PROVE IInv'
<1>1. CASE ReturnError /\ UNCHANGED <<objVars, zoneVars, cacheVars, boundVars>>
  BY <1>1, ReturnErrorInv
<1>2. CASE zid = zone /\ ~ReturnError
  <2>1. /\ pc = "records" /\ zid = zone /\ pc' \in {"dropWildcard", "upsert"}
        /\ \E t \in {NoTarget, copy.target} : want' = [api |-> copy.endpoint, wild |-> t]
        /\ aws' = aws /\ awsCache' = awsCache /\ cl' = cl /\ clCache' = clCache /\ inc' = inc
        /\ copy' = copy /\ zid' = zid /\ queued' = queued /\ zone' = zone /\ wild' = wild
        /\ api' = api /\ others' = others /\ delegation' = delegation /\ idCache' = idCache
        /\ nsCache' = nsCache /\ upserts' = upserts /\ delegated' = delegated /\ peer' = peer
        /\ failures' = failures /\ edits' = edits
    BY <1>2 DEF WorkloadClusterDnsRecords, Call, objVars, zoneVars, cacheVars, boundVars
  <2>2. TypeOK'
    BY <2>1 DEF IInv, TypeOK, Steps, Upserts, DnsClusters
  <2>3. ObjectsInv'
    BY <2>1 DEF IInv, ObjectsInv
  <2>4. WorkerInv' /\ ZoneInv'
    BY <2>1
       DEF IInv, ObjectsInv, WorkerInv, ZoneInv, RememberedUpsertsPresent
  <2> QED
    BY <2>2, <2>3, <2>4 DEF IInv
<1> QED
  BY <1>1, <1>2 DEF WorkloadClusterDnsRecords, Call

LEMMA DeleteDnsRecordInv ==
  ASSUME IInv, DeleteDnsRecord PROVE IInv'
<1>1. /\ pc = "dropWildcard" /\ pc' = "upsert"
      /\ wild' = NoTarget /\ upserts' = IF wild = NoTarget THEN upserts ELSE {}
      /\ aws' = aws /\ awsCache' = awsCache /\ cl' = cl /\ clCache' = clCache /\ inc' = inc
      /\ copy' = copy /\ zid' = zid /\ want' = want /\ queued' = queued /\ zone' = zone
      /\ api' = api /\ others' = others /\ delegation' = delegation /\ idCache' = idCache
      /\ nsCache' = nsCache /\ delegated' = delegated /\ peer' = peer /\ failures' = failures
      /\ edits' = edits
  BY DEF DeleteDnsRecord, Call, Goto, objVars, zoneVars, cacheVars, boundVars
<1>2. TypeOK'
  BY <1>1 DEF IInv, TypeOK, Steps
<1>3. ObjectsInv'
  BY <1>1 DEF IInv, ObjectsInv
<1>4. WorkerInv' /\ ZoneInv'
  BY <1>1
     DEF IInv, ObjectsInv, WorkerInv, ZoneInv, RememberedUpsertsPresent
<1> QED
  BY <1>2, <1>3, <1>4 DEF IInv

LEMMA DropZoneIdInv ==
  ASSUME IInv, DropZoneId PROVE IInv'
<1>1. /\ pc = "dropId" /\ pc' = "deleteZone"
      /\ idCache' \in {NoZone, idCache}
      /\ aws' = aws /\ awsCache' = awsCache /\ cl' = cl /\ clCache' = clCache /\ inc' = inc
      /\ copy' = copy /\ zid' = zid /\ want' = want /\ queued' = queued /\ zone' = zone
      /\ wild' = wild /\ api' = api /\ others' = others /\ delegation' = delegation
      /\ nsCache' = nsCache /\ upserts' = upserts /\ delegated' = delegated /\ peer' = peer
      /\ failures' = failures /\ edits' = edits
  BY DEF DropZoneId, Call, Goto, objVars, zoneVars, cacheVars, boundVars
<1>2. TypeOK'
  BY <1>1 DEF IInv, TypeOK, Steps
<1>3. ObjectsInv'
  BY <1>1 DEF IInv, ObjectsInv
<1>4. WorkerInv' /\ ZoneInv'
  BY <1>1
     DEF IInv, ObjectsInv, WorkerInv, ZoneInv, RememberedUpsertsPresent
<1> QED
  BY <1>2, <1>3, <1>4 DEF IInv

\* Without a zone there is no delegation, and in private mode never.
LEMMA FindZoneInv ==
  ASSUME IInv, FindZone PROVE IInv'
<1>1. /\ pc = "findZone" /\ idCache' = ZoneIdByName /\ zid' = ZoneIdByName
      /\ pc' = IF ZoneIdByName = NoZone THEN "removeFinalizer"
              ELSE IF copy.dnsMode = "public" THEN "nsDelete" ELSE "deleteRecords"
      /\ aws' = aws /\ awsCache' = awsCache /\ cl' = cl /\ clCache' = clCache /\ inc' = inc
      /\ copy' = copy /\ want' = want /\ queued' = queued /\ zone' = zone /\ wild' = wild
      /\ api' = api /\ others' = others /\ delegation' = delegation /\ nsCache' = nsCache
      /\ upserts' = upserts /\ delegated' = delegated /\ peer' = peer /\ failures' = failures
      /\ edits' = edits
  BY DEF FindZone, FirstDeletion, Call, GotoZone, objVars, zoneVars, cacheVars, boundVars
<1>2. TypeOK'
  BY <1>1 DEF IInv, TypeOK, Steps, ZoneIdByName
<1>3. ObjectsInv'
  BY <1>1 DEF IInv, ObjectsInv
<1>4. WorkerInv' /\ ZoneInv'
  BY <1>1
     DEF IInv, ObjectsInv, WorkerInv, ZoneInv, RememberedUpsertsPresent,
     TypeOK, DnsClusters, ZoneIdByName
<1> QED
  BY <1>2, <1>3, <1>4 DEF IInv

LEMMA DeleteDelegationInv ==
  ASSUME IInv, DeleteDelegation PROVE IInv'
<1>1. CASE ReturnError /\ UNCHANGED <<objVars, zoneVars, cacheVars, boundVars>>
  BY <1>1, ReturnErrorInv
<1>2. CASE delegation \in {zid, NoZone} /\ Goto("deleteRecords") /\ delegation' = NoZone
  <2>1. /\ pc = "undelegate" /\ pc' = "deleteRecords" /\ delegation' = NoZone
        /\ aws' = aws /\ awsCache' = awsCache /\ cl' = cl /\ clCache' = clCache /\ inc' = inc
        /\ copy' = copy /\ zid' = zid /\ want' = want /\ queued' = queued /\ zone' = zone
        /\ wild' = wild /\ api' = api /\ others' = others /\ idCache' = idCache
        /\ nsCache' = nsCache /\ upserts' = upserts /\ delegated' = delegated /\ peer' = peer
        /\ failures' = failures /\ edits' = edits
    BY <1>2 DEF DeleteDelegation, Call, Goto, objVars, zoneVars, cacheVars, boundVars
  <2>2. TypeOK'
    BY <2>1 DEF IInv, TypeOK, Steps
  <2>3. ObjectsInv'
    BY <2>1 DEF IInv, ObjectsInv
  <2>4. WorkerInv' /\ ZoneInv'
    BY <2>1
       DEF IInv, ObjectsInv, WorkerInv, ZoneInv, RememberedUpsertsPresent
  <2> QED
    BY <2>2, <2>3, <2>4 DEF IInv
<1> QED
  BY <1>1, <1>2 DEF DeleteDelegation, objVars, zoneVars, cacheVars, boundVars

\* The zone is guarded, so the Cluster is not live.
LEMMA DeleteDnsRecordsInv ==
  ASSUME IInv, DeleteDnsRecords PROVE IInv'
<1>1. CASE ReturnError /\ UNCHANGED <<objVars, zoneVars, cacheVars, boundVars>>
  BY <1>1, ReturnErrorInv
<1>2. CASE zid = zone /\ Goto("dropId") /\ wild' = NoTarget /\ api' = FALSE /\ others' = {}
  <2>1. /\ pc = "deleteRecords" /\ zid = zone /\ pc' = "dropId"
        /\ wild' = NoTarget /\ api' = FALSE /\ others' = {}
        /\ aws' = aws /\ awsCache' = awsCache /\ cl' = cl /\ clCache' = clCache /\ inc' = inc
        /\ copy' = copy /\ zid' = zid /\ want' = want /\ queued' = queued /\ zone' = zone
        /\ delegation' = delegation /\ idCache' = idCache /\ nsCache' = nsCache
        /\ upserts' = upserts /\ delegated' = delegated /\ peer' = peer /\ failures' = failures
        /\ edits' = edits
    BY <1>2 DEF DeleteDnsRecords, Call, Goto, objVars, zoneVars, cacheVars, boundVars
  <2>2. TypeOK'
    BY <2>1 DEF IInv, TypeOK, Steps
  <2>3. ObjectsInv'
    BY <2>1 DEF IInv, ObjectsInv
  <2>4. WorkerInv' /\ ZoneInv'
    BY <2>1
       DEF IInv, ObjectsInv, WorkerInv, ZoneInv, RememberedUpsertsPresent
  <2> QED
    BY <2>2, <2>3, <2>4 DEF IInv
<1> QED
  BY <1>1, <1>2 DEF DeleteDnsRecords, objVars, zoneVars, cacheVars, boundVars

LEMMA DeleteHostedZoneInv ==
  ASSUME IInv, DeleteHostedZone PROVE IInv'
<1>1. CASE ReturnError /\ UNCHANGED <<objVars, zoneVars, cacheVars, boundVars>>
  BY <1>1, ReturnErrorInv
<1>2. CASE /\ Goto("removeFinalizer")
           /\ zone' = NoZone /\ upserts' = {} /\ delegated' = FALSE
  <2>1. /\ pc = "deleteZone" /\ pc' = "removeFinalizer"
        /\ zone' = NoZone /\ upserts' = {} /\ delegated' = FALSE
        /\ delegated' \in BOOLEAN
        /\ aws' = aws /\ awsCache' = awsCache /\ cl' = cl /\ clCache' = clCache /\ inc' = inc
        /\ copy' = copy /\ zid' = zid /\ want' = want /\ queued' = queued /\ wild' = wild
        /\ api' = api /\ others' = others /\ delegation' = delegation /\ idCache' = idCache
        /\ nsCache' = nsCache /\ peer' = peer /\ failures' = failures /\ edits' = edits
    BY <1>2 DEF DeleteHostedZone, Call, Goto, objVars, zoneVars, cacheVars, boundVars
  <2>2. TypeOK'
    BY <2>1 DEF IInv, TypeOK, Steps
  <2>3. ObjectsInv'
    BY <2>1 DEF IInv, ObjectsInv
  <2>4. WorkerInv' /\ ZoneInv'
    BY <2>1
       DEF IInv, ObjectsInv, WorkerInv, ZoneInv, RememberedUpsertsPresent
  <2> QED
    BY <2>2, <2>3, <2>4 DEF IInv
<1>3. zid = zone
  BY DEF DeleteHostedZone, Call, IInv, WorkerInv
<1> QED
  BY <1>1, <1>2, <1>3 DEF DeleteHostedZone, Call, objVars, zoneVars, cacheVars, boundVars

LEMMA NSRecordInv ==
  ASSUME IInv, NEW l, NEW next, NSRecord(l, next),
         <<l, next>> \in {<<"ns", "delegate">>, <<"nsDelete", "undelegate">>}
  PROVE  IInv'
<1>1. CASE ReturnError /\ UNCHANGED <<objVars, zoneVars, cacheVars, boundVars>>
  BY <1>1, ReturnErrorInv
<1>2. CASE Goto(next) /\ nsCache' = nsCache \cup {zid}
  <2>1. /\ pc = l /\ pc' = next /\ nsCache' = nsCache \cup {zid}
        /\ aws' = aws /\ awsCache' = awsCache /\ cl' = cl /\ clCache' = clCache /\ inc' = inc
        /\ copy' = copy /\ zid' = zid /\ want' = want /\ queued' = queued /\ zone' = zone
        /\ wild' = wild /\ api' = api /\ others' = others /\ delegation' = delegation
        /\ idCache' = idCache /\ upserts' = upserts /\ delegated' = delegated /\ peer' = peer
        /\ failures' = failures /\ edits' = edits
    BY <1>2 DEF NSRecord, Call, Goto, objVars, zoneVars, cacheVars, boundVars
  <2>2. zid \in Zones
    BY <2>1 DEF IInv, TypeOK, WorkerInv
  <2>3. TypeOK'
    BY <2>1, <2>2 DEF IInv, TypeOK, Steps
  <2>4. ObjectsInv'
    BY <2>1 DEF IInv, ObjectsInv
  <2>5. WorkerInv' /\ ZoneInv'
    BY <2>1
       DEF IInv, ObjectsInv, WorkerInv, ZoneInv, RememberedUpsertsPresent
  <2> QED
    BY <2>3, <2>4, <2>5 DEF IInv
<1> QED
  BY <1>1, <1>2 DEF NSRecord, objVars, zoneVars, cacheVars, boundVars

LEMMA AddDnsRecordsInv ==
  ASSUME IInv, AddDnsRecords PROVE IInv'
<1>1. /\ pc = "upsert" /\ zid = zone /\ want \in Upserts
      /\ \/ wild' = wild /\ api' = api /\ upserts' = upserts
         \/ /\ wild' = IF want.wild = NoTarget THEN wild ELSE want.wild
            /\ api' = (api \/ want.api) /\ upserts' = upserts \cup {want}
      /\ queued' = queued
      /\ aws' = aws /\ awsCache' = awsCache /\ cl' = cl /\ clCache' = clCache /\ inc' = inc
      /\ zone' = zone /\ others' = others /\ delegation' = delegation /\ idCache' = idCache
      /\ nsCache' = nsCache /\ delegated' = delegated /\ peer' = peer /\ failures' = failures
      /\ edits' = edits
  BY DEF AddDnsRecords, Call, Goto, Return, IInv, TypeOK, WorkerInv, objVars, boundVars
<1>2. /\ pc' \in {"idle", "ns"} /\ copy' \in DnsClusters /\ copy'.dnsMode = copy.dnsMode
      /\ zid' \in {zid, NoZone} /\ want' \in Upserts
      /\ pc' = "ns" => copy.dnsMode = "public" /\ zid' = zid
  BY ForgetFacts DEF AddDnsRecords, Return, Goto, IInv, TypeOK
<1>3. wild' \in Targets \cup {NoTarget} /\ api' \in BOOLEAN /\ upserts' \subseteq Upserts
  <2>1. (api \/ want.api) \in BOOLEAN
    OBVIOUS
  <2>2. api' \in BOOLEAN
    BY <1>1, <2>1, Zenon DEF IInv, TypeOK
  <2>3. wild' \in Targets \cup {NoTarget} /\ upserts' \subseteq Upserts
    BY <1>1 DEF IInv, TypeOK, Upserts
  <2> QED
    BY <2>2, <2>3
<1>4. TypeOK'
  BY <1>1, <1>2, <1>3 DEF IInv, TypeOK, Steps
<1>5. ObjectsInv'
  BY <1>1, <1>2 DEF IInv, ObjectsInv
<1>6. RememberedUpsertsPresent'
  <2> SUFFICES ASSUME cl' = "live", NEW u \in upserts'
               PROVE  (u.wild # NoTarget => wild' # NoTarget) /\ (u.api => api')
    BY DEF RememberedUpsertsPresent
  <2>1. CASE u \in upserts
    <3>1. (u.wild # NoTarget => wild # NoTarget) /\ (u.api => api)
      BY <1>1, <2>1 DEF IInv, ZoneInv, RememberedUpsertsPresent
    <3> QED
      BY <1>1, <3>1
  <2>2. CASE u \notin upserts
    BY <1>1, <2>2
  <2> QED
    BY <2>1, <2>2
<1>7. WorkerInv' /\ ZoneInv'
  BY <1>1, <1>2, <1>6 DEF IInv, ObjectsInv, WorkerInv, ZoneInv
<1> QED
  BY <1>4, <1>5, <1>7 DEF IInv

\* The delegation is to the zone that is there.
LEMMA AddDelegationInv ==
  ASSUME IInv, AddDelegation PROVE IInv'
<1>1. /\ pc = "delegate" /\ zid = zone /\ aws.dnsMode = "public"
      /\ delegation' \in {delegation, zone} /\ delegated' = TRUE /\ queued' = queued
      /\ aws' = aws /\ awsCache' = awsCache /\ cl' = cl /\ clCache' = clCache /\ inc' = inc
      /\ zone' = zone /\ wild' = wild /\ api' = api /\ others' = others /\ idCache' = idCache
      /\ nsCache' = nsCache /\ upserts' = upserts /\ peer' = peer /\ failures' = failures
      /\ edits' = edits
  BY DEF AddDelegation, Call, Return, IInv, WorkerInv, objVars, boundVars
<1>2. /\ pc' = "idle" /\ pc' \in Steps /\ copy' \in DnsClusters /\ copy'.dnsMode = copy.dnsMode
      /\ zid' = NoZone /\ want' \in Upserts
  BY ForgetFacts DEF AddDelegation, Return, IInv
<1>3. TypeOK'
  <2>1. delegated' \in BOOLEAN
    BY <1>1, Zenon
  <2> QED
    BY <1>1, <1>2, <2>1 DEF IInv, TypeOK
<1>4. ObjectsInv'
  BY <1>1, <1>2 DEF IInv, ObjectsInv
<1>5. WorkerInv' /\ ZoneInv'
  BY <1>1, <1>2 DEF IInv, ObjectsInv, WorkerInv, ZoneInv, RememberedUpsertsPresent
<1> QED
  BY <1>3, <1>4, <1>5 DEF IInv

\* The finalizer is put on a live object; a copy that has it is right.
LEMMA AddFinalizerCallInv ==
  ASSUME IInv, AddFinalizerCall PROVE IInv'
<1>1. CASE ReturnError /\ UNCHANGED aws
  BY <1>1, ReturnErrorInv DEF AddFinalizerCall, objVars
<1>2. CASE /\ Goto("lookup") /\ Guarded' /\ cl # "gone"
           /\ aws' \in DnsClusters /\ aws'.dnsMode = aws.dnsMode /\ aws'.phase # "gone"
  <2>1. /\ pc = "addFinalizer" /\ pc' = "lookup" /\ Guarded' /\ cl # "gone"
        /\ aws' \in DnsClusters /\ aws'.dnsMode = aws.dnsMode /\ aws'.phase # "gone"
        /\ awsCache' = awsCache /\ cl' = cl /\ clCache' = clCache /\ inc' = inc /\ copy' = copy
        /\ zid' = zid /\ want' = want /\ queued' = queued /\ zone' = zone /\ wild' = wild
        /\ api' = api /\ others' = others /\ delegation' = delegation /\ idCache' = idCache
        /\ nsCache' = nsCache /\ upserts' = upserts /\ delegated' = delegated /\ peer' = peer
        /\ failures' = failures /\ edits' = edits
    BY <1>2 DEF AddFinalizerCall, Call, Goto, objVars, zoneVars, cacheVars, boundVars
  <2>2. TypeOK'
    BY <2>1 DEF IInv, TypeOK, Steps
  <2>3. ObjectsInv'
    BY <2>1 DEF IInv, ObjectsInv
  <2>4. WorkerInv' /\ ZoneInv'
    BY <2>1
       DEF IInv, ObjectsInv, WorkerInv, ZoneInv, RememberedUpsertsPresent
  <2> QED
    BY <2>2, <2>3, <2>4 DEF IInv
<1>3. CASE DnsFinalizer \in copy.fins /\ Goto("lookup") /\ UNCHANGED aws
  <2>1. Guarded
    BY <1>3 DEF AddFinalizerCall, Call, IInv, WorkerInv
  <2> QED
    BY <1>2, <1>3, <2>1 DEF IInv, TypeOK, ObjectsInv
<1>4. CASE /\ Unconflicted(aws, copy) /\ aws.phase = "live" /\ Goto("lookup")
           /\ aws' = AddFinalizer(aws, DnsFinalizer)
  <2>1. /\ aws' \in DnsClusters /\ aws'.fins = aws.fins \cup {DnsFinalizer}
        /\ aws'.dnsMode = aws.dnsMode /\ aws'.phase = aws.phase
    BY <1>4, FinalizerFacts DEF IInv, TypeOK
  <2> QED
    BY <1>2, <1>4, <2>1 DEF IInv, ObjectsInv
<1> QED
  BY <1>1, <1>3, <1>4 DEF AddFinalizerCall

\* The finalizer comes off when neither zone nor delegation is left.
LEMMA RemoveFinalizerCallInv ==
  ASSUME IInv, RemoveFinalizerCall PROVE IInv'
<1>1. CASE ReturnError /\ UNCHANGED aws
  BY <1>1, ReturnErrorInv DEF RemoveFinalizerCall, objVars
<1>2. CASE /\ Unconflicted(aws, copy) /\ Return
           /\ aws' = RemoveFinalizer(aws, DnsFinalizer)
  <2>1. /\ pc = "removeFinalizer" /\ queued' = queued
        /\ awsCache' = awsCache /\ cl' = cl /\ clCache' = clCache /\ inc' = inc /\ zone' = zone
        /\ wild' = wild /\ api' = api /\ others' = others /\ delegation' = delegation
        /\ idCache' = idCache /\ nsCache' = nsCache /\ upserts' = upserts
        /\ delegated' = delegated /\ peer' = peer /\ failures' = failures /\ edits' = edits
    BY <1>2 DEF RemoveFinalizerCall, Call, Return, zoneVars, cacheVars, boundVars
  <2>2. /\ pc' = "idle" /\ pc' \in Steps /\ copy' \in DnsClusters /\ copy'.dnsMode = copy.dnsMode
        /\ zid' = NoZone /\ want' \in Upserts
    BY <1>2, ForgetFacts DEF Return, IInv
  <2>3. /\ aws' \in DnsClusters /\ aws'.fins = aws.fins \ {DnsFinalizer}
        /\ aws'.dnsMode = aws.dnsMode /\ aws.phase # "gone"
        /\ aws'.phase = "gone" => aws'.fins = {}
    BY <1>2, FinalizerFacts DEF IInv, TypeOK, Unconflicted
  <2>4. Guarded => cl = "deleting" /\ clCache = "deleting"
    BY <2>1 DEF IInv, WorkerInv
  <2>5. TypeOK'
    BY <2>1, <2>2, <2>3 DEF IInv, TypeOK
  <2>6. ObjectsInv'
    BY <2>1, <2>2, <2>3, <2>4 DEF IInv, ObjectsInv
  <2>7. WorkerInv' /\ ZoneInv'
    BY <2>1, <2>2, <2>3 DEF IInv, ObjectsInv, WorkerInv, ZoneInv, RememberedUpsertsPresent
  <2> QED
    BY <2>5, <2>6, <2>7 DEF IInv
<1> QED
  BY <1>1, <1>2 DEF RemoveFinalizerCall

LEMMA SkipFailInv ==
  ASSUME IInv, Skip \/ Fail PROVE IInv'
<1>1. CASE Fail
  <2>1. failures' \in 0..MaxFailures /\ edits' \in 0..MaxEdits
    BY <1>1, DnsConstantsAssumption DEF Fail, IInv, TypeOK
  <2> QED
    BY <1>1, <2>1, WorkerEnds DEF Fail, ReturnError
<1>2. CASE Skip
  <2>1. /\ queued' = FALSE /\ queued' \in BOOLEAN
        /\ aws' = aws /\ awsCache' = awsCache /\ cl' = cl /\ clCache' = clCache /\ inc' = inc
        /\ pc' = pc /\ copy' = copy /\ zid' = zid /\ want' = want /\ zone' = zone /\ wild' = wild
        /\ api' = api /\ others' = others /\ delegation' = delegation /\ idCache' = idCache
        /\ nsCache' = nsCache /\ upserts' = upserts /\ delegated' = delegated /\ peer' = peer
        /\ failures' = failures /\ edits' = edits
    BY <1>2 DEF Skip, objVars, zoneVars, cacheVars, boundVars
  <2>2. TypeOK'
    BY <2>1 DEF IInv, TypeOK
  <2>3. ObjectsInv'
    BY <2>1 DEF IInv, ObjectsInv
  <2>4. WorkerInv' /\ ZoneInv'
    BY <2>1
       DEF IInv, ObjectsInv, WorkerInv, ZoneInv, RememberedUpsertsPresent
  <2> QED
    BY <2>2, <2>3, <2>4 DEF IInv
<1> QED
  BY <1>1, <1>2

LEMMA ExpireInv ==
  ASSUME IInv, Expire PROVE IInv'
<1>1. /\ idCache' \in {idCache, NoZone} /\ nsCache' \subseteq nsCache /\ upserts' \subseteq upserts
      /\ delegated' \in {delegated, FALSE}
      /\ aws' = aws /\ awsCache' = awsCache /\ cl' = cl /\ clCache' = clCache /\ inc' = inc
      /\ pc' = pc /\ copy' = copy /\ zid' = zid /\ want' = want /\ queued' = queued
      /\ zone' = zone /\ wild' = wild /\ api' = api /\ others' = others
      /\ delegation' = delegation /\ peer' = peer /\ failures' = failures /\ edits' = edits
  BY DEF Expire, objVars, workVars, zoneVars, boundVars
<1>2. delegated' \in BOOLEAN
  BY <1>1 DEF IInv, TypeOK
<1>3. TypeOK'
  BY <1>1, <1>2 DEF IInv, TypeOK
<1>4. ObjectsInv'
  BY <1>1 DEF IInv, ObjectsInv
<1>5. WorkerInv' /\ ZoneInv'
  BY <1>1
     DEF IInv, ObjectsInv, WorkerInv, ZoneInv, RememberedUpsertsPresent
<1> QED
  BY <1>3, <1>4, <1>5 DEF IInv

LEMMA PeerLookupInv ==
  ASSUME IInv, PeerLookup PROVE IInv'
<1>1. /\ idCache' \in {idCache, peer} /\ peer' \in {zone, NoZone}
      /\ aws' = aws /\ awsCache' = awsCache /\ cl' = cl /\ clCache' = clCache /\ inc' = inc
      /\ pc' = pc /\ copy' = copy /\ zid' = zid /\ want' = want /\ queued' = queued
      /\ zone' = zone /\ wild' = wild /\ api' = api /\ others' = others
      /\ delegation' = delegation /\ nsCache' = nsCache /\ upserts' = upserts
      /\ delegated' = delegated /\ failures' = failures /\ edits' = edits
  BY DEF PeerLookup, objVars, workVars, zoneVars, cacheVars, boundVars
<1>2. TypeOK'
  BY <1>1 DEF IInv, TypeOK
<1>3. ObjectsInv'
  BY <1>1 DEF IInv, ObjectsInv
<1>4. WorkerInv' /\ ZoneInv'
  BY <1>1
     DEF IInv, ObjectsInv, WorkerInv, ZoneInv, RememberedUpsertsPresent
<1> QED
  BY <1>2, <1>3, <1>4 DEF IInv

LEMMA SyncAWSClusterInv ==
  ASSUME IInv, SyncAWSCluster PROVE IInv'
<1>1. /\ awsCache' = aws /\ queued' = TRUE /\ queued' \in BOOLEAN
      /\ aws' = aws /\ cl' = cl /\ clCache' = clCache /\ inc' = inc /\ pc' = pc /\ copy' = copy
      /\ zid' = zid /\ want' = want /\ zone' = zone /\ wild' = wild /\ api' = api
      /\ others' = others /\ delegation' = delegation /\ idCache' = idCache /\ nsCache' = nsCache
      /\ upserts' = upserts /\ delegated' = delegated /\ peer' = peer /\ failures' = failures
      /\ edits' = edits
  BY DEF SyncAWSCluster, zoneVars, cacheVars, boundVars
<1>2. TypeOK'
  BY <1>1 DEF IInv, TypeOK
<1>3. ObjectsInv'
  BY <1>1 DEF IInv, ObjectsInv
<1>4. WorkerInv' /\ ZoneInv'
  BY <1>1
     DEF IInv, ObjectsInv, WorkerInv, ZoneInv, RememberedUpsertsPresent
<1> QED
  BY <1>2, <1>3, <1>4 DEF IInv

LEMMA SyncClusterInv ==
  ASSUME IInv, SyncCluster PROVE IInv'
<1>1. /\ clCache' = cl
      /\ aws' = aws /\ awsCache' = awsCache /\ cl' = cl /\ inc' = inc /\ pc' = pc /\ copy' = copy
      /\ zid' = zid /\ want' = want /\ queued' = queued /\ zone' = zone /\ wild' = wild
      /\ api' = api /\ others' = others /\ delegation' = delegation /\ idCache' = idCache
      /\ nsCache' = nsCache /\ upserts' = upserts /\ delegated' = delegated /\ peer' = peer
      /\ failures' = failures /\ edits' = edits
  BY DEF SyncCluster, workVars, zoneVars, cacheVars, boundVars
<1>2. TypeOK'
  BY <1>1 DEF IInv, TypeOK
<1>3. ObjectsInv'
  BY <1>1 DEF IInv, ObjectsInv
<1>4. WorkerInv' /\ ZoneInv'
  BY <1>1
     DEF IInv, ObjectsInv, WorkerInv, ZoneInv, RememberedUpsertsPresent
<1> QED
  BY <1>2, <1>3, <1>4 DEF IInv

LEMMA DeleteClusterInv ==
  ASSUME IInv, DeleteCluster PROVE IInv'
<1>1. CASE cl = "deleting" /\ aws.phase = "live" /\ aws' = DeletionRequested(aws) /\ UNCHANGED cl
  <2>1. /\ aws' \in DnsClusters /\ aws'.fins = aws.fins /\ aws'.dnsMode = aws.dnsMode
        /\ aws'.phase = "gone" => aws'.fins = {}
    BY <1>1, DeletionFacts DEF IInv, TypeOK
  <2> QED
    BY <1>1, <2>1, ForeignWrite DEF DeleteCluster, boundVars, IInv, TypeOK
<1>2. CASE /\ UNCHANGED aws
           /\ \/ cl = "live" /\ cl' = "deleting"
              \/ cl = "deleting" /\ aws.phase = "gone" /\ cl' = "gone"
  <2>1. /\ \/ cl = "live" /\ cl' = "deleting"
           \/ cl = "deleting" /\ aws.phase = "gone" /\ cl' = "gone"
        /\ aws' = aws /\ awsCache' = awsCache /\ clCache' = clCache /\ inc' = inc /\ pc' = pc
        /\ copy' = copy /\ zid' = zid /\ want' = want /\ queued' = queued /\ zone' = zone
        /\ wild' = wild /\ api' = api /\ others' = others /\ delegation' = delegation
        /\ idCache' = idCache /\ nsCache' = nsCache /\ upserts' = upserts
        /\ delegated' = delegated /\ peer' = peer /\ failures' = failures /\ edits' = edits
    BY <1>2 DEF DeleteCluster, workVars, zoneVars, cacheVars, boundVars
  <2>2. TypeOK'
    BY <2>1 DEF IInv, TypeOK
  <2>3. ObjectsInv'
    BY <2>1 DEF IInv, ObjectsInv
  <2>4. WorkerInv' /\ ZoneInv'
    BY <2>1
       DEF IInv, ObjectsInv, WorkerInv, ZoneInv, RememberedUpsertsPresent
  <2> QED
    BY <2>2, <2>3, <2>4 DEF IInv
<1> QED
  BY <1>1, <1>2 DEF DeleteCluster

\* Nothing is left of the cluster before: it had no finalizer any more.
LEMMA RecreateClusterInv ==
  ASSUME IInv, RecreateCluster PROVE IInv'
<1>1. /\ cl = "gone" /\ clCache = "gone" /\ awsCache.phase = "gone" /\ cl' = "live"
      /\ inc < MaxClusters /\ inc' = inc + 1
      /\ aws' \in DnsClusters /\ aws'.phase = "live" /\ aws'.fins = {} /\ aws'.dnsMode = aws.dnsMode
      /\ awsCache' = awsCache /\ clCache' = clCache /\ pc' = pc /\ copy' = copy /\ zid' = zid
      /\ want' = want /\ queued' = queued /\ zone' = zone /\ wild' = wild /\ api' = api
      /\ others' = others /\ delegation' = delegation /\ idCache' = idCache /\ nsCache' = nsCache
      /\ upserts' = upserts /\ delegated' = delegated /\ peer' = peer /\ failures' = failures
      /\ edits' = edits
  <2>1. /\ aws \in DnsClusters /\ aws.rv + 1 \in Nat
        /\ aws' = [aws EXCEPT !.phase = "live", !.rv = aws.rv + 1, !.fins = {}, !.paused = FALSE]
    BY DEF RecreateCluster, IInv, TypeOK, DnsClusters
  <2>2. \A r \in Nat : LET n == [aws EXCEPT !.phase = "live", !.rv = r, !.fins = {}, !.paused = FALSE]
                      IN  /\ n \in DnsClusters /\ n.phase = "live" /\ n.fins = {}
                          /\ n.dnsMode = aws.dnsMode
    BY <2>1 DEF DnsClusters
  <2>3. aws' \in DnsClusters /\ aws'.phase = "live" /\ aws'.fins = {} /\ aws'.dnsMode = aws.dnsMode
    BY <2>1, <2>2
  <2> QED
    BY <2>3 DEF RecreateCluster, workVars, zoneVars, cacheVars, boundVars
<1>2. TypeOK'
  <2>1. inc' \in Zones
    BY <1>1, DnsConstantsAssumption DEF IInv, TypeOK, Zones
  <2> QED
    BY <1>1, <2>1 DEF IInv, TypeOK
<1>3. ObjectsInv'
  BY <1>1 DEF IInv, ObjectsInv
<1>4. WorkerInv' /\ ZoneInv'
  BY <1>1
     DEF IInv, ObjectsInv, WorkerInv, ZoneInv, RememberedUpsertsPresent
<1> QED
  BY <1>2, <1>3, <1>4 DEF IInv

\* Nobody else takes the finalizer off or puts it on.
ForeignEdit ==
  /\ aws' \in DnsClusters /\ aws'.dnsMode = aws.dnsMode
  /\ aws'.phase = "gone" => aws'.fins = {}
  /\ Guarded' <=> Guarded

LEMMA StoredEdit ==
  ASSUME IInv, aws.phase # "gone", NEW n \in DnsClusters, n.phase = aws.phase,
         n.fins = aws.fins, n.dnsMode = aws.dnsMode, aws' = Stored(aws, n)
  PROVE  ForeignEdit
<1>1. aws \in DnsClusters
  BY DEF IInv, TypeOK
<1>2. PICK m : m = Stored(aws, n)
  OBVIOUS
<1>3. /\ m \in DnsClusters /\ m.fins = aws.fins /\ m.dnsMode = aws.dnsMode
      /\ m.phase = "gone" => m.fins = {}
  BY <1>1, <1>2, StoredFacts
<1> QED
  BY <1>2, <1>3 DEF ForeignEdit

LEMMA EditKeepsFinalizer ==
  ASSUME IInv, EditAWSCluster PROVE ForeignEdit
<1>1. aws \in DnsClusters /\ aws.phase # "gone"
  BY DEF EditAWSCluster, IInv, TypeOK
<1>2. ASSUME NEW t \in Targets, aws' = Stored(aws, [aws EXCEPT !.target = t]) PROVE ForeignEdit
  <2> DEFINE n == [aws EXCEPT !.target = t]
  <2>1. n \in DnsClusters /\ n.phase = aws.phase /\ n.fins = aws.fins /\ n.dnsMode = aws.dnsMode
    BY <1>1 DEF DnsClusters
  <2>2. aws' = Stored(aws, n)
    BY <1>2
  <2> HIDE DEF n
  <2> QED
    BY <1>1, <2>1, <2>2, StoredEdit
<1>3. CASE aws' = Stored(aws, [aws EXCEPT !.paused = ~@])
  <2> DEFINE x == ~aws.paused
             n == [aws EXCEPT !.paused = x]
  <2>1. x \in BOOLEAN
    OBVIOUS
  <2>2. aws' = Stored(aws, n)
    BY <1>3
  <2> HIDE DEF x
  <2>3. n \in DnsClusters /\ n.phase = aws.phase /\ n.fins = aws.fins /\ n.dnsMode = aws.dnsMode
    BY <1>1, <2>1 DEF DnsClusters
  <2> HIDE DEF n
  <2> QED
    BY <1>1, <2>2, <2>3, StoredEdit
<1>4. CASE aws' = Stored(aws, [aws EXCEPT !.endpoint = TRUE])
  <2> DEFINE n == [aws EXCEPT !.endpoint = TRUE]
  <2>1. n \in DnsClusters /\ n.phase = aws.phase /\ n.fins = aws.fins /\ n.dnsMode = aws.dnsMode
    BY <1>1 DEF DnsClusters
  <2>2. aws' = Stored(aws, n)
    BY <1>4
  <2> HIDE DEF n
  <2> QED
    BY <1>1, <2>1, <2>2, StoredEdit
<1>5. ASSUME NEW f \in OtherFinalizers,
             aws' = AddFinalizer(aws, f) \/ aws' = RemoveFinalizer(aws, f)
      PROVE  ForeignEdit
  <2>1. /\ aws' \in DnsClusters /\ aws'.dnsMode = aws.dnsMode
        /\ aws'.fins = aws.fins \cup {f} \/ aws'.fins = aws.fins \ {f}
        /\ aws'.phase = "gone" => aws'.fins = {}
    BY <1>1, <1>5, FinalizerFacts
  <2>2. f # DnsFinalizer
    BY DnsConstantsAssumption
  <2> QED
    BY <1>1, <2>1, <2>2 DEF ForeignEdit
<1> QED
  BY <1>2, <1>3, <1>4, <1>5 DEF EditAWSCluster

LEMMA EditAWSClusterInv ==
  ASSUME IInv, EditAWSCluster PROVE IInv'
<1>1. aws.phase # "gone" /\ edits' \in 0..MaxEdits
  BY DnsConstantsAssumption DEF EditAWSCluster, Edit, IInv, TypeOK
<1> QED
  BY <1>1, EditKeepsFinalizer, ForeignWrite DEF EditAWSCluster, ForeignEdit

LEMMA EditRecordsInv ==
  ASSUME IInv, EditRecords PROVE IInv'
<1>1. /\ others' \subseteq Names /\ edits' \in 0..MaxEdits
      /\ aws' = aws /\ awsCache' = awsCache /\ cl' = cl /\ clCache' = clCache /\ inc' = inc
      /\ pc' = pc /\ copy' = copy /\ zid' = zid /\ want' = want /\ queued' = queued
      /\ zone' = zone /\ wild' = wild /\ api' = api /\ delegation' = delegation
      /\ idCache' = idCache /\ nsCache' = nsCache /\ upserts' = upserts /\ delegated' = delegated
      /\ peer' = peer /\ failures' = failures
  BY DnsConstantsAssumption DEF EditRecords, Edit, IInv, TypeOK, objVars, workVars, zoneVars, cacheVars
<1>2. TypeOK'
  BY <1>1 DEF IInv, TypeOK
<1>3. ObjectsInv'
  BY <1>1 DEF IInv, ObjectsInv
<1>4. WorkerInv' /\ ZoneInv'
  BY <1>1
     DEF IInv, ObjectsInv, WorkerInv, ZoneInv, RememberedUpsertsPresent
<1> QED
  BY <1>2, <1>3, <1>4 DEF IInv

LEMMA StutterInv ==
  ASSUME IInv, UNCHANGED vars PROVE IInv'
<1>1. /\ aws' = aws /\ awsCache' = awsCache /\ cl' = cl /\ clCache' = clCache /\ inc' = inc
      /\ pc' = pc /\ copy' = copy /\ zid' = zid /\ want' = want /\ queued' = queued
      /\ zone' = zone /\ wild' = wild /\ api' = api /\ others' = others
      /\ delegation' = delegation /\ idCache' = idCache /\ nsCache' = nsCache
      /\ upserts' = upserts /\ delegated' = delegated /\ peer' = peer /\ failures' = failures
      /\ edits' = edits
  BY DEF vars, objVars, workVars, zoneVars, cacheVars, boundVars
<1>2. TypeOK'
  BY <1>1 DEF IInv, TypeOK
<1>3. ObjectsInv'
  BY <1>1 DEF IInv, ObjectsInv
<1>4. WorkerInv' /\ ZoneInv'
  BY <1>1
     DEF IInv, ObjectsInv, WorkerInv, ZoneInv, RememberedUpsertsPresent
<1> QED
  BY <1>2, <1>3, <1>4 DEF IInv

LEMMA NextInv ==
  ASSUME IInv, [Next]_vars PROVE IInv'
<1>1. CASE UNCHANGED vars
  BY <1>1, StutterInv
<1>2. CASE Worker
  BY <1>2, AddFinalizerCallInv, LookupInv, CreateHostedZoneInv, TagHostedZoneInv, RecordsInv,
     DeleteDnsRecordInv, AddDnsRecordsInv, NSRecordInv, AddDelegationInv, FindZoneInv,
     DeleteDelegationInv, DeleteDnsRecordsInv, DropZoneIdInv, DeleteHostedZoneInv,
     RemoveFinalizerCallInv DEF Worker
<1>3. CASE Reconcile \/ Skip \/ Fail \/ Expire \/ PeerLookup
  BY <1>3, ReconcileInv, SkipFailInv, ExpireInv, PeerLookupInv
<1>4. CASE \/ SyncAWSCluster \/ SyncCluster
           \/ DeleteCluster \/ RecreateCluster \/ EditAWSCluster \/ EditRecords
  BY <1>4, SyncAWSClusterInv, SyncClusterInv, DeleteClusterInv, RecreateClusterInv,
     EditAWSClusterInv, EditRecordsInv
<1> QED
  BY <1>1, <1>2, <1>3, <1>4 DEF Next

-----------------------------------------------------------------------------
(* The theorems.                                                           *)

\* The inductive invariant holds, however old the caches of AWSCluster, Cluster
\* and Route 53 client are.
THEOREM DnsInvariance == Spec => []IInv
<1>1. Init => IInv
  BY InitInv
<1>2. IInv /\ [Next]_vars => IInv'
  BY NextInv
<1> QED
  BY <1>1, <1>2, PTL DEF Spec

\* The state of the DNS controllers has its type: a zone id is that of a cluster
\* of the name, an upsert has a target or none.
THEOREM DnsTypeCorrect == Spec => []TypeOK
<1>1. IInv => TypeOK
  BY DEF IInv
<1> QED
  BY <1>1, DnsInvariance, PTL

\* zoner.go delegates last and removes the delegation first, with ids and name
\* servers that route53.go may have cached of an earlier zone: the parent zone
\* never delegates to a zone that is not there.
THEOREM DelegationNeverDangles == Spec => []NoDanglingDelegation
<1>1. IInv => NoDanglingDelegation
  BY DEF IInv, ZoneInv
<1> QED
  BY <1>1, DnsInvariance, PTL

\* The upsert cache of route53.go never hides that a record is missing while
\* the Cluster lives: deletions forget what was remembered.
THEOREM RememberedUpsertsTrue == Spec => []RememberedUpsertsPresent
<1>1. IInv => RememberedUpsertsPresent
  BY DEF IInv, ZoneInv
<1> QED
  BY <1>1, DnsInvariance, PTL

-----------------------------------------------------------------------------
(* The finalizer guards zone and delegation: GuardedResource.              *)

Kept == zone # NoZone \/ delegation # NoZone

\* The functions of GuardedResource, of which only one value ever changes.
ZoneFlagsOK ==
  /\ phases = [u \in Zones |-> phases[u]]
  /\ guarded \in [Zones -> BOOLEAN] /\ kept \in [Zones -> BOOLEAN]
  /\ \A u \in Zones :
       /\ phases[u] = IF u < inc THEN "gone" ELSE IF u > inc THEN "live" ELSE OwnPhase
       /\ guarded[u] <=> u = inc /\ Guarded
       /\ kept[u] <=> u = inc /\ Kept

LEMMA ZoneFlags == ZoneFlagsOK
<1>1. \A u \in Zones : (u = inc /\ DnsFinalizer \in aws.fins) \in BOOLEAN
  OBVIOUS
<1>2. \A u \in Zones : (u = inc /\ (zone # NoZone \/ delegation # NoZone)) \in BOOLEAN
  OBVIOUS
<1>3. /\ guarded \in [Zones -> BOOLEAN]
      /\ \A u \in Zones : guarded[u] <=> u = inc /\ Guarded
  BY <1>1 DEF guarded
<1>4. /\ kept \in [Zones -> BOOLEAN]
      /\ \A u \in Zones : kept[u] <=> u = inc /\ Kept
  BY <1>2 DEF kept, Kept
<1> QED
  BY <1>3, <1>4 DEF ZoneFlagsOK, phases

LEMMA ZoneFlagsAfter == ZoneFlagsOK'
  BY ZoneFlags, PTL

LEMMA SameFlags ==
  ASSUME NEW F, NEW F1, F \in [Zones -> BOOLEAN], F1 \in [Zones -> BOOLEAN],
         \A u \in Zones : F1[u] <=> F[u]
  PROVE  F1 = F
<1>1. \A u \in Zones : F1[u] = F[u]
  OBVIOUS
<1> QED
  BY <1>1

LEMMA OneFlag ==
  ASSUME NEW F, NEW F1, F \in [Zones -> BOOLEAN], F1 \in [Zones -> BOOLEAN],
         NEW x \in Zones, \A u \in Zones : u # x => (F1[u] <=> F[u]),
         NEW v \in BOOLEAN, F1[x] <=> v
  PROVE  F1 = [F EXCEPT ![x] = v]
<1>1. \A u \in Zones : F1[u] = [F EXCEPT ![x] = v][u]
  OBVIOUS
<1>2. [F EXCEPT ![x] = v] \in [Zones -> BOOLEAN]
  OBVIOUS
<1> QED
  BY <1>1, <1>2, Zenon

\* A step for the zone of the present cluster is one of GuardedResource.
LEMMA GuardPoint ==
  ASSUME TypeOK, inc' = inc,
         \/ OwnPhase' = OwnPhase /\ (Guarded' <=> Guarded) /\ (Kept' <=> Kept)
         \/ OwnPhase = "live" /\ OwnPhase' = OwnPhase /\ Guarded' /\ (Kept' <=> Kept)
         \/ OwnPhase' = OwnPhase /\ Guarded /\ Guarded' /\ Kept'
         \/ OwnPhase = "deleting" /\ OwnPhase' = OwnPhase /\ Guarded /\ Guarded' /\ ~Kept'
         \/ OwnPhase = "deleting" /\ OwnPhase' \in {"deleting", "gone"} /\ ~Guarded' /\ ~Kept /\ ~Kept'
         \/ /\ OwnPhase = "live" /\ OwnPhase' \in {"deleting", "gone"}
            /\ Guarded => OwnPhase' = "deleting"
            /\ (Guarded' <=> Guarded) /\ (Kept' <=> Kept)
         \/ OwnPhase = "deleting" /\ OwnPhase' = "gone" /\ ~Guarded /\ ~Guarded' /\ (Kept' <=> Kept)
  PROVE  [Guard!Next]_(Guard!vars)
<1>1. PICK x \in Zones : x = inc
  BY DEF TypeOK
<1>2. PICK P, G, R, P1, G1, R1 :
        P = phases /\ G = guarded /\ R = kept /\ P1 = phases' /\ G1 = guarded' /\ R1 = kept'
  OBVIOUS
<1>3. /\ P = [u \in Zones |-> P[u]]
      /\ G \in [Zones -> BOOLEAN] /\ R \in [Zones -> BOOLEAN]
      /\ P[x] = OwnPhase /\ (G[x] <=> Guarded) /\ (R[x] <=> Kept)
  BY <1>1, <1>2, ZoneFlags DEF ZoneFlagsOK, TypeOK, Zones
<1>4. /\ P1 = [u \in Zones |-> P1[u]]
      /\ G1 \in [Zones -> BOOLEAN] /\ R1 \in [Zones -> BOOLEAN]
      /\ P1[x] = OwnPhase' /\ (G1[x] <=> Guarded') /\ (R1[x] <=> Kept')
  BY <1>1, <1>2, ZoneFlagsAfter DEF ZoneFlagsOK, TypeOK, Zones
<1>5. \A u \in Zones : u # x => P1[u] = P[u] /\ (G1[u] <=> G[u]) /\ (R1[u] <=> R[u])
  <2>1. \A u \in Zones : u # x => u < inc \/ u > inc
    BY <1>1 DEF Zones
  <2> QED
    BY <1>1, <1>2, <2>1, ZoneFlags, ZoneFlagsAfter DEF ZoneFlagsOK
<1>6. /\ (G1[x] <=> G[x]) => G1 = G
      /\ (R1[x] <=> R[x]) => R1 = R
  BY <1>3, <1>4, <1>5, SameFlags
<1>7. /\ \A v \in BOOLEAN : (G1[x] <=> v) => G1 = [G EXCEPT ![x] = v]
      /\ \A v \in BOOLEAN : (R1[x] <=> v) => R1 = [R EXCEPT ![x] = v]
  BY <1>3, <1>4, <1>5, OneFlag
<1>8. P1 = [P EXCEPT ![x] = P1[x]] /\ (P1[x] = P[x] => P1 = P)
  BY <1>3, <1>4, <1>5
<1>9. \/ P1 = P /\ G1 = G /\ R1 = R
      \/ \E o \in Zones :
           \/ P[o] = "live" /\ G1 = [G EXCEPT ![o] = TRUE] /\ P1 = P /\ R1 = R
           \/ G[o] /\ R1 = [R EXCEPT ![o] = TRUE] /\ P1 = P /\ G1 = G
           \/ G[o] /\ P[o] = "deleting" /\ R1 = [R EXCEPT ![o] = FALSE] /\ P1 = P /\ G1 = G
           \/ /\ P[o] = "deleting" /\ ~R[o] /\ G1 = [G EXCEPT ![o] = FALSE] /\ R1 = R
              /\ \E p \in {"deleting", "gone"} : P1 = [P EXCEPT ![o] = p]
           \/ /\ P[o] = "live" /\ G1 = G /\ R1 = R
              /\ \E p \in {"deleting", "gone"} : (G[o] => p = "deleting") /\ P1 = [P EXCEPT ![o] = p]
           \/ P[o] = "deleting" /\ ~G[o] /\ P1 = [P EXCEPT ![o] = "gone"] /\ G1 = G /\ R1 = R
  <2>1. CASE OwnPhase' = OwnPhase /\ (Guarded' <=> Guarded) /\ (Kept' <=> Kept)
    BY <1>3, <1>4, <1>6, <1>8, <2>1
  <2>2. CASE OwnPhase = "live" /\ OwnPhase' = OwnPhase /\ Guarded' /\ (Kept' <=> Kept)
    BY <1>3, <1>4, <1>6, <1>7, <1>8, <2>2
  <2>3. CASE OwnPhase' = OwnPhase /\ Guarded /\ Guarded' /\ Kept'
    BY <1>3, <1>4, <1>6, <1>7, <1>8, <2>3
  <2>4. CASE OwnPhase = "deleting" /\ OwnPhase' = OwnPhase /\ Guarded /\ Guarded' /\ ~Kept'
    BY <1>3, <1>4, <1>6, <1>7, <1>8, <2>4
  <2>5. CASE OwnPhase = "deleting" /\ OwnPhase' \in {"deleting", "gone"} /\ ~Guarded' /\ ~Kept /\ ~Kept'
    BY <1>3, <1>4, <1>6, <1>7, <1>8, <2>5
  <2>6. CASE /\ OwnPhase = "live" /\ OwnPhase' \in {"deleting", "gone"}
             /\ Guarded => OwnPhase' = "deleting"
             /\ (Guarded' <=> Guarded) /\ (Kept' <=> Kept)
    BY <1>3, <1>4, <1>6, <1>8, <2>6
  <2>7. CASE OwnPhase = "deleting" /\ OwnPhase' = "gone" /\ ~Guarded /\ ~Guarded' /\ (Kept' <=> Kept)
    BY <1>3, <1>4, <1>6, <1>8, <2>7
  <2> QED
    BY <2>1, <2>2, <2>3, <2>4, <2>5, <2>6, <2>7
<1> QED
  BY <1>2, <1>9 DEF Guard!Next, Guard!vars, Guard!PutGuard, Guard!Acquire, Guard!Release,
     Guard!DropGuard, Guard!RequestDeletion, Guard!Vanish

\* A step that makes nothing, takes nothing away and leaves the finalizer.
LEMMA QuietGuard ==
  ASSUME IInv, inc' = inc, aws' = aws, clCache' = clCache, zone' = zone,
         delegation' # NoZone => zone # NoZone, zone = NoZone => delegation' = delegation,
         pc' \in NormalSteps => pc \in NormalSteps \/ clCache # "deleting"
  PROVE  [Guard!Next]_(Guard!vars)
<1>1. (Guarded' <=> Guarded) /\ (Kept' <=> Kept)
  BY DEF IInv, ZoneInv, Kept
<1>2. OwnPhase' = OwnPhase \/ (OwnPhase = "live" /\ OwnPhase' = "deleting")
  BY DEF OwnPhase
<1> QED
  BY <1>1, <1>2, GuardPoint DEF IInv

\* Others write to the AWSCluster, which may let it go.
LEMMA ForeignGuard ==
  ASSUME IInv, inc' = inc, clCache' = clCache, pc' = pc, UNCHANGED zoneVars,
         aws'.phase = "gone" => aws'.fins = {}, aws.phase # "gone", Guarded' <=> Guarded
  PROVE  [Guard!Next]_(Guard!vars)
<1>1. Kept' <=> Kept
  BY DEF Kept, zoneVars
<1>2. OwnPhase' = OwnPhase \/ (OwnPhase' = "gone" /\ OwnPhase # "gone" /\ ~Guarded)
  BY DEF OwnPhase
<1>3. OwnPhase \in {"live", "deleting", "gone"}
  BY DEF OwnPhase
<1> QED
  BY <1>1, <1>2, <1>3, GuardPoint DEF IInv

LEMMA WorkerGuard ==
  ASSUME IInv, IInv', Worker PROVE [Guard!Next]_(Guard!vars)
<1>1. CASE AddFinalizerCall
  <2>1. /\ pc = "addFinalizer" /\ inc' = inc /\ clCache' = clCache
        /\ zone' = zone /\ delegation' = delegation
    BY <1>1 DEF AddFinalizerCall, Call, zoneVars
  <2>2. CASE aws' = aws
    BY <2>1, <2>2, QuietGuard DEF IInv, ZoneInv
  <2>3. CASE pc' = "lookup" /\ aws.phase = "live" /\ aws' = AddFinalizer(aws, DnsFinalizer)
    <3>1. aws'.fins = aws.fins \cup {DnsFinalizer} /\ aws'.phase = "live"
      BY <2>3, FinalizerFacts DEF IInv, TypeOK
    <3>2. OwnPhase = "live" /\ OwnPhase' = "live" /\ Guarded' /\ (Kept' <=> Kept)
      BY <2>1, <2>3, <3>1 DEF OwnPhase, Kept
    <3> QED
      BY <2>1, <3>2, GuardPoint DEF IInv
  <2> QED
    BY <1>1, <2>2, <2>3 DEF AddFinalizerCall, Goto
<1>2. CASE CreateHostedZone
  <2>1. /\ pc = "create" /\ pc' = "tag" /\ inc' = inc /\ clCache' = clCache /\ aws' = aws
        /\ zone' = inc
    BY <1>2 DEF CreateHostedZone, Call, GotoZone, objVars
  <2>2. Guarded /\ inc # NoZone
    BY <2>1 DEF IInv, WorkerInv, TypeOK, Zones
  <2>3. OwnPhase' = OwnPhase /\ Guarded' /\ Kept'
    BY <2>1, <2>2 DEF OwnPhase, Kept
  <2> QED
    BY <2>1, <2>2, <2>3, GuardPoint DEF IInv
<1>3. CASE DeleteHostedZone
  <2>1. /\ pc = "deleteZone" /\ inc' = inc /\ clCache' = clCache /\ aws' = aws
        /\ zone' = zone \/ zone' = NoZone
        /\ pc' \in {"idle", "removeFinalizer"} /\ delegation' = delegation
    BY <1>3 DEF DeleteHostedZone, Call, Goto, ReturnError, Forget, objVars
  <2>2. CASE zone' = zone
    BY <2>1, <2>2, QuietGuard DEF IInv, WorkerInv
  <2>3. CASE zone' = NoZone
    <3>1. Guarded /\ delegation = NoZone /\ aws.phase # "gone" /\ clCache = "deleting"
      BY <2>1 DEF IInv, WorkerInv, ZoneInv, ObjectsInv
    <3>2. OwnPhase = "deleting" /\ OwnPhase' = OwnPhase /\ Guarded' /\ ~Kept'
      BY <2>1, <2>3, <3>1 DEF OwnPhase, Kept
    <3> QED
      BY <2>1, <3>1, <3>2, GuardPoint DEF IInv
  <2> QED
    BY <2>1, <2>2, <2>3
<1>4. CASE RemoveFinalizerCall
  <2>1. /\ pc = "removeFinalizer" /\ pc' = "idle" /\ inc' = inc /\ clCache' = clCache
        /\ zone' = zone /\ delegation' = delegation
    BY <1>4 DEF RemoveFinalizerCall, Call, Return, ReturnError, Forget, zoneVars
  <2>2. CASE aws' = aws
    BY <2>1, <2>2, QuietGuard DEF IInv, ZoneInv
  <2>3. CASE aws.phase # "gone" /\ aws' = RemoveFinalizer(aws, DnsFinalizer)
    <3>1. /\ aws'.fins = aws.fins \ {DnsFinalizer} /\ aws'.phase \in {aws.phase, "gone"}
          /\ zone = NoZone /\ delegation = NoZone
      BY <2>1, <2>3, FinalizerFacts DEF IInv, TypeOK, WorkerInv
    <3>2. ~Kept /\ ~Kept' /\ ~Guarded'
      BY <2>1, <3>1 DEF Kept
    <3>3. CASE Guarded
      <4>1. clCache = "deleting"
        BY <2>1, <3>3 DEF IInv, WorkerInv
      <4>2. OwnPhase = "deleting" /\ OwnPhase' \in {"deleting", "gone"}
        BY <2>1, <2>3, <3>1, <4>1 DEF OwnPhase
      <4> QED
        BY <2>1, <3>2, <4>2, GuardPoint DEF IInv
    <3>4. CASE ~Guarded
      <4>1. /\ OwnPhase \in {"live", "deleting"}
            /\ OwnPhase' = OwnPhase \/ OwnPhase' = "gone"
        BY <2>1, <2>3, <3>1 DEF OwnPhase
      <4> QED
        BY <2>1, <3>2, <3>4, <4>1, GuardPoint DEF IInv
    <3> QED
      BY <3>3, <3>4
  <2> QED
    BY <1>4, <2>2, <2>3 DEF RemoveFinalizerCall, Unconflicted
<1>5. CASE Lookup \/ FindZone
  <2>1. /\ inc' = inc /\ clCache' = clCache /\ aws' = aws /\ zone' = zone /\ delegation' = delegation
        /\ pc' \in NormalSteps => pc \in NormalSteps
    BY <1>5 DEF Lookup, FindZone, FirstDeletion, Call, GotoZone, objVars, zoneVars
  <2> QED
    BY <2>1, QuietGuard DEF IInv, ZoneInv
<1>6. CASE TagHostedZone \/ WorkloadClusterDnsRecords \/ DeleteDnsRecord \/ AddDnsRecords
  <2>1. /\ inc' = inc /\ clCache' = clCache /\ aws' = aws /\ zone' = zone /\ delegation' = delegation
        /\ pc \in NormalSteps
    BY <1>6 DEF TagHostedZone, WorkloadClusterDnsRecords, DeleteDnsRecord, AddDnsRecords, Call,
       objVars, zoneVars
  <2> QED
    BY <2>1, QuietGuard DEF IInv, ZoneInv
<1>7. CASE AddDelegation
  <2>1. /\ inc' = inc /\ clCache' = clCache /\ aws' = aws /\ zone' = zone
        /\ delegation' \in {delegation, zid} /\ pc = "delegate"
    BY <1>7 DEF AddDelegation, Call, objVars
  <2>2. zid = zone /\ zone # NoZone
    BY <2>1 DEF IInv, WorkerInv
  <2> QED
    BY <2>1, <2>2, QuietGuard
<1>8. CASE NSRecord("ns", "delegate") \/ NSRecord("nsDelete", "undelegate")
  <2>1. /\ inc' = inc /\ clCache' = clCache /\ aws' = aws /\ zone' = zone /\ delegation' = delegation
        /\ pc' \in NormalSteps => pc \in NormalSteps
    BY <1>8 DEF NSRecord, Call, Goto, ReturnError, Forget, objVars, zoneVars
  <2> QED
    BY <2>1, QuietGuard DEF IInv, ZoneInv
<1>9. CASE DeleteDelegation \/ DeleteDnsRecords \/ DropZoneId
  <2>1. /\ inc' = inc /\ clCache' = clCache /\ aws' = aws /\ zone' = zone
        /\ pc' \notin NormalSteps
    BY <1>9 DEF DeleteDelegation, DeleteDnsRecords, DropZoneId, Goto, ReturnError, Forget,
       objVars, zoneVars
  <2>2. delegation' \in {delegation, NoZone}
    BY <1>9 DEF DeleteDelegation, DeleteDnsRecords, DropZoneId, zoneVars
  <2> QED
    BY <2>1, <2>2, QuietGuard DEF IInv, ZoneInv
<1> QED
  BY <1>1, <1>2, <1>3, <1>4, <1>5, <1>6, <1>7, <1>8, <1>9 DEF Worker

LEMMA GuardNextHolds ==
  ASSUME IInv, IInv', [Next]_vars PROVE [Guard!Next]_(Guard!vars)
<1>1. CASE Worker
  BY <1>1, WorkerGuard
<1>2. CASE Reconcile
  <2>1. /\ inc' = inc /\ clCache' = clCache /\ aws' = aws /\ zone' = zone /\ delegation' = delegation
        /\ pc' \in NormalSteps => clCache = "live"
    BY <1>2 DEF Reconcile, Serves, objVars, zoneVars
  <2> QED
    BY <2>1, QuietGuard DEF IInv, ZoneInv
<1>3. CASE Skip \/ Fail \/ Expire \/ PeerLookup \/ SyncAWSCluster \/ EditRecords \/ UNCHANGED vars
  <2>1. /\ inc' = inc /\ clCache' = clCache /\ aws' = aws /\ zone' = zone /\ delegation' = delegation
        /\ pc' \in {pc, "idle"}
    BY <1>3 DEF Skip, Fail, ReturnError, Forget, Expire, PeerLookup, SyncAWSCluster, EditRecords,
       vars, objVars, workVars, zoneVars
  <2> QED
    BY <2>1, QuietGuard DEF IInv, ZoneInv
\* The deletion reaches the cache; a Cluster that is gone has no AWSCluster.
<1>4. CASE SyncCluster
  <2>1. /\ inc' = inc /\ clCache' = cl /\ aws' = aws /\ zone' = zone /\ delegation' = delegation
        /\ pc' = pc
    BY <1>4 DEF SyncCluster, workVars, zoneVars
  <2>2. (Guarded' <=> Guarded) /\ (Kept' <=> Kept)
    BY <2>1 DEF Kept
  <2>3. OwnPhase' = OwnPhase \/ (OwnPhase = "live" /\ OwnPhase' = "deleting")
    BY <2>1 DEF OwnPhase, IInv, TypeOK, ObjectsInv
  <2> QED
    BY <2>1, <2>2, <2>3, GuardPoint DEF IInv
<1>5. CASE DeleteCluster
  <2>1. inc' = inc /\ clCache' = clCache /\ pc' = pc /\ UNCHANGED zoneVars
    BY <1>5 DEF DeleteCluster, workVars
  <2>2. CASE aws' = aws
    BY <2>1, <2>2, QuietGuard DEF zoneVars, IInv, ZoneInv
  <2>3. CASE aws.phase = "live" /\ aws' = DeletionRequested(aws)
    <3>1. aws'.fins = aws.fins /\ (aws'.phase = "gone" => aws'.fins = {})
      BY <2>3, DeletionFacts DEF IInv, TypeOK
    <3> QED
      BY <2>1, <2>3, <3>1, ForeignGuard
  <2> QED
    BY <1>5, <2>2, <2>3 DEF DeleteCluster
<1>6. CASE EditAWSCluster
  <2>1. inc' = inc /\ clCache' = clCache /\ pc' = pc /\ UNCHANGED zoneVars /\ aws.phase # "gone"
    BY <1>6 DEF EditAWSCluster, workVars
  <2>2. (aws'.phase = "gone" => aws'.fins = {}) /\ (Guarded' <=> Guarded)
    BY <1>6, EditKeepsFinalizer DEF ForeignEdit
  <2> QED
    BY <2>1, <2>2, ForeignGuard
\* The cluster before is gone, the next one has nothing yet.
<1>7. CASE RecreateCluster
  <2>1. /\ inc' = inc + 1 /\ clCache' = "gone" /\ zone' = zone /\ delegation' = delegation
        /\ cl = "gone" /\ inc \in Zones
    BY <1>7 DEF RecreateCluster, zoneVars, IInv, TypeOK
  <2>2. aws.phase = "gone" /\ ~Guarded /\ ~Guarded' /\ aws'.phase = "live"
    BY <1>7, <2>1 DEF IInv, TypeOK, ObjectsInv, RecreateCluster, DnsClusters
  <2>3. ~Kept /\ ~Kept' /\ OwnPhase = "gone" /\ OwnPhase' = "live"
    BY <2>1, <2>2 DEF IInv, ZoneInv, Kept, OwnPhase
  <2>4. PICK P, G, R, P1, G1, R1 :
          P = phases /\ G = guarded /\ R = kept /\ P1 = phases' /\ G1 = guarded' /\ R1 = kept'
    OBVIOUS
  <2>5. /\ P = [u \in Zones |-> P[u]] /\ P1 = [u \in Zones |-> P1[u]]
        /\ G \in [Zones -> BOOLEAN] /\ R \in [Zones -> BOOLEAN]
        /\ G1 \in [Zones -> BOOLEAN] /\ R1 \in [Zones -> BOOLEAN]
        /\ \A u \in Zones : ~G[u] /\ ~R[u] /\ ~G1[u] /\ ~R1[u]
    BY <2>2, <2>3, <2>4, ZoneFlags, ZoneFlagsAfter DEF ZoneFlagsOK
  <2>6. \A u \in Zones : P1[u] = P[u]
    BY <2>1, <2>3, <2>4, ZoneFlags, ZoneFlagsAfter DEF ZoneFlagsOK, Zones
  <2>7. P1 = P /\ G1 = G /\ R1 = R
    BY <2>5, <2>6, SameFlags
  <2> QED
    BY <2>4, <2>7 DEF Guard!vars
<1> QED
  BY <1>1, <1>2, <1>3, <1>4, <1>5, <1>6, <1>7 DEF Next

LEMMA GuardInit ==
  ASSUME Init PROVE Guard!Init
<1>1. /\ inc = 1 /\ aws.phase = "live" /\ aws.fins = {} /\ clCache = "live"
      /\ zone = NoZone /\ delegation = NoZone
  BY DEF Init
<1>2. OwnPhase = "live" /\ ~Guarded /\ ~Kept
  BY <1>1 DEF OwnPhase, Kept
<1>3. PICK P, G, R : P = phases /\ G = guarded /\ R = kept
  OBVIOUS
<1>4. /\ P = [u \in Zones |-> P[u]] /\ G \in [Zones -> BOOLEAN] /\ R \in [Zones -> BOOLEAN]
      /\ \A u \in Zones : P[u] = "live" /\ ~G[u] /\ ~R[u]
  BY <1>1, <1>2, <1>3, ZoneFlags DEF ZoneFlagsOK, Zones
<1>5. P = [u \in Zones |-> "live"] /\ G = [u \in Zones |-> FALSE] /\ R = [u \in Zones |-> FALSE]
  <2>1. P = [u \in Zones |-> "live"]
    BY <1>4
  <2>2. [u \in Zones |-> FALSE] \in [Zones -> BOOLEAN]
    OBVIOUS
  <2>3. G = [u \in Zones |-> FALSE] /\ R = [u \in Zones |-> FALSE]
    BY <1>4, <2>2, SameFlags
  <2> QED
    BY <2>1, <2>3
<1> QED
  BY <1>3, <1>5 DEF Guard!Init

\* dns.go puts the finalizer on the AWSCluster before zoner.go makes the zone,
\* and takes it off only when route53.go has deleted zone and delegation: for
\* every cluster of the name, whatever the clients have cached of an earlier one.
THEOREM ZoneAlwaysGuarded == Spec => GuardsZone
<1>1. Init => Guard!Init
  BY GuardInit
<1>2. IInv /\ IInv' /\ [Next]_vars => [Guard!Next]_(Guard!vars)
  BY GuardNextHolds
<1> QED
  BY <1>1, <1>2, DnsInvariance, PTL DEF Spec, GuardsZone, Guard!Spec
=============================================================================
