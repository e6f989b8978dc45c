------------------------ MODULE NetworkTopologyProofs ------------------------
(***************************************************************************)
(* Safety of NetworkTopology for any set of clusters and controllers, any  *)
(* prefix list and any number of failures, restarts and edits.             *)
(***************************************************************************)
EXTENDS NetworkTopology, TLAPS

\* A prefix list comes with a transit gateway.
Paired(a) == "pl" \in a => "tgw" \in a

\* The share controller puts its finalizer on with the transit gateway only.
Covered(k) == k = SHR => NoLoneList

EntrySteps == {"lookup", "version", "modify"}

\* The worker k is past its finalizer in reconcileNormal.
Serving(k) ==
  \/ w[k].pc \in {"attach", "addRoutes", "shareTgw", "sharePl",
                  "gateway", "annotateGateway", "list", "annotateList"}
  \/ w[k].pc \in EntrySteps /\ Copy(k).phase = "live"

\* The worker k is in reconcileDelete.
Releasing(k) ==
  \/ w[k].pc \in {"detach", "removeRoutes", "unshareTgw", "unsharePl",
                  "deleteGateway", "deleteList", "removeFinalizer"}
  \/ w[k].pc \in EntrySteps /\ Copy(k).phase # "live"

\* The management cluster's network is on its way out and never comes back.
ManagementReleased ==
  /\ MC \in Clusters /\ cache[MC].phase # "live"
  /\ MCN \in Controllers =>
       w[MCN].pc \notin {"addFinalizer", "gateway", "annotateGateway", "list", "annotateList"}

-----------------------------------------------------------------------------
(* The inductive invariant.                                                *)

\* What the cache holds is an earlier version of the object: nothing came
\* back to life since, a finalizer of these controllers is put on a live
\* object and comes off a deleted one, and the rest only grows.
VersionsInv ==
  \A c \in Clusters :
    /\ cache[c].rv <= obj[c].rv
    /\ cache[c].rv = obj[c].rv => cache[c] = obj[c]
    /\ cache[c].phase # "live" => obj[c].phase # "live" /\ obj[c].fins \subseteq cache[c].fins
    /\ cache[c].phase = "live" => cache[c].fins \cap AllControllers \subseteq obj[c].fins
    /\ cache[c].network = "ready" => obj[c].network = "ready"
    /\ cache[c].arns \subseteq obj[c].arns
    /\ obj[c].phase = "gone" => obj[c].fins = {}
    /\ (c # MC /\ MC \in Clusters /\ obj[MC].phase # "live") => obj[c].phase = "gone"
    /\ (c = MC \/ NoLoneList) => Paired(obj[c].arns) /\ Paired(cache[c].arns)

\* Whatever a controller keeps, its finalizer is there.
GuardedInv ==
  \A k \in AllControllers, c \in Clusters :
    (Covered(k) /\ Keeps(k, c)) => k \in obj[c].fins

\* One entry for a CIDR in each list, none in a list that is gone; routes are
\* made once the subnets are known; a live cluster's attachment stays.
ResourcesInv ==
  /\ \A e, f \in entries : (e.list = f.list /\ e.cidr = f.cidr) => e = f
  /\ ~plist => \A e \in entries : e.list # MC
  /\ \A c \in Clusters :
       /\ routes[c] # {} => cache[c].network = "ready"
       /\ att[c] \in {"deleting", "deleted"} => obj[c].phase # "live"

\* The conditions in s are true of the cluster c.
Truthful(c, s) ==
  /\ TransitGatewayAttached \in s => att[c] = "available"
  /\ PrefixListEntriesReady \in s => OwnEntry(c) \in entries
  /\ TransitGatewayCreated \in s =>
       c = MC /\ gateway \in {"pending", "available"} /\ "tgw" \in obj[c].arns

\* However old the copy, its conditions are true of a live cluster.
ConditionsInv ==
  \A c \in Clusters : obj[c].phase = "live" =>
    Truthful(c, obj[c].conds) /\ Truthful(c, cache[c].conds)

\* What the worker k has achieved, and what its copy is still good for.
WorkerOK(k) ==
  LET c == Cl(k) IN
  /\ c \in Clusters
  /\ obj[c].phase = "live" => Truthful(c, Copy(k).conds)
  /\ w[k].pc = "addFinalizer" =>
       /\ Copy(k).phase = "live"
       /\ Copy(k).rv <= obj[c].rv
       /\ Copy(k).rv = obj[c].rv => obj[c].phase = "live"
       /\ k \in Copy(k).fins => k \in obj[c].fins
  /\ (Serving(k) /\ Covered(k)) => k \in obj[c].fins
  /\ Releasing(k) => cache[c].phase # "live"
  /\ w[k].pc = "removeFinalizer" => ~Keeps(k, c)
  /\ k = MCN =>
       /\ c = MC
       /\ Copy(k).arns \subseteq obj[c].arns
       /\ w[k].pc \in {"annotateGateway", "list", "annotateList"} => GatewayFound
       /\ w[k].pc \in {"list", "annotateList"} => "tgw" \in obj[c].arns
       /\ w[k].pc = "deleteList" => ~GatewayFound
  /\ k = PLE =>
       /\ w[k].pc \in EntrySteps => Copy(k).phase # "gone"
       /\ (w[k].pc \in {"version", "modify"} /\ Copy(k).phase # "live") =>
            \/ OwnEntry(c) \in entries
            \/ c = MC /\ ~plist /\ ManagementReleased
  /\ k = RTC =>
       /\ w[k].pc \in {"addFinalizer", "addRoutes"} /\ Copy(k).network = "ready"
            => cache[c].network = "ready"
       /\ w[k].pc = "removeRoutes" /\ routes[c] # {} => Copy(k).network = "ready"
  /\ k = SHR =>
       /\ w[k].pc \in {"unshareTgw", "unsharePl"} => TGA \notin obj[c].fins /\ PLE \notin obj[c].fins
       /\ w[k].pc = "unsharePl" => "tgw" \notin shares[c]

WorkerInv == \A k \in Controllers : w[k].pc # "idle" => WorkerOK(k)

IInv ==
  TypeOK /\ VersionsInv /\ GuardedInv /\ ResourcesInv /\ ConditionsInv /\ WorkerInv

USE DEF AllControllers, Arns

-----------------------------------------------------------------------------
(* Writes to an AWSCluster.                                                *)

\* How the object of the cluster c may follow from an earlier version of it.
Evolves(c, o, n) ==
  /\ n \in NetClusters
  /\ n.rv >= o.rv
  /\ n.rv = o.rv => n = o
  /\ n.phase = "live" => o.phase = "live"
  /\ o.phase = "gone" => n.phase = "gone"
  /\ n.phase = "gone" => n.fins = {}
  /\ o.phase # "live" => n.fins \subseteq o.fins
  /\ o.network = "ready" => n.network = "ready"
  /\ o.arns \subseteq n.arns
  /\ c # MC => n.arns = o.arns

\* What the API server makes of a change that leaves phase and version alone.
LEMMA NetStored ==
  ASSUME NEW o \in NetClusters, NEW n \in NetClusters, n.rv = o.rv, n.phase = o.phase,
         o.phase # "gone"
  PROVE  LET m == Stored(o, n)
         IN  /\ m \in NetClusters
             /\ m.rv >= o.rv /\ (m.rv = o.rv => m = o)
             /\ m.phase = "live" <=> o.phase = "live"
             /\ m.phase = "gone" => n.fins = {} /\ o.phase = "deleting"
             /\ m.fins = n.fins /\ m.conds = n.conds /\ m.network = n.network
             /\ m.arns = n.arns
<1>1. CASE n = o
  BY <1>1 DEF Stored, NetClusters
<1>2. CASE n # o
  <2> DEFINE p == IF n.phase = "deleting" /\ n.fins = {} THEN "gone" ELSE n.phase
  <2>1. Stored(o, n) = [n EXCEPT !.rv = o.rv + 1, !.phase = p]
    BY <1>2 DEF Stored
  <2>2. o.rv \in Nat /\ p \in {"live", "deleting", "gone"}
    BY DEF NetClusters
  <2>3. ASSUME NEW v \in Nat, NEW q \in {"live", "deleting", "gone"}
        PROVE  LET m == [n EXCEPT !.rv = v, !.phase = q]
               IN  /\ m \in NetClusters /\ m.rv = v /\ m.phase = q
                   /\ m.fins = n.fins /\ m.conds = n.conds /\ m.network = n.network
                   /\ m.arns = n.arns
    BY DEF NetClusters
  <2>4. /\ p = "live" <=> o.phase = "live"
        /\ p = "gone" => n.fins = {} /\ o.phase = "deleting"
    OBVIOUS
  <2>5. o.rv + 1 \in Nat /\ o.rv + 1 >= o.rv /\ o.rv + 1 # o.rv
    BY <2>2
  <2> HIDE DEF p
  <2> DEFINE m == [n EXCEPT !.rv = o.rv + 1, !.phase = p]
  <2>6. /\ m \in NetClusters /\ m.rv = o.rv + 1 /\ m.phase = p
        /\ m.fins = n.fins /\ m.conds = n.conds /\ m.network = n.network
        /\ m.arns = n.arns
    BY <2>2, <2>3, <2>5
  <2> HIDE DEF m
  <2> QED
    BY <2>1, <2>4, <2>5, <2>6 DEF m
<1> QED
  BY <1>1, <1>2

NetConditions == {TransitGatewayAttached, PrefixListEntriesReady, TransitGatewayCreated, InProgress}

LEMMA NetDeletionRequested ==
  ASSUME NEW o \in NetClusters, o.phase = "live"
  PROVE  LET m == DeletionRequested(o)
         IN  /\ m \in NetClusters
             /\ m.rv > o.rv
             /\ m.phase = IF o.fins = {} THEN "gone" ELSE "deleting"
             /\ m.fins = o.fins /\ m.conds = o.conds /\ m.network = o.network
             /\ m.arns = o.arns
<1> DEFINE p == IF o.fins = {} THEN "gone" ELSE "deleting"
<1>1. o.rv \in Nat /\ p \in {"live", "deleting", "gone"}
  BY DEF NetClusters
<1>2. ASSUME NEW v \in Nat, NEW q \in {"live", "deleting", "gone"}
      PROVE  LET m == [o EXCEPT !.rv = v, !.phase = q]
             IN  /\ m \in NetClusters /\ m.rv = v /\ m.phase = q
                 /\ m.fins = o.fins /\ m.conds = o.conds /\ m.network = o.network
                 /\ m.arns = o.arns
  BY DEF NetClusters
<1>3. o.rv + 1 \in Nat /\ o.rv + 1 > o.rv
  BY <1>1
<1>4. DeletionRequested(o) = [o EXCEPT !.rv = o.rv + 1, !.phase = p]
  BY DEF DeletionRequested
<1> HIDE DEF p
<1> DEFINE m == [o EXCEPT !.rv = o.rv + 1, !.phase = p]
<1>5. /\ m \in NetClusters /\ m.rv = o.rv + 1 /\ m.phase = p
      /\ m.fins = o.fins /\ m.conds = o.conds /\ m.network = o.network
      /\ m.arns = o.arns
  BY <1>1, <1>2, <1>3
<1> HIDE DEF m
<1> QED
  BY <1>3, <1>4, <1>5 DEF m, p

-----------------------------------------------------------------------------
(* Steps of a worker.                                                      *)

LEMMA UnreadType == Unread \in NetClusters
<1>1. (CHOOSE m \in Modes : TRUE) \in Modes
  BY NetworkConstantsAssumption
<1> QED
  BY <1>1 DEF Unread, NetClusters

LEMMA IdleType == Idle \in Workers /\ Idle.pc = "idle"
<1>1. Idle.pc = "idle"
  BY DEF Idle
<1> QED
  BY <1>1, UnreadType DEF Idle, Workers, Steps

\* The others stay where they are.
Others(k) == \A j \in Controllers : j # k => w'[j] = w[j]

LEMMA GotoFacts ==
  ASSUME TypeOK, NEW k \in Controllers, NEW l \in Steps, Goto(k, l)
  PROVE  /\ w' \in [Controllers -> Workers] /\ queue' = queue /\ Others(k)
         /\ w'[k].pc = l /\ w'[k].cl = w[k].cl /\ w'[k].copy = w[k].copy
         /\ w'[k].arns = w[k].arns /\ w'[k].version = w[k].version
<1>1. w[k] \in Workers
  BY DEF TypeOK
<1>2. [w[k] EXCEPT !.pc = l] \in Workers
  BY <1>1 DEF Workers
<1>3. w' = [w EXCEPT ![k] = [w[k] EXCEPT !.pc = l]] /\ queue' = queue
  BY DEF Goto, TypeOK
<1> QED
  BY <1>1, <1>2, <1>3 DEF TypeOK, Others, Workers

LEMMA ReturnFacts ==
  ASSUME TypeOK, NEW k \in Controllers, Return(k)
  PROVE  /\ w' \in [Controllers -> Workers] /\ queue' = queue /\ Others(k)
         /\ w'[k] = Idle
  BY IdleType DEF Return, TypeOK, Others

LEMMA RequeueFacts ==
  ASSUME TypeOK, NEW k \in Controllers, Cl(k) \in Clusters, Requeue(k)
  PROVE  /\ w' \in [Controllers -> Workers] /\ queue' \in [Controllers -> SUBSET Clusters]
         /\ Others(k) /\ w'[k] = Idle
  BY IdleType DEF Requeue, TypeOK, Others

LEMMA ErrorFacts ==
  ASSUME TypeOK, NEW k \in Controllers, Cl(k) \in Clusters, Error(k)
  PROVE  /\ w' \in [Controllers -> Workers] /\ queue' \in [Controllers -> SUBSET Clusters]
         /\ Others(k)
         /\ \/ w'[k] = Idle
            \/ w'[k].pc = "status" /\ w'[k].cl = w[k].cl /\ w'[k].copy = w[k].copy
<1>1. CASE k \in WritesStatus
  <2>1. w[k] \in Workers
    BY DEF TypeOK
  <2>2. [w[k] EXCEPT !.pc = "status", !.again = TRUE] \in Workers
    BY <2>1 DEF Workers, Steps
  <2>3. w' = [w EXCEPT ![k] = [w[k] EXCEPT !.pc = "status", !.again = TRUE]] /\ queue' = queue
    BY <1>1 DEF Error, TypeOK
  <2> QED
    BY <2>1, <2>2, <2>3 DEF TypeOK, Others, Workers
<1>2. CASE k \notin WritesStatus
  BY <1>2, RequeueFacts DEF Error
<1> QED
  BY <1>1, <1>2

LEMMA MarkReadyFacts ==
  ASSUME TypeOK, NEW k \in Controllers, NEW x \in NetConditions, MarkReady(k, x)
  PROVE  /\ w' \in [Controllers -> Workers] /\ queue' = queue /\ Others(k)
         /\ w'[k].pc = "status" /\ w'[k].cl = w[k].cl
         /\ w'[k].copy.conds = w[k].copy.conds \cup {x}
         /\ w'[k].copy.arns = w[k].copy.arns
<1>1. w[k] \in Workers /\ w[k].copy \in NetClusters
  BY DEF TypeOK, Workers
<1> DEFINE o == [w[k].copy EXCEPT !.conds = w[k].copy.conds \cup {x}]
<1>2. /\ o \in NetClusters /\ o.conds = w[k].copy.conds \cup {x} /\ o.arns = w[k].copy.arns
  BY <1>1 DEF NetClusters, NetConditions
<1>3. w' = [w EXCEPT ![k] = [w[k] EXCEPT !.pc = "status", !.copy = o]] /\ queue' = queue
  BY <1>1 DEF MarkReady, TypeOK, Workers
<1> HIDE DEF o
<1>4. [w[k] EXCEPT !.pc = "status", !.copy = o] \in Workers
  BY <1>1, <1>2 DEF Workers, Steps
<1> QED
  BY <1>1, <1>2, <1>3, <1>4 DEF TypeOK, Others, Workers

LEMMA KnownArnsType ==
  ASSUME TypeOK, NEW c \in Clusters PROVE KnownArns(c) \in SUBSET Arns
<1>1. cache[c] \in NetClusters /\ (MC \in Clusters => cache[MC] \in NetClusters)
  BY DEF TypeOK
<1> QED
  BY <1>1 DEF KnownArns, NetClusters

LEMMA BeginFacts ==
  ASSUME TypeOK, NEW k \in Controllers, NEW c \in Clusters, NEW l \in Steps, Begin(k, c, l)
  PROVE  /\ w' \in [Controllers -> Workers] /\ queue' \in [Controllers -> SUBSET Clusters]
         /\ Others(k)
         /\ w'[k].pc = l /\ w'[k].cl = c /\ w'[k].copy = cache[c] /\ w'[k].arns = KnownArns(c)
<1> DEFINE r == [Idle EXCEPT !.pc = l, !.cl = c, !.copy = cache[c], !.arns = KnownArns(c)]
<1>1. cache[c] \in NetClusters /\ KnownArns(c) \in SUBSET Arns
  BY KnownArnsType DEF TypeOK
<1>2. /\ r \in Workers /\ r.pc = l /\ r.cl = c /\ r.copy = cache[c] /\ r.arns = KnownArns(c)
  BY <1>1, IdleType DEF Workers
<1>3. w' = [w EXCEPT ![k] = r] /\ queue' = [queue EXCEPT ![k] = @ \ {c}]
  BY DEF Begin
<1> HIDE DEF r
<1> QED
  BY <1>2, <1>3 DEF TypeOK, Others

LEMMA SkipFacts ==
  ASSUME TypeOK, NEW k \in Controllers, NEW c \in Clusters, Skip(k, c)
  PROVE  w' = w /\ queue' \in [Controllers -> SUBSET Clusters]
  BY DEF Skip, TypeOK

-----------------------------------------------------------------------------
(* What a step does to everybody else.                                     *)

LEMMA KeepsCases ==
  /\ \A c : Keeps(MCN, c) <=> c = MC /\ (gateway \in {"pending", "available"} \/ plist)
  /\ \A c : Keeps(TGA, c) <=> att[c] = "available"
  /\ \A c : Keeps(PLE, c) <=> OwnEntry(c) \in entries
  /\ \A c : Keeps(RTC, c) <=> routes[c] # {}
  /\ \A c : Keeps(SHR, c) <=> shares[c] # {}
  BY DEF Keeps, MCN, TGA, PLE, RTC, SHR, FinalizerManagementCluster,
     FinalizerTransitGatewayAttachment, FinalizerPrefixListEntry, RouteFinalizer,
     FinalizerResourceShare

LEMMA ControllerNames ==
  MCN = "mc" /\ TGA = "attachment" /\ PLE = "entry" /\ RTC = "route" /\ SHR = "share"
  BY DEF MCN, TGA, PLE, RTC, SHR, FinalizerManagementCluster,
     FinalizerTransitGatewayAttachment, FinalizerPrefixListEntry, RouteFinalizer,
     FinalizerResourceShare

ObjectsEvolve ==
  \A c \in Clusters : Evolves(c, obj[c], obj'[c]) /\ cache'[c] \in {cache[c], obj[c]}

\* The lists are those of before.
LEMMA ListsStay ==
  ASSUME ObjectsEvolve, NEW c \in Clusters
  PROVE  ListOf(c)' = ListOf(c) /\ OwnEntry(c)' = OwnEntry(c)
  BY DEF ObjectsEvolve, Evolves, ListOf, OwnEntry

\* What stays true of a live cluster.
TruthStays ==
  \A c \in Clusters : obj'[c].phase = "live" =>
    /\ att[c] = "available" => att'[c] = "available"
    /\ OwnEntry(c) \in entries => OwnEntry(c)' \in entries'
    /\ (c = MC /\ GatewayFound) => GatewayFound'

LEMMA TruthfulStays ==
  ASSUME ObjectsEvolve, TruthStays, NEW c \in Clusters, NEW s, Truthful(c, s),
         obj'[c].phase = "live"
  PROVE  /\ TransitGatewayAttached \in s => att'[c] = "available"
         /\ PrefixListEntriesReady \in s => OwnEntry(c)' \in entries'
         /\ TransitGatewayCreated \in s =>
              c = MC /\ gateway' \in {"pending", "available"} /\ "tgw" \in obj'[c].arns
  BY DEF ObjectsEvolve, TruthStays, Truthful, Evolves, GatewayFound

\* A step of somebody else, as the worker j sees it, at work on c.
LeavesAlone(j, c) ==
  /\ ObjectsEvolve /\ TruthStays
  /\ w'[j] = w[j]
  /\ j \in obj[c].fins => j \in obj'[c].fins
  /\ Keeps(j, c)' => Keeps(j, c)
  /\ j = MCN => GatewayFound' = GatewayFound
  /\ j = PLE =>
       /\ OwnEntry(c) \in entries =>
            \/ OwnEntry(c)' \in entries'
            \/ c = MC /\ ~plist' /\ ManagementReleased'
       /\ (~plist /\ ManagementReleased) => ~plist' /\ ManagementReleased'
  /\ j = RTC => routes' = routes
  /\ j = SHR => shares' = shares

LEMMA Undisturbed ==
  ASSUME IInv, NEW j \in Controllers, w[j].pc # "idle",
         NEW c, c = Cl(j), LeavesAlone(j, c)
  PROVE  WorkerOK(j)'
<1>1. /\ w'[j] = w[j] /\ ObjectsEvolve /\ TruthStays
      /\ WorkerOK(j) /\ c \in Clusters /\ w[j] \in Workers
  BY DEF LeavesAlone, IInv, WorkerInv, WorkerOK, TypeOK
<1>2. PICK o \in NetClusters : o = Copy(j)
  BY <1>1 DEF Copy, Workers
<1>3. /\ Cl(j)' = c /\ Copy(j)' = o
      /\ Serving(j)' = Serving(j) /\ Releasing(j)' = Releasing(j)
  BY <1>1, <1>2 DEF Cl, Copy, Serving, Releasing
<1>4. /\ Evolves(c, obj[c], obj'[c]) /\ cache'[c] \in {cache[c], obj[c]}
      /\ OwnEntry(c)' = OwnEntry(c)
      /\ obj[c] \in NetClusters /\ cache[c] \in NetClusters
      /\ cache[c].phase # "live" => obj[c].phase # "live"
      /\ cache[c].network = "ready" => obj[c].network = "ready"
  BY <1>1, ListsStay DEF ObjectsEvolve, IInv, TypeOK, VersionsInv
<1>5. obj'[c].phase = "live" => Truthful(c, o.conds)'
  <2> SUFFICES ASSUME obj'[c].phase = "live" PROVE Truthful(c, o.conds)'
    OBVIOUS
  <2>1. Truthful(c, o.conds)
    BY <1>1, <1>2, <1>4 DEF WorkerOK, Evolves
  <2> QED
    BY <1>1, <2>1, TruthfulStays DEF Truthful
<1>6. w'[j].pc = "addFinalizer" =>
        /\ o.phase = "live"
        /\ o.rv <= obj'[c].rv
        /\ o.rv = obj'[c].rv => obj'[c].phase = "live"
        /\ j \in o.fins => j \in obj'[c].fins
  <2>1. o.rv \in Nat /\ obj[c].rv \in Nat /\ obj'[c].rv \in Nat
    BY <1>2, <1>4 DEF NetClusters, Evolves
  <2> QED
    BY <1>1, <1>2, <1>4, <2>1 DEF WorkerOK, Evolves, LeavesAlone
<1>7. (Serving(j) /\ Covered(j)) => j \in obj'[c].fins
  BY <1>1 DEF WorkerOK, LeavesAlone
<1>8. Releasing(j) => cache'[c].phase # "live"
  BY <1>1, <1>4 DEF WorkerOK
<1>9. w'[j].pc = "removeFinalizer" => ~Keeps(j, c)'
  BY <1>1 DEF WorkerOK, LeavesAlone
<1>10. j = MCN =>
        /\ c = MC
        /\ o.arns \subseteq obj'[c].arns
        /\ w'[j].pc \in {"annotateGateway", "list", "annotateList"} => GatewayFound'
        /\ w'[j].pc \in {"list", "annotateList"} => "tgw" \in obj'[c].arns
        /\ w'[j].pc = "deleteList" => ~GatewayFound'
  BY <1>1, <1>2, <1>4 DEF WorkerOK, LeavesAlone, Evolves
<1>11. j = PLE =>
        /\ w'[j].pc \in EntrySteps => o.phase # "gone"
        /\ (w'[j].pc \in {"version", "modify"} /\ o.phase # "live") =>
             \/ OwnEntry(c)' \in entries'
             \/ c = MC /\ ~plist' /\ ManagementReleased'
  BY <1>1, <1>2 DEF WorkerOK, LeavesAlone
<1>12. j = RTC =>
        /\ w'[j].pc \in {"addFinalizer", "addRoutes"} /\ o.network = "ready"
             => cache'[c].network = "ready"
        /\ w'[j].pc = "removeRoutes" /\ routes'[c] # {} => o.network = "ready"
  BY <1>1, <1>2, <1>4 DEF WorkerOK, LeavesAlone
<1>13. j = SHR =>
        /\ w'[j].pc \in {"unshareTgw", "unsharePl"} => TGA \notin obj'[c].fins /\ PLE \notin obj'[c].fins
        /\ w'[j].pc = "unsharePl" => "tgw" \notin shares'[c]
  <2>1. w[j].pc \in {"unshareTgw", "unsharePl"} => Releasing(j)
    BY DEF Releasing
  <2> QED
    BY <1>1, <1>4, <2>1 DEF WorkerOK, LeavesAlone, Evolves
<1> QED
  BY <1>1, <1>3, <1>5, <1>6, <1>7, <1>8, <1>9, <1>10, <1>11, <1>12, <1>13 DEF WorkerOK, Covered

LEMMA EvolvesRefl ==
  ASSUME NEW c, NEW o \in NetClusters, o.phase = "gone" => o.fins = {}
  PROVE  Evolves(c, o, o)
<1>1. o.rv \in Nat
  BY DEF NetClusters
<1> QED
  BY <1>1 DEF Evolves

\* A write to the object of one cluster, while AWS stays as it is.
ObjectWritten(c, n) ==
  /\ Evolves(c, obj[c], n)
  /\ obj' = [obj EXCEPT ![c] = n]
  /\ UNCHANGED <<cache, awsVars>>
  /\ \A k \in AllControllers :
       (k \in obj[c].fins /\ k \notin n.fins) => cache[c].phase # "live" /\ ~Keeps(k, c)
  /\ n.phase = "live" => Truthful(c, n.conds)
  /\ (c = MC \/ NoLoneList) => Paired(n.arns)
  /\ (c = MC /\ n.phase # "live" /\ obj[c].phase = "live") =>
       \A d \in Clusters \ {MC} : obj[d].phase = "gone"

LEMMA ObjectWrite ==
  ASSUME IInv, NEW c \in Clusters, NEW n, ObjectWritten(c, n)
  PROVE  /\ obj' \in [Clusters -> NetClusters]
         /\ \A b \in Clusters : obj'[b] = IF b = c THEN n ELSE obj[b]
         /\ ObjectsEvolve /\ TruthStays
         /\ \A b \in Clusters : OwnEntry(b)' = OwnEntry(b)
         /\ \A k \in AllControllers, b \in Clusters : Keeps(k, b)' = Keeps(k, b)
         /\ VersionsInv' /\ GuardedInv' /\ ResourcesInv' /\ ConditionsInv'
<1> USE DEF ObjectWritten
<1>1. \A b \in Clusters : obj'[b] = IF b = c THEN n ELSE obj[b]
  BY DEF IInv, TypeOK
<1>2. /\ gateway' = gateway /\ plist' = plist /\ att' = att /\ entries' = entries
      /\ routes' = routes /\ shares' = shares /\ cache' = cache
  BY DEF awsVars, mcVars, entryVars
<1>3. \A b \in Clusters : obj[b] \in NetClusters /\ (obj[b].phase = "gone" => obj[b].fins = {})
                         /\ cache[b] \in NetClusters
  BY DEF IInv, TypeOK, VersionsInv
<1>4. ObjectsEvolve
  BY <1>1, <1>2, <1>3, EvolvesRefl DEF ObjectsEvolve
<1>5. \A b \in Clusters : OwnEntry(b)' = OwnEntry(b)
  BY <1>4, ListsStay
<1>6. TruthStays
  BY <1>2, <1>5 DEF TruthStays, GatewayFound
<1>7. \A k \in AllControllers, b \in Clusters : Keeps(k, b)' = Keeps(k, b)
  BY <1>2, <1>5 DEF Keeps, MCN, TGA, PLE, RTC, SHR, FinalizerManagementCluster,
     FinalizerTransitGatewayAttachment, FinalizerPrefixListEntry, RouteFinalizer,
     FinalizerResourceShare
<1>8. VersionsInv'
  <2>1. \A b \in Clusters : obj[b].rv \in Nat /\ cache[b].rv \in Nat
    BY <1>3 DEF NetClusters
  <2>2. n.rv \in Nat
    BY DEF Evolves, NetClusters
  <2>3. \A b \in Clusters :
          /\ cache'[b].rv <= obj'[b].rv
          /\ cache'[b].rv = obj'[b].rv => cache'[b] = obj'[b]
    BY <1>1, <1>2, <2>1, <2>2 DEF IInv, VersionsInv, Evolves
  <2>4. \A b \in Clusters :
          /\ cache'[b].phase # "live" => obj'[b].phase # "live" /\ obj'[b].fins \subseteq cache'[b].fins
          /\ cache'[b].phase = "live" => cache'[b].fins \cap AllControllers \subseteq obj'[b].fins
    BY <1>1, <1>2 DEF IInv, VersionsInv, Evolves
  <2>5. \A b \in Clusters :
          /\ cache'[b].network = "ready" => obj'[b].network = "ready"
          /\ cache'[b].arns \subseteq obj'[b].arns
          /\ obj'[b].phase = "gone" => obj'[b].fins = {}
          /\ (b = MC \/ NoLoneList) => Paired(obj'[b].arns) /\ Paired(cache'[b].arns)
    BY <1>1, <1>2 DEF IInv, VersionsInv, Evolves
  <2>6. \A b \in Clusters :
          (b # MC /\ MC \in Clusters /\ obj'[MC].phase # "live") => obj'[b].phase = "gone"
    BY <1>1 DEF IInv, VersionsInv, Evolves
  <2> QED
    BY <2>3, <2>4, <2>5, <2>6 DEF VersionsInv
<1>9. GuardedInv'
  BY <1>1, <1>7 DEF IInv, GuardedInv, Covered
<1>10. ResourcesInv'
  BY <1>1, <1>2 DEF IInv, ResourcesInv, Evolves
<1>11. ConditionsInv'
  <2> SUFFICES ASSUME NEW b \in Clusters, obj'[b].phase = "live"
               PROVE  Truthful(b, obj[b].conds)' /\ Truthful(b, cache[b].conds)'
    BY DEF ConditionsInv
  <2>1. Truthful(b, obj'[b].conds) /\ Truthful(b, cache[b].conds)
    BY <1>1 DEF IInv, ConditionsInv, Evolves
  <2> QED
    BY <1>2, <1>4, <1>6, <2>1, TruthfulStays DEF Truthful
<1>12. obj' \in [Clusters -> NetClusters]
  BY <1>1, <1>3 DEF Evolves, IInv, TypeOK
<1> QED
  BY <1>1, <1>4, <1>5, <1>6, <1>7, <1>8, <1>9, <1>10, <1>11, <1>12

\* A write is an interference the other workers stand.
LEMMA WriteLeavesAlone ==
  ASSUME IInv, NEW c \in Clusters, NEW n, ObjectWritten(c, n),
         ManagementReleased => ManagementReleased',
         NEW j \in Controllers, w'[j] = w[j], NEW b \in Clusters,
         j \in obj[b].fins => j \in obj'[b].fins
  PROVE  LeavesAlone(j, b)
<1>1. /\ ObjectsEvolve /\ TruthStays
      /\ OwnEntry(b)' = OwnEntry(b)
      /\ \A k \in AllControllers, a \in Clusters : Keeps(k, a)' = Keeps(k, a)
  BY ObjectWrite
<1>2. j \in AllControllers
  BY NetworkConstantsAssumption
<1>3. /\ gateway' = gateway /\ plist' = plist /\ entries' = entries
      /\ routes' = routes /\ shares' = shares
  BY DEF ObjectWritten, awsVars, mcVars, entryVars
<1> QED
  BY <1>1, <1>2, <1>3 DEF LeavesAlone, GatewayFound

\* The worker k makes the write.
LEMMA WorkerWrite ==
  ASSUME IInv, NEW c \in Clusters, NEW n, ObjectWritten(c, n), UNCHANGED boundVars,
         NEW k \in Controllers, Others(k),
         w' \in [Controllers -> Workers], queue' \in [Controllers -> SUBSET Clusters],
         \A j \in AllControllers : (j # k /\ j \in obj[c].fins) => j \in n.fins,
         w'[k].pc # "idle" => WorkerOK(k)',
         ManagementReleased => ManagementReleased'
  PROVE  IInv'
<1>1. /\ obj' \in [Clusters -> NetClusters]
      /\ \A b \in Clusters : obj'[b] = IF b = c THEN n ELSE obj[b]
      /\ VersionsInv' /\ GuardedInv' /\ ResourcesInv' /\ ConditionsInv'
  BY ObjectWrite
<1>2. TypeOK'
  BY <1>1 DEF IInv, TypeOK, ObjectWritten, awsVars, mcVars, entryVars, boundVars
<1>3. WorkerInv'
  <2> SUFFICES ASSUME NEW j \in Controllers, w'[j].pc # "idle" PROVE WorkerOK(j)'
    BY DEF WorkerInv
  <2>1. CASE j # k
    <3>1. w'[j] = w[j] /\ w[j].pc # "idle"
      BY <2>1 DEF Others
    <3>2. PICK b \in Clusters : b = Cl(j)
      BY <3>1 DEF IInv, WorkerInv, WorkerOK
    <3>3. j \in obj[b].fins => j \in obj'[b].fins
      BY <1>1, <2>1, NetworkConstantsAssumption
    <3>4. LeavesAlone(j, b)
      BY <3>1, <3>3, WriteLeavesAlone
    <3> QED
      BY <3>1, <3>2, <3>4, Undisturbed
  <2> QED
    BY <2>1
<1> QED
  BY <1>1, <1>2, <1>3 DEF IInv

\* Somebody else makes the write.
LEMMA ForeignWrite ==
  ASSUME IInv, NEW c \in Clusters, NEW n, ObjectWritten(c, n), UNCHANGED workVars,
         failures' = failures, edits' \in 0..MaxEdits,
         \A j \in AllControllers : j \in obj[c].fins => j \in n.fins
  PROVE  IInv'
<1>1. /\ obj' \in [Clusters -> NetClusters]
      /\ \A b \in Clusters : obj'[b] = IF b = c THEN n ELSE obj[b]
      /\ VersionsInv' /\ GuardedInv' /\ ResourcesInv' /\ ConditionsInv'
  BY ObjectWrite
<1>2. TypeOK'
  BY <1>1 DEF IInv, TypeOK, ObjectWritten, workVars, awsVars, mcVars, entryVars
<1>3. ManagementReleased => ManagementReleased'
  BY DEF ManagementReleased, workVars, ObjectWritten
<1>4. WorkerInv'
  <2> SUFFICES ASSUME NEW j \in Controllers, w'[j].pc # "idle" PROVE WorkerOK(j)'
    BY DEF WorkerInv
  <2>1. w'[j] = w[j] /\ w[j].pc # "idle"
    BY DEF workVars
  <2>2. PICK b \in Clusters : b = Cl(j)
    BY <2>1 DEF IInv, WorkerInv, WorkerOK
  <2>3. j \in obj[b].fins => j \in obj'[b].fins
    BY <1>1, NetworkConstantsAssumption
  <2>4. LeavesAlone(j, b)
    BY <1>3, <2>1, <2>3, WriteLeavesAlone
  <2> QED
    BY <2>1, <2>2, <2>4, Undisturbed
<1> QED
  BY <1>1, <1>2, <1>4 DEF IInv

-----------------------------------------------------------------------------
(* Writes of users and of other controllers.                               *)

LEMMA ObjectFacts ==
  ASSUME IInv, NEW c \in Clusters
  PROVE  /\ obj[c] \in NetClusters /\ cache[c] \in NetClusters
         /\ obj[c].rv \in Nat /\ cache[c].rv \in Nat
         /\ obj[c].phase \in {"live", "deleting", "gone"}
         /\ obj[c].phase = "gone" => obj[c].fins = {}
         /\ obj[c].phase = "live" => Truthful(c, obj[c].conds) /\ Truthful(c, cache[c].conds)
         /\ (c = MC \/ NoLoneList) => Paired(obj[c].arns) /\ Paired(cache[c].arns)
<1>1. obj[c] \in NetClusters /\ cache[c] \in NetClusters
  BY DEF IInv, TypeOK
<1> QED
  BY <1>1 DEF NetClusters, IInv, VersionsInv, ConditionsInv

LEMMA RequestDeletionInv ==
  ASSUME IInv, NEW c \in Clusters, RequestDeletion(c) PROVE IInv'
<1> DEFINE n == DeletionRequested(obj[c])
<1>1. /\ obj[c].phase = "live" /\ obj' = [obj EXCEPT ![c] = n]
      /\ c = MC => \A d \in Clusters \ {MC} : obj[d].phase = "gone"
      /\ UNCHANGED <<cache, workVars, awsVars, boundVars>>
  BY DEF RequestDeletion
<1>2. /\ n \in NetClusters /\ n.rv > obj[c].rv
      /\ n.phase = IF obj[c].fins = {} THEN "gone" ELSE "deleting"
      /\ n.fins = obj[c].fins /\ n.conds = obj[c].conds /\ n.network = obj[c].network
      /\ n.arns = obj[c].arns
  BY <1>1, NetDeletionRequested, ObjectFacts
<1> HIDE DEF n
<1>3. Evolves(c, obj[c], n)
  <2>1. n.rv \in Nat /\ obj[c].rv \in Nat
    BY <1>2, ObjectFacts DEF NetClusters
  <2> QED
    BY <1>1, <1>2, <2>1 DEF Evolves
<1>4. ObjectWritten(c, n)
  BY <1>1, <1>2, <1>3, ObjectFacts DEF ObjectWritten
<1>5. failures' = failures /\ edits' \in 0..MaxEdits
  BY <1>1 DEF boundVars, IInv, TypeOK
<1> QED
  BY <1>1, <1>2, <1>4, <1>5, ForeignWrite

\* A change of one field by somebody else.
LEMMA FieldWrite ==
  ASSUME IInv, NEW c \in Clusters, NEW n \in NetClusters, obj[c].phase # "gone",
         n.rv = obj[c].rv, n.phase = obj[c].phase, n.conds = obj[c].conds, n.arns = obj[c].arns,
         obj[c].network = "ready" => n.network = "ready",
         n.fins \subseteq obj[c].fins,
         \A j \in AllControllers : j \in obj[c].fins => j \in n.fins,
         obj' = [obj EXCEPT ![c] = Stored(obj[c], n)],
         UNCHANGED <<cache, workVars, awsVars>>, failures' = failures, edits' \in 0..MaxEdits
  PROVE  IInv'
<1> DEFINE m == Stored(obj[c], n)
<1>1. /\ m \in NetClusters
      /\ m.rv >= obj[c].rv /\ (m.rv = obj[c].rv => m = obj[c])
      /\ m.phase = "live" <=> obj[c].phase = "live"
      /\ m.phase = "gone" => n.fins = {}
      /\ m.fins = n.fins /\ m.conds = n.conds /\ m.network = n.network /\ m.arns = n.arns
  BY ObjectFacts, NetStored
<1> HIDE DEF m
<1>2. Evolves(c, obj[c], m)
  BY <1>1 DEF Evolves
<1>3. ObjectWritten(c, m)
  BY <1>1, <1>2, ObjectFacts DEF ObjectWritten, m
<1> QED
  BY <1>1, <1>3, ForeignWrite

LEMMA ReleaseOtherInv ==
  ASSUME IInv, NEW c \in Clusters, ReleaseOther(c) PROVE IInv'
<1> DEFINE n == [obj[c] EXCEPT !.fins = obj[c].fins \ OtherFinalizers]
<1>1. /\ obj[c].phase = "deleting" /\ obj' = [obj EXCEPT ![c] = Stored(obj[c], n)]
      /\ UNCHANGED <<cache, workVars, awsVars, boundVars>>
  BY DEF ReleaseOther, Write
<1>2. obj[c].fins \ OtherFinalizers \in SUBSET (OtherFinalizers \cup Controllers)
  BY ObjectFacts DEF NetClusters
<1>3. /\ n \in NetClusters /\ n.rv = obj[c].rv /\ n.phase = obj[c].phase
      /\ n.fins = obj[c].fins \ OtherFinalizers
      /\ n.conds = obj[c].conds /\ n.network = obj[c].network /\ n.arns = obj[c].arns
  <2>1. obj[c] \in NetClusters
    BY ObjectFacts
  <2> QED
    BY <1>2, <2>1 DEF NetClusters
<1> HIDE DEF n
<1>4. \A j \in AllControllers : j \in obj[c].fins => j \in n.fins
  BY <1>3, NetworkConstantsAssumption
<1>5. failures' = failures /\ edits' \in 0..MaxEdits
  BY <1>1 DEF boundVars, IInv, TypeOK
<1> QED
  BY <1>1, <1>3, <1>4, <1>5, FieldWrite

LEMMA EditInv ==
  ASSUME IInv, NEW c \in Clusters, Edit(c) PROVE IInv'
<1>1. /\ obj[c].phase # "gone" /\ failures' = failures /\ edits' \in 0..MaxEdits
      /\ UNCHANGED <<cache, workVars, awsVars>>
  BY NetworkConstantsAssumption DEF Edit, IInv, TypeOK
<1>2. CASE /\ obj[c].network # "ready"
           /\ Write(c, [obj[c] EXCEPT !.network = IF @ = "none" THEN "vpc" ELSE "ready"])
  <2> DEFINE x == IF obj[c].network = "none" THEN "vpc" ELSE "ready"
             n == [obj[c] EXCEPT !.network = x]
  <2>1. x \in {"none", "vpc", "ready"}
    OBVIOUS
  <2>2. obj' = [obj EXCEPT ![c] = Stored(obj[c], n)]
    BY <1>2 DEF Write
  <2> HIDE DEF x
  <2>3. /\ n \in NetClusters /\ n.rv = obj[c].rv /\ n.phase = obj[c].phase /\ n.fins = obj[c].fins
        /\ n.conds = obj[c].conds /\ n.arns = obj[c].arns
    <3>1. obj[c] \in NetClusters
      BY ObjectFacts
    <3> QED
      BY <2>1, <3>1 DEF NetClusters
  <2> HIDE DEF n
  <2> QED
    BY <1>1, <1>2, <2>2, <2>3, FieldWrite
<1>3. CASE Write(c, [obj[c] EXCEPT !.paused = ~@])
  <2> DEFINE x == ~obj[c].paused
             n == [obj[c] EXCEPT !.paused = x]
  <2>1. x \in BOOLEAN
    OBVIOUS
  <2>2. obj' = [obj EXCEPT ![c] = Stored(obj[c], n)]
    BY <1>3 DEF Write
  <2> HIDE DEF x
  <2>3. /\ n \in NetClusters /\ n.rv = obj[c].rv /\ n.phase = obj[c].phase /\ n.fins = obj[c].fins
        /\ n.conds = obj[c].conds /\ n.arns = obj[c].arns /\ n.network = obj[c].network
    <3>1. obj[c] \in NetClusters
      BY ObjectFacts
    <3> QED
      BY <2>1, <3>1 DEF NetClusters
  <2> HIDE DEF n
  <2> QED
    BY <1>1, <2>2, <2>3, FieldWrite
<1> QED
  BY <1>2, <1>3 DEF Edit

-----------------------------------------------------------------------------
(* The worker that makes a step.                                           *)

ManagementServes == {"addFinalizer", "gateway", "annotateGateway", "list", "annotateList"}

\* The end of the management cluster's network is not undone by a worker that
\* was not serving it.
LEMMA ReleasedStays ==
  ASSUME IInv, NEW k \in Controllers, Others(k), cache' = cache,
         \/ k # MCN \/ w'[k].pc \notin ManagementServes \/ w[k].pc \in ManagementServes
         \/ cache[MC].phase = "live"
  PROVE  ManagementReleased => ManagementReleased'
  BY DEF ManagementReleased, Others, ManagementServes

\* A worker that has only its status left to write.
LEMMA StatusOK ==
  ASSUME NEW k \in Controllers, NEW c \in Clusters, w'[k].pc = "status", w'[k].cl = c,
         NEW s, w'[k].copy.conds = s, obj'[c].phase = "live" => Truthful(c, s)',
         k = MCN => c = MC /\ w'[k].copy.arns \subseteq obj'[c].arns
  PROVE  WorkerOK(k)'
  BY DEF WorkerOK, Cl, Copy, Serving, Releasing, EntrySteps

\* A worker that has failed.
LEMMA ErrorOK ==
  ASSUME IInv, NEW k \in Controllers, w[k].pc # "idle", Error(k), ObjectsEvolve, TruthStays
  PROVE  /\ w' \in [Controllers -> Workers] /\ queue' \in [Controllers -> SUBSET Clusters]
         /\ Others(k)
         /\ w'[k].pc \in {"idle", "status"}
         /\ w'[k].pc # "idle" => WorkerOK(k)'
<1>1. PICK c \in Clusters : c = Cl(k)
  BY DEF IInv, WorkerInv, WorkerOK
<1>2. /\ w' \in [Controllers -> Workers] /\ queue' \in [Controllers -> SUBSET Clusters]
      /\ Others(k)
      /\ \/ w'[k] = Idle
         \/ w'[k].pc = "status" /\ w'[k].cl = w[k].cl /\ w'[k].copy = w[k].copy
  BY <1>1, ErrorFacts DEF IInv
<1>3. CASE w'[k] = Idle
  BY <1>2, <1>3, IdleType
<1>4. CASE w'[k].pc = "status" /\ w'[k].cl = w[k].cl /\ w'[k].copy = w[k].copy
  <2>1. PICK s : s = Copy(k).conds
    OBVIOUS
  <2>2. WorkerOK(k) /\ Evolves(c, obj[c], obj'[c])
    BY DEF IInv, WorkerInv, ObjectsEvolve
  <2>3. obj'[c].phase = "live" => Truthful(c, s)'
    <3> SUFFICES ASSUME obj'[c].phase = "live" PROVE Truthful(c, s)'
      OBVIOUS
    <3>1. Truthful(c, s)
      BY <1>1, <2>1, <2>2 DEF WorkerOK, Evolves
    <3> QED
      BY <3>1, TruthfulStays DEF Truthful
  <2>4. k = MCN => c = MC /\ w'[k].copy.arns \subseteq obj'[c].arns
    BY <1>1, <1>4, <2>2 DEF WorkerOK, Evolves, Copy
  <2>5. WorkerOK(k)'
    BY <1>1, <1>4, <2>1, <2>3, <2>4, StatusOK DEF Cl, Copy
  <2> QED
    BY <1>2, <1>4, <2>5
<1> QED
  BY <1>2, <1>3, <1>4

\* A step that leaves the objects alone.
LEMMA WorkerStep ==
  ASSUME IInv, NEW k \in Controllers, UNCHANGED objVars, TypeOK', Others(k),
         GuardedInv', ResourcesInv', TruthStays,
         \A j \in Controllers, b \in Clusters :
           (j # k /\ w'[j] = w[j] /\ w[j].pc # "idle" /\ b = Cl(j)) => LeavesAlone(j, b),
         w'[k].pc # "idle" => WorkerOK(k)'
  PROVE  IInv'
<1>1. obj' = obj /\ cache' = cache
  BY DEF objVars
<1>2. ObjectsEvolve
  BY <1>1, ObjectFacts, EvolvesRefl DEF ObjectsEvolve
<1>3. VersionsInv'
  BY <1>1 DEF IInv, VersionsInv
<1>4. ConditionsInv'
  <2> SUFFICES ASSUME NEW b \in Clusters, obj'[b].phase = "live"
               PROVE  Truthful(b, obj[b].conds)' /\ Truthful(b, cache[b].conds)'
    BY DEF ConditionsInv
  <2>1. Truthful(b, obj[b].conds) /\ Truthful(b, cache[b].conds)
    BY <1>1, ObjectFacts
  <2> QED
    BY <1>1, <1>2, <2>1, TruthfulStays DEF Truthful
<1>5. WorkerInv'
  <2> SUFFICES ASSUME NEW j \in Controllers, w'[j].pc # "idle" PROVE WorkerOK(j)'
    BY DEF WorkerInv
  <2>1. CASE j # k
    <3>1. w'[j] = w[j] /\ w[j].pc # "idle"
      BY <2>1 DEF Others
    <3>2. PICK b \in Clusters : b = Cl(j)
      BY <3>1 DEF IInv, WorkerInv, WorkerOK
    <3> QED
      BY <2>1, <3>1, <3>2, Undisturbed
  <2> QED
    BY <2>1
<1> QED
  BY <1>3, <1>4, <1>5 DEF IInv

\* A step of the worker alone.
LEMMA WorkerOnly ==
  ASSUME IInv, NEW k \in Controllers, UNCHANGED <<objVars, awsVars>>, Others(k),
         failures' \in 0..MaxFailures, edits' \in 0..MaxEdits,
         w' \in [Controllers -> Workers], queue' \in [Controllers -> SUBSET Clusters],
         \/ k # MCN \/ w'[k].pc \notin ManagementServes \/ w[k].pc \in ManagementServes
         \/ cache[MC].phase = "live",
         w'[k].pc # "idle" => WorkerOK(k)'
  PROVE  IInv'
<1>1. /\ obj' = obj /\ cache' = cache /\ gateway' = gateway /\ plist' = plist /\ att' = att
      /\ entries' = entries /\ version' = version /\ routes' = routes /\ shares' = shares
  BY DEF objVars, awsVars, mcVars, entryVars
<1>2. TypeOK'
  BY <1>1 DEF IInv, TypeOK
<1>3. \A b : OwnEntry(b)' = OwnEntry(b)
  BY <1>1 DEF OwnEntry, ListOf
<1>4. \A j \in AllControllers, b \in Clusters : Keeps(j, b)' = Keeps(j, b)
  BY <1>1, <1>3 DEF Keeps
<1>5. GuardedInv' /\ ResourcesInv'
  BY <1>1, <1>4 DEF IInv, GuardedInv, Covered, ResourcesInv
<1>6. TruthStays
  BY <1>1, <1>3 DEF TruthStays, GatewayFound
<1>7. ObjectsEvolve
  BY <1>1, ObjectFacts, EvolvesRefl DEF ObjectsEvolve
<1>8. ManagementReleased => ManagementReleased'
  BY <1>1, ReleasedStays
<1>9. ASSUME NEW j \in Controllers, NEW b \in Clusters, w'[j] = w[j] PROVE LeavesAlone(j, b)
  <2>1. j \in AllControllers
    BY NetworkConstantsAssumption
  <2> QED
    BY <1>1, <1>3, <1>4, <1>6, <1>7, <1>8, <1>9, <2>1 DEF LeavesAlone, GatewayFound
<1> QED
  BY <1>2, <1>5, <1>6, <1>9, WorkerStep

LEMMA FailInv ==
  ASSUME IInv, NEW k \in Controllers, Fail(k) PROVE IInv'
<1>1. /\ w[k].pc # "idle" /\ UNCHANGED <<objVars, awsVars>> /\ edits' = edits
      /\ failures' \in 0..MaxFailures /\ edits' \in 0..MaxEdits
  BY NetworkConstantsAssumption DEF Fail, IInv, TypeOK
<1>2. Cl(k) \in Clusters
  BY <1>1 DEF IInv, WorkerInv, WorkerOK
<1>3. ObjectsEvolve /\ TruthStays
  <2>1. obj' = obj /\ cache' = cache /\ gateway' = gateway /\ att' = att /\ entries' = entries
    BY <1>1 DEF objVars, awsVars, mcVars, entryVars
  <2>2. ObjectsEvolve
    BY <2>1, ObjectFacts, EvolvesRefl DEF ObjectsEvolve
  <2> QED
    BY <2>1, <2>2, ListsStay DEF TruthStays, GatewayFound
<1>4. CASE Error(k)
  <2>1. /\ w' \in [Controllers -> Workers] /\ queue' \in [Controllers -> SUBSET Clusters]
        /\ Others(k) /\ w'[k].pc \in {"idle", "status"}
        /\ w'[k].pc # "idle" => WorkerOK(k)'
    BY <1>1, <1>3, <1>4, ErrorOK
  <2> QED
    BY <1>1, <2>1, WorkerOnly DEF ManagementServes
<1>5. CASE Return(k) \/ Requeue(k)
  <2>1. /\ w' \in [Controllers -> Workers] /\ queue' \in [Controllers -> SUBSET Clusters]
        /\ Others(k) /\ w'[k].pc = "idle"
    BY <1>2, <1>5, ReturnFacts, RequeueFacts, IdleType DEF IInv, TypeOK
  <2> QED
    BY <1>1, <2>1, WorkerOnly DEF ManagementServes
<1> QED
  BY <1>4, <1>5 DEF Fail

-----------------------------------------------------------------------------
(* The calls all controllers make.                                         *)

\* What a worker may rely on when it makes a call.
LEMMA Caller ==
  ASSUME IInv, NEW k, NEW l, l # "idle", Call(k, l)
  PROVE  /\ k \in Controllers /\ k \in AllControllers /\ w[k].pc = l /\ w[k] \in Workers
         /\ WorkerOK(k) /\ Cl(k) \in Clusters /\ Copy(k) \in NetClusters
<1>1. k \in Controllers /\ w[k].pc = l /\ w[k] \in Workers
  BY DEF Call, IInv, TypeOK
<1> QED
  BY <1>1, NetworkConstantsAssumption DEF IInv, WorkerInv, WorkerOK, Copy, Workers

LEMMA DecodedFacts ==
  ASSUME NEW o \in NetClusters, NEW p \in NetClusters
  PROVE  LET d == Decoded(o, p)
         IN  /\ d \in NetClusters /\ d.conds \in {o.conds, p.conds}
             /\ d.phase = o.phase /\ d.arns = o.arns
<1> DEFINE x == IF o.conds = {} THEN p.conds ELSE o.conds
<1>1. x \in {o.conds, p.conds} /\ x \in SUBSET NetConditions
  BY DEF NetClusters, NetConditions
<1>2. Decoded(o, p) = [o EXCEPT !.conds = x]
  BY DEF Decoded
<1> HIDE DEF x
<1> QED
  BY <1>1, <1>2 DEF NetClusters, NetConditions

LEMMA UsedFacts ==
  ASSUME NEW p \in NetClusters
  PROVE  LET d == Used(p)
         IN  /\ d \in NetClusters /\ d.conds = {} /\ d.network = p.network
             /\ d.phase = "live" /\ d.arns = {}
<1>1. p.network \in {"none", "vpc", "ready"}
  BY DEF NetClusters
<1>2. Unread \in NetClusters /\ Unread.conds = {} /\ Unread.phase = "live" /\ Unread.arns = {}
  BY UnreadType DEF Unread
<1> QED
  BY <1>1, <1>2 DEF Used, NetClusters

\* Nothing but a worker moves.
LEMMA StillWorld ==
  ASSUME IInv, UNCHANGED <<objVars, awsVars>>
  PROVE  ObjectsEvolve /\ TruthStays
<1>1. obj' = obj /\ cache' = cache /\ gateway' = gateway /\ att' = att /\ entries' = entries
  BY DEF objVars, awsVars, mcVars, entryVars
<1>2. ObjectsEvolve
  BY <1>1, ObjectFacts, EvolvesRefl DEF ObjectsEvolve
<1> QED
  BY <1>1, <1>2, ListsStay DEF TruthStays, GatewayFound

LEMMA ErrorInv ==
  ASSUME IInv, NEW k \in Controllers, w[k].pc # "idle", Error(k),
         UNCHANGED <<objVars, awsVars, boundVars>>
  PROVE  IInv'
<1>1. ObjectsEvolve /\ TruthStays
  BY StillWorld
<1>2. /\ w' \in [Controllers -> Workers] /\ queue' \in [Controllers -> SUBSET Clusters]
      /\ Others(k) /\ w'[k].pc \in {"idle", "status"}
      /\ w'[k].pc # "idle" => WorkerOK(k)'
  BY <1>1, ErrorOK
<1>3. failures' \in 0..MaxFailures /\ edits' \in 0..MaxEdits
  BY DEF boundVars, IInv, TypeOK
<1> QED
  BY <1>2, <1>3, WorkerOnly DEF ManagementServes

\* A write that leaves the finalizers of these controllers as they are, or
\* adds one to a live object.
LEMMA StoredEvolves ==
  ASSUME IInv, NEW c \in Clusters, NEW n \in NetClusters, obj[c].phase # "gone",
         n.rv = obj[c].rv, n.phase = obj[c].phase,
         n.network = obj[c].network, obj[c].arns \subseteq n.arns, c # MC => n.arns = obj[c].arns,
         obj[c].phase # "live" => n.fins \subseteq obj[c].fins
  PROVE  Evolves(c, obj[c], Stored(obj[c], n))
<1>1. LET m == Stored(obj[c], n)
      IN  /\ m \in NetClusters
          /\ m.rv >= obj[c].rv /\ (m.rv = obj[c].rv => m = obj[c])
          /\ m.phase = "live" <=> obj[c].phase = "live"
          /\ m.phase = "gone" => n.fins = {} /\ obj[c].phase = "deleting"
          /\ m.fins = n.fins /\ m.conds = n.conds /\ m.network = n.network /\ m.arns = n.arns
  BY ObjectFacts, NetStored
<1> QED
  BY <1>1 DEF Evolves

LEMMA AfterFinalizerCases ==
  /\ AfterFinalizer(MCN) = "gateway" /\ AfterFinalizer(TGA) = "attach"
  /\ AfterFinalizer(PLE) = "lookup" /\ AfterFinalizer(RTC) = "addRoutes"
  /\ AfterFinalizer(SHR) = "shareTgw"
  /\ \A k \in AllControllers : AfterFinalizer(k) \in Steps
  BY DEF AfterFinalizer, MCN, TGA, PLE, RTC, SHR, FinalizerManagementCluster,
     FinalizerTransitGatewayAttachment, FinalizerPrefixListEntry, RouteFinalizer,
     FinalizerResourceShare, Steps

\* The finalizer is put on the version the worker has seen, which was live.
LEMMA AddFinalizerStored ==
  ASSUME IInv, NEW k \in Controllers, NEW c \in Clusters, obj[c].phase = "live"
  PROVE  LET o == AddFinalizer(obj[c], k)
         IN  /\ Evolves(c, obj[c], o) /\ o.phase = "live"
             /\ o.fins = obj[c].fins \cup {k}
             /\ o.conds = obj[c].conds /\ o.arns = obj[c].arns
<1> DEFINE n == [obj[c] EXCEPT !.fins = obj[c].fins \cup {k}]
<1>1. obj[c] \in NetClusters
  BY ObjectFacts
<1>2. /\ n \in NetClusters /\ n.rv = obj[c].rv /\ n.phase = obj[c].phase
      /\ n.fins = obj[c].fins \cup {k} /\ n.conds = obj[c].conds
      /\ n.network = obj[c].network /\ n.arns = obj[c].arns
  BY <1>1 DEF NetClusters
<1>3. AddFinalizer(obj[c], k) = Stored(obj[c], n)
  BY DEF AddFinalizer
<1> HIDE DEF n
<1>4. Evolves(c, obj[c], Stored(obj[c], n))
  BY <1>2, StoredEvolves
<1> QED
  BY <1>1, <1>2, <1>3, <1>4, NetStored

LEMMA AddFinalizerCallInv ==
  ASSUME IInv, NEW k, AddFinalizerCall(k) PROVE IInv'
<1>1. /\ k \in Controllers /\ k \in AllControllers /\ w[k].pc = "addFinalizer" /\ w[k] \in Workers
      /\ WorkerOK(k) /\ Copy(k) \in NetClusters
  BY Caller DEF AddFinalizerCall
<1>2. PICK c \in Clusters : c = Cl(k)
  BY <1>1 DEF WorkerOK
<1>3. UNCHANGED <<cache, awsVars, boundVars>>
  BY DEF AddFinalizerCall
<1>4. CASE k = "route" /\ k \in Copy(k).fins
  <2>1. Goto(k, AfterFinalizer(k)) /\ obj' = obj /\ AfterFinalizer(k) = "addRoutes"
    BY <1>4, AfterFinalizerCases, ControllerNames DEF AddFinalizerCall
  <2>2. /\ w' \in [Controllers -> Workers] /\ queue' = queue /\ Others(k)
        /\ w'[k].pc = "addRoutes" /\ w'[k].cl = w[k].cl /\ w'[k].copy = w[k].copy
    BY <1>1, <2>1, GotoFacts DEF IInv, Steps
  <2>3. ObjectsEvolve /\ TruthStays
    BY <1>3, <2>1, StillWorld DEF objVars
  <2>4. PICK p : p = Copy(k)
    OBVIOUS
  <2>5. obj'[c].phase = "live" => Truthful(c, p.conds)'
    BY <1>1, <1>2, <2>1, <2>3, <2>4, TruthfulStays DEF WorkerOK, Truthful
  <2>6. WorkerOK(k)'
    BY <1>1, <1>2, <1>3, <1>4, <2>1, <2>2, <2>4, <2>5, ControllerNames
       DEF WorkerOK, Cl, Copy, Serving, Releasing, EntrySteps
  <2>7. /\ failures' \in 0..MaxFailures /\ edits' \in 0..MaxEdits
        /\ queue' \in [Controllers -> SUBSET Clusters]
    BY <1>3, <2>2 DEF boundVars, IInv, TypeOK
  <2> QED
    BY <1>1, <1>3, <1>4, <2>1, <2>2, <2>6, <2>7, WorkerOnly, ControllerNames
       DEF objVars, ManagementServes
<1>5. CASE ~(k = "route" /\ k \in Copy(k).fins) /\ ~Unconflicted(obj[c], Copy(k))
  <2>1. Error(k) /\ obj' = obj
    BY <1>2, <1>5 DEF AddFinalizerCall
  <2> QED
    BY <1>1, <1>3, <2>1, ErrorInv DEF objVars
<1>6. CASE ~(k = "route" /\ k \in Copy(k).fins) /\ Unconflicted(obj[c], Copy(k))
  <2> DEFINE o == AddFinalizer(obj[c], k)
             p == IF k \in WritesStatus THEN Decoded(o, Copy(k)) ELSE Used(Copy(k))
  <2>1. obj[c].phase = "live"
    BY <1>1, <1>2, <1>6 DEF WorkerOK, Unconflicted
  <2>2. /\ Evolves(c, obj[c], o) /\ o.phase = "live" /\ o.fins = obj[c].fins \cup {k}
        /\ o.conds = obj[c].conds /\ o.arns = obj[c].arns
    BY <1>1, <2>1, AddFinalizerStored
  <2>3. /\ obj' = [obj EXCEPT ![c] = o]
        /\ w' = [w EXCEPT ![k].pc = AfterFinalizer(k), ![k].copy = p]
        /\ queue' = queue
    BY <1>1, <1>2, <1>6 DEF AddFinalizerCall, Copy, IInv, TypeOK
  <2>4. /\ p \in NetClusters /\ p.conds \in {o.conds, Copy(k).conds, {}} /\ p.phase = "live"
        /\ p.arns \subseteq o.arns
        /\ k \notin WritesStatus => p.network = Copy(k).network
    BY <1>1, <2>2, DecodedFacts, UsedFacts DEF Evolves
  <2> HIDE DEF o, p
  <2>5. /\ w'[k].pc = AfterFinalizer(k) /\ w'[k].cl = w[k].cl /\ w'[k].copy = p
        /\ Others(k) /\ w' \in [Controllers -> Workers]
    <3>1. [w[k] EXCEPT !.pc = AfterFinalizer(k), !.copy = p] \in Workers
      BY <1>1, <2>4, AfterFinalizerCases DEF Workers
    <3>2. w' = [w EXCEPT ![k] = [w[k] EXCEPT !.pc = AfterFinalizer(k), !.copy = p]]
      BY <1>1, <2>3 DEF IInv, TypeOK
    <3> QED
      BY <1>1, <3>1, <3>2 DEF IInv, TypeOK, Others, Workers
  <2>6. ObjectWritten(c, o)
    <3>1. (c = MC \/ NoLoneList) => Paired(o.arns)
      BY <2>2, ObjectFacts
    <3>2. o.phase = "live" => Truthful(c, o.conds)
      BY <2>1, <2>2, ObjectFacts
    <3> QED
      BY <1>3, <2>2, <2>3, <3>1, <3>2 DEF ObjectWritten
  <2>7. /\ obj'[c] = o /\ ObjectsEvolve /\ TruthStays
    BY <2>6, ObjectWrite
  <2>8. PICK s : s = p.conds
    OBVIOUS
  <2>9. Truthful(c, s)'
    <3>1. Truthful(c, s)
      <4>1. Truthful(c, {})
        BY DEF Truthful
      <4>2. Truthful(c, obj[c].conds) /\ Truthful(c, Copy(k).conds)
        BY <1>1, <1>2, <2>1, ObjectFacts DEF WorkerOK
      <4> QED
        BY <2>2, <2>4, <2>8, <4>1, <4>2
    <3> QED
      BY <2>2, <2>7, <3>1, TruthfulStays DEF Truthful
  <2>10. WorkerOK(k)'
    <3>1. w'[k].pc \in {"gateway", "attach", "lookup", "addRoutes", "shareTgw"}
      BY <1>1, <2>5, AfterFinalizerCases, ControllerNames
    <3>2. k = MCN => c = MC
      BY <1>1, <1>2 DEF WorkerOK
    <3>3. k = MCN => w'[k].pc = "gateway"
      BY <2>5, AfterFinalizerCases
    <3>4. k = PLE => w'[k].pc = "lookup"
      BY <2>5, AfterFinalizerCases
    <3>5. k = SHR => w'[k].pc = "shareTgw"
      BY <2>5, AfterFinalizerCases
    <3>6. k = RTC => /\ w'[k].pc = "addRoutes"
                     /\ p.network = "ready" => cache'[c].network = "ready"
      <4>1. RTC \notin WritesStatus
        BY DEF RTC, RouteFinalizer, WritesStatus, FinalizerManagementCluster,
           FinalizerTransitGatewayAttachment, FinalizerPrefixListEntry
      <4> QED
        BY <1>1, <1>2, <1>3, <2>4, <2>5, <4>1, AfterFinalizerCases DEF WorkerOK
    <3>7. Cl(k)' = c /\ Copy(k)' = p
      BY <1>2, <2>5 DEF Cl, Copy
    <3>8. ~Releasing(k)'
      BY <2>4, <3>1, <3>7 DEF Releasing, EntrySteps
    <3> QED
      BY <2>2, <2>4, <2>7, <2>8, <2>9, <3>1, <3>2, <3>3, <3>4, <3>5, <3>6, <3>7, <3>8
         DEF WorkerOK
  <2>11. ManagementReleased => ManagementReleased'
    BY <1>1, <1>3, <2>5, ReleasedStays DEF ManagementServes
  <2>12. queue' \in [Controllers -> SUBSET Clusters] /\ UNCHANGED boundVars
    BY <1>3, <2>3 DEF IInv, TypeOK
  <2> QED
    BY <1>1, <2>2, <2>5, <2>6, <2>10, <2>11, <2>12, WorkerWrite
<1> QED
  BY <1>4, <1>5, <1>6

LEMMA RemoveFinalizerStored ==
  ASSUME IInv, NEW k \in Controllers, NEW c \in Clusters, obj[c].phase = "deleting"
  PROVE  LET o == RemoveFinalizer(obj[c], k)
         IN  /\ Evolves(c, obj[c], o) /\ o.phase # "live"
             /\ o.fins = obj[c].fins \ {k} /\ o.arns = obj[c].arns
<1> DEFINE n == [obj[c] EXCEPT !.fins = obj[c].fins \ {k}]
<1>1. obj[c] \in NetClusters
  BY ObjectFacts
<1>2. /\ n \in NetClusters /\ n.rv = obj[c].rv /\ n.phase = obj[c].phase
      /\ n.fins = obj[c].fins \ {k} /\ n.conds = obj[c].conds
      /\ n.network = obj[c].network /\ n.arns = obj[c].arns
  BY <1>1 DEF NetClusters
<1>3. RemoveFinalizer(obj[c], k) = Stored(obj[c], n)
  BY DEF RemoveFinalizer
<1> HIDE DEF n
<1>4. Evolves(c, obj[c], Stored(obj[c], n))
  BY <1>2, StoredEvolves
<1> QED
  BY <1>1, <1>2, <1>3, <1>4, NetStored

LEMMA RemoveFinalizerCallInv ==
  ASSUME IInv, NEW k, RemoveFinalizerCall(k) PROVE IInv'
<1>1. /\ k \in Controllers /\ k \in AllControllers /\ w[k].pc = "removeFinalizer"
      /\ WorkerOK(k)
  BY Caller DEF RemoveFinalizerCall
<1>2. PICK c \in Clusters : c = Cl(k)
  BY <1>1 DEF WorkerOK
<1>3. UNCHANGED <<cache, awsVars, boundVars>>
  BY DEF RemoveFinalizerCall
<1>4. CASE ~Unconflicted(obj[c], Copy(k))
  <2>1. Error(k) /\ obj' = obj
    BY <1>2, <1>4 DEF RemoveFinalizerCall
  <2> QED
    BY <1>1, <1>3, <2>1, ErrorInv DEF objVars
<1>5. CASE Unconflicted(obj[c], Copy(k))
  <2> DEFINE o == RemoveFinalizer(obj[c], k)
  <2>1. cache[c].phase # "live" /\ ~Keeps(k, c)
    BY <1>1, <1>2 DEF WorkerOK, Releasing
  <2>2. obj[c].phase = "deleting"
    BY <1>5, <2>1, ObjectFacts DEF IInv, VersionsInv, Unconflicted
  <2>3. /\ Evolves(c, obj[c], o) /\ o.phase # "live"
        /\ o.fins = obj[c].fins \ {k} /\ o.arns = obj[c].arns
    BY <1>1, <2>2, RemoveFinalizerStored
  <2>4. obj' = [obj EXCEPT ![c] = o] /\ Return(k)
    BY <1>2, <1>5 DEF RemoveFinalizerCall
  <2> HIDE DEF o
  <2>5. ObjectWritten(c, o)
    BY <1>3, <2>1, <2>2, <2>3, <2>4, ObjectFacts DEF ObjectWritten
  <2>6. w' \in [Controllers -> Workers] /\ queue' = queue /\ Others(k) /\ w'[k].pc = "idle"
    BY <1>1, <2>4, ReturnFacts, IdleType DEF IInv
  <2>7. ManagementReleased => ManagementReleased'
    BY <1>1, <1>3, <2>6, ReleasedStays DEF ManagementServes
  <2>8. queue' \in [Controllers -> SUBSET Clusters]
    BY <2>6 DEF IInv, TypeOK
  <2> QED
    BY <1>1, <1>3, <2>3, <2>5, <2>6, <2>7, <2>8, WorkerWrite
<1> QED
  BY <1>4, <1>5

LEMMA UpdateStatusInv ==
  ASSUME IInv, NEW k, UpdateStatus(k) PROVE IInv'
<1>1. /\ k \in Controllers /\ k \in AllControllers /\ w[k].pc = "status"
      /\ WorkerOK(k) /\ Copy(k) \in NetClusters
  BY Caller DEF UpdateStatus
<1>2. PICK c \in Clusters : c = Cl(k)
  BY <1>1 DEF WorkerOK
<1> DEFINE n == [obj[c] EXCEPT !.conds = Copy(k).conds]
           o == IF Unconflicted(obj[c], Copy(k)) THEN Stored(obj[c], n) ELSE obj[c]
<1>3. obj' = [obj EXCEPT ![c] = o] /\ UNCHANGED <<cache, awsVars, boundVars>>
  BY <1>2 DEF UpdateStatus
<1>4. obj[c] \in NetClusters
  BY ObjectFacts
<1>5. /\ n \in NetClusters /\ n.rv = obj[c].rv /\ n.phase = obj[c].phase
      /\ n.fins = obj[c].fins /\ n.conds = Copy(k).conds
      /\ n.network = obj[c].network /\ n.arns = obj[c].arns
  BY <1>1, <1>4 DEF NetClusters
<1> HIDE DEF n
<1>6. /\ Evolves(c, obj[c], o)
      /\ o.phase = "live" <=> obj[c].phase = "live"
      /\ o.fins = obj[c].fins /\ o.conds \in {obj[c].conds, Copy(k).conds} /\ o.arns = obj[c].arns
  <2>1. CASE Unconflicted(obj[c], Copy(k))
    <3>1. obj[c].phase # "gone" /\ o = Stored(obj[c], n)
      BY <2>1 DEF Unconflicted
    <3>2. Evolves(c, obj[c], Stored(obj[c], n))
      BY <1>5, <3>1, StoredEvolves
    <3> QED
      BY <1>4, <1>5, <3>1, <3>2, NetStored
  <2>2. CASE ~Unconflicted(obj[c], Copy(k))
    BY <1>4, <2>2, ObjectFacts, EvolvesRefl
  <2> QED
    BY <2>1, <2>2
<1> HIDE DEF o
<1>7. ObjectWritten(c, o)
  <2>1. o.phase = "live" => Truthful(c, o.conds)
    BY <1>1, <1>2, <1>6, ObjectFacts DEF WorkerOK
  <2> QED
    BY <1>3, <1>6, <2>1, ObjectFacts DEF ObjectWritten
<1>8. /\ w' \in [Controllers -> Workers] /\ queue' \in [Controllers -> SUBSET Clusters]
      /\ Others(k) /\ w'[k].pc = "idle"
  BY <1>1, <1>2, ReturnFacts, RequeueFacts, IdleType DEF UpdateStatus, IInv, TypeOK
<1>9. ManagementReleased => ManagementReleased'
  BY <1>1, <1>3, <1>8, ReleasedStays DEF ManagementServes
<1> QED
  BY <1>1, <1>3, <1>6, <1>7, <1>8, <1>9, WorkerWrite

LEMMA AnnotatedFacts ==
  ASSUME NEW o \in NetClusters, NEW p \in NetClusters
  PROVE  LET d == Annotated(o, p)
         IN  /\ d \in NetClusters
             /\ d.conds \in {o.conds \cup {TransitGatewayCreated}, p.conds \cup {TransitGatewayCreated}}
             /\ d.phase = o.phase /\ d.arns = o.arns
<1>1. PICK d : d = Decoded(o, p)
  OBVIOUS
<1>2. d \in NetClusters /\ d.conds \in {o.conds, p.conds} /\ d.phase = o.phase /\ d.arns = o.arns
  BY <1>1, DecodedFacts
<1>3. Annotated(o, p) = [d EXCEPT !.conds = d.conds \cup {TransitGatewayCreated}]
  BY <1>1 DEF Annotated
<1> QED
  BY <1>2, <1>3 DEF NetClusters

\* The object after the patch of one annotation, where the copy has those of a.
Patched(o, arn, a) ==
  IF arn \in a THEN o ELSE Stored(o, [o EXCEPT !.arns = @ \cup {arn}])

LEMMA AnnotationStored ==
  ASSUME IInv, NEW arn \in Arns, MC \in Clusters, obj[MC].phase # "gone",
         NEW a, a \subseteq obj[MC].arns,
         NEW o, o = Patched(obj[MC], arn, a)
  PROVE  /\ Evolves(MC, obj[MC], o)
         /\ o.phase = "live" <=> obj[MC].phase = "live"
         /\ o.fins = obj[MC].fins /\ o.conds = obj[MC].conds /\ o.arns = obj[MC].arns \cup {arn}
<1>1. obj[MC] \in NetClusters /\ (obj[MC].phase = "gone" => obj[MC].fins = {})
  BY ObjectFacts
<1>2. CASE arn \in a
  <2>1. o = obj[MC] /\ obj[MC].arns \cup {arn} = obj[MC].arns
    BY <1>2 DEF Patched
  <2> QED
    BY <1>1, <2>1, EvolvesRefl
<1>3. CASE arn \notin a
  <2> DEFINE n == [obj[MC] EXCEPT !.arns = obj[MC].arns \cup {arn}]
  <2>1. /\ n \in NetClusters /\ n.rv = obj[MC].rv /\ n.phase = obj[MC].phase
        /\ n.fins = obj[MC].fins /\ n.conds = obj[MC].conds
        /\ n.network = obj[MC].network /\ n.arns = obj[MC].arns \cup {arn}
    BY <1>1 DEF NetClusters
  <2>2. o = Stored(obj[MC], n)
    BY <1>3 DEF Patched
  <2> HIDE DEF n
  <2>3. Evolves(MC, obj[MC], Stored(obj[MC], n))
    BY <2>1, StoredEvolves
  <2>4. LET m == Stored(obj[MC], n)
        IN  /\ m.phase = "live" <=> obj[MC].phase = "live"
            /\ m.fins = n.fins /\ m.conds = n.conds /\ m.arns = n.arns
    BY <1>1, <2>1, NetStored
  <2> QED
    BY <2>1, <2>2, <2>3, <2>4
<1> QED
  BY <1>2, <1>3

LEMMA AnnotateInv ==
  ASSUME IInv, NEW l \in {"annotateGateway", "annotateList"}, Call(MCN, l),
         NEW arn, NEW next,
         IF l = "annotateGateway" THEN arn = "tgw" /\ next = "list" ELSE arn = "pl" /\ next = "status",
         Annotate(arn, next), UNCHANGED <<cache, awsVars, boundVars>>
  PROVE  IInv'
<1>1. /\ MCN \in Controllers /\ MCN \in AllControllers /\ w[MCN].pc = l /\ w[MCN] \in Workers
      /\ WorkerOK(MCN) /\ Cl(MCN) \in Clusters /\ Copy(MCN) \in NetClusters
  BY Caller
<1>2. /\ Cl(MCN) = MC /\ MC \in Clusters /\ Copy(MCN).arns \subseteq obj[MC].arns /\ GatewayFound
      /\ MCN \in obj[MC].fins
      /\ l = "annotateList" => "tgw" \in obj[MC].arns
      /\ obj[MC].phase = "live" => Truthful(MC, Copy(MCN).conds)
  BY <1>1, ControllerNames DEF WorkerOK, Serving, Covered
<1>3. CASE obj[MC].phase = "gone"
  <2>1. Error(MCN) /\ obj' = obj
    BY <1>2, <1>3 DEF Annotate
  <2> QED
    BY <1>1, <2>1, ErrorInv DEF objVars
<1>4. CASE obj[MC].phase # "gone"
  <2> DEFINE o == Patched(obj[MC], arn, Copy(MCN).arns)
             p == Annotated(o, Copy(MCN))
  <2>1. /\ obj' = [obj EXCEPT ![MC] = o]
        /\ w' = [w EXCEPT ![MCN].pc = next, ![MCN].copy = p]
        /\ queue' = queue
    BY <1>1, <1>2, <1>4 DEF Annotate, Patched, Copy, IInv, TypeOK
  <2>2. /\ Evolves(MC, obj[MC], o)
        /\ o.phase = "live" <=> obj[MC].phase = "live"
        /\ o.fins = obj[MC].fins /\ o.conds = obj[MC].conds /\ o.arns = obj[MC].arns \cup {arn}
    BY <1>2, <1>4, AnnotationStored
  <2> HIDE DEF o
  <2>3. o \in NetClusters
    BY <2>2 DEF Evolves
  <2>4. /\ p \in NetClusters
        /\ p.conds \in {o.conds \cup {TransitGatewayCreated}, Copy(MCN).conds \cup {TransitGatewayCreated}}
        /\ p.phase = o.phase /\ p.arns = o.arns
    BY <1>1, <2>3, AnnotatedFacts
  <2> HIDE DEF p
  <2>5. /\ w'[MCN].pc = next /\ w'[MCN].cl = MC /\ w'[MCN].copy = p
        /\ Others(MCN) /\ w' \in [Controllers -> Workers]
    <3>1. [w[MCN] EXCEPT !.pc = next, !.copy = p] \in Workers
      BY <1>1, <2>4 DEF Workers, Steps
    <3>2. w' = [w EXCEPT ![MCN] = [w[MCN] EXCEPT !.pc = next, !.copy = p]]
      BY <1>1, <2>1 DEF IInv, TypeOK
    <3>3. w[MCN].cl = MC
      BY <1>2 DEF Cl
    <3> QED
      BY <1>1, <3>1, <3>2, <3>3 DEF IInv, TypeOK, Others, Workers
  <2>6. "tgw" \in o.arns
    BY <1>2, <2>2
  <2>7. ObjectWritten(MC, o)
    <3>1. o.phase = "live" => Truthful(MC, o.conds)
      BY <1>2, <2>2, ObjectFacts
    <3> QED
      BY <2>1, <2>2, <2>6, <3>1, ObjectFacts DEF ObjectWritten, Paired
  <2>8. obj'[MC] = o /\ ObjectsEvolve /\ TruthStays
    BY <1>2, <2>7, ObjectWrite
  <2>9. PICK s : s = p.conds
    OBVIOUS
  <2>10. o.phase = "live" => Truthful(MC, s)'
    <3> SUFFICES ASSUME o.phase = "live" PROVE Truthful(MC, s)'
      OBVIOUS
    <3>1. PICK q \in {o.conds, Copy(MCN).conds} : s = q \cup {TransitGatewayCreated}
      BY <2>4, <2>9
    <3>2. Truthful(MC, q)
      BY <1>2, <2>2, <3>1, ObjectFacts
    <3>3. /\ TransitGatewayAttached \in q => att'[MC] = "available"
          /\ PrefixListEntriesReady \in q => OwnEntry(MC)' \in entries'
      BY <1>2, <2>8, <3>2, TruthfulStays
    <3>4. gateway' \in {"pending", "available"} /\ "tgw" \in obj'[MC].arns
      BY <1>2, <2>6, <2>8 DEF GatewayFound, awsVars, mcVars
    <3> QED
      BY <3>1, <3>3, <3>4 DEF Truthful, TransitGatewayAttached, PrefixListEntriesReady,
         TransitGatewayCreated
  <2>11. WorkerOK(MCN)'
    <3>1. Cl(MCN)' = MC /\ Copy(MCN)' = p /\ w'[MCN].pc = next /\ next \in {"list", "status"}
      BY <2>5 DEF Cl, Copy
    <3>2. ~Releasing(MCN)'
      BY <3>1 DEF Releasing, EntrySteps
    <3>3. GatewayFound'
      BY <1>2 DEF GatewayFound, awsVars, mcVars
    <3> QED
      BY <1>2, <2>2, <2>4, <2>6, <2>8, <2>9, <2>10, <3>1, <3>2, <3>3, ControllerNames
         DEF WorkerOK
  <2>12. ManagementReleased => ManagementReleased'
    BY <1>1, <2>5, ReleasedStays DEF ManagementServes
  <2>13. queue' \in [Controllers -> SUBSET Clusters]
    BY <2>1 DEF IInv, TypeOK
  <2> QED
    BY <1>1, <1>2, <2>2, <2>5, <2>7, <2>11, <2>12, <2>13, WorkerWrite
<1> QED
  BY <1>3, <1>4

LEMMA AnnotateGatewayInv ==
  ASSUME IInv, AnnotateGateway PROVE IInv'
  BY AnnotateInv DEF AnnotateGateway

LEMMA AnnotateListInv ==
  ASSUME IInv, AnnotateList PROVE IInv'
  BY AnnotateInv DEF AnnotateList

-----------------------------------------------------------------------------
(* The surroundings: EC2, other writers, the informer and restarts.        *)

\* A step in AWS that no controller can tell.
LEMMA EnvStep ==
  ASSUME IInv, UNCHANGED <<objVars, workVars>>, TypeOK', ResourcesInv',
         GatewayFound' = GatewayFound, plist' = plist, routes' = routes, shares' = shares,
         \A b \in Clusters : att'[b] = "available" <=> att[b] = "available",
         \A b \in Clusters : OwnEntry(b) \in entries' <=> OwnEntry(b) \in entries
  PROVE  IInv'
<1>1. obj' = obj /\ cache' = cache /\ w' = w /\ queue' = queue
  BY DEF objVars, workVars
<1>2. ObjectsEvolve
  BY <1>1, ObjectFacts, EvolvesRefl DEF ObjectsEvolve
<1>3. \A b \in Clusters : OwnEntry(b)' = OwnEntry(b)
  BY <1>2, ListsStay
<1>4. TruthStays
  BY <1>3 DEF TruthStays
<1>5. ASSUME NEW j \in AllControllers, NEW b \in Clusters PROVE Keeps(j, b)' <=> Keeps(j, b)
  <2>1. gateway' \in {"pending", "available"} <=> gateway \in {"pending", "available"}
    BY DEF GatewayFound
  <2>2. att'[b] = "available" <=> att[b] = "available"
    OBVIOUS
  <2>3. OwnEntry(b)' \in entries' <=> OwnEntry(b) \in entries
    BY <1>3
  <2> QED
    BY <2>1, <2>2, <2>3, ControllerNames DEF Keeps
<1>6. GuardedInv'
  BY <1>1, <1>5 DEF IInv, GuardedInv, Covered
<1>7. VersionsInv'
  BY <1>1 DEF IInv, VersionsInv
<1>8. ConditionsInv'
  <2> SUFFICES ASSUME NEW b \in Clusters, obj'[b].phase = "live"
               PROVE  Truthful(b, obj[b].conds)' /\ Truthful(b, cache[b].conds)'
    BY DEF ConditionsInv
  <2>1. Truthful(b, obj[b].conds) /\ Truthful(b, cache[b].conds)
    BY <1>1, ObjectFacts
  <2> QED
    BY <1>1, <1>2, <1>4, <2>1, TruthfulStays DEF Truthful
<1>9. WorkerInv'
  <2> SUFFICES ASSUME NEW j \in Controllers, w'[j].pc # "idle" PROVE WorkerOK(j)'
    BY DEF WorkerInv
  <2>1. PICK b \in Clusters : b = Cl(j)
    BY <1>1 DEF IInv, WorkerInv, WorkerOK
  <2>2. j \in AllControllers
    BY NetworkConstantsAssumption
  <2>3. ManagementReleased' <=> ManagementReleased
    BY <1>1 DEF ManagementReleased
  <2>4. LeavesAlone(j, b)
    BY <1>1, <1>2, <1>3, <1>4, <1>5, <2>2, <2>3 DEF LeavesAlone
  <2> QED
    BY <1>1, <2>1, <2>4, Undisturbed
<1> QED
  BY <1>6, <1>7, <1>8, <1>9 DEF IInv

LEMMA GatewayReadyInv ==
  ASSUME IInv, GatewayReady PROVE IInv'
<1>1. /\ gateway = "pending" /\ gateway' = "available" /\ UNCHANGED <<objVars, workVars>>
      /\ obj' = obj /\ cache' = cache /\ w' = w /\ queue' = queue /\ plist' = plist
      /\ att' = att /\ entries' = entries /\ version' = version /\ routes' = routes
      /\ shares' = shares /\ failures' = failures /\ edits' = edits
  BY DEF GatewayReady, objVars, workVars, entryVars, boundVars
<1>2. TypeOK' /\ ResourcesInv'
  BY <1>1 DEF IInv, TypeOK, ResourcesInv
<1>3. GatewayFound' = GatewayFound
  BY <1>1 DEF GatewayFound
<1> QED
  BY <1>1, <1>2, <1>3, EnvStep

LEMMA AttachmentFadesInv ==
  ASSUME IInv, NEW c \in Clusters, AttachmentFades(c) PROVE IInv'
<1>1. /\ UNCHANGED <<objVars, workVars>>
      /\ obj' = obj /\ cache' = cache /\ w' = w /\ queue' = queue /\ plist' = plist
      /\ gateway' = gateway /\ entries' = entries /\ version' = version /\ routes' = routes
      /\ shares' = shares /\ failures' = failures /\ edits' = edits
  BY DEF AttachmentFades, objVars, workVars, mcVars, entryVars, boundVars
<1>2. PICK x \in {"deleted", "none"} : att' = [att EXCEPT ![c] = x]
  BY DEF AttachmentFades
<1>3. att[c] \in {"deleting", "deleted"}
  BY DEF AttachmentFades
<1>4. \A b \in Clusters : att'[b] = IF b = c THEN x ELSE att[b]
  BY <1>2 DEF IInv, TypeOK
<1>5. TypeOK' /\ ResourcesInv'
  BY <1>1, <1>2, <1>3, <1>4 DEF IInv, TypeOK, ResourcesInv
<1>6. GatewayFound' = GatewayFound
  BY <1>1 DEF GatewayFound
<1> QED
  BY <1>1, <1>3, <1>4, <1>5, <1>6, EnvStep

LEMMA OthersModifyInv ==
  ASSUME IInv, OthersModify PROVE IInv'
<1>1. /\ UNCHANGED <<objVars, workVars>>
      /\ obj' = obj /\ cache' = cache /\ w' = w /\ queue' = queue /\ plist' = plist
      /\ gateway' = gateway /\ att' = att /\ routes' = routes
      /\ shares' = shares /\ failures' = failures /\ edits' \in 0..MaxEdits
  BY NetworkConstantsAssumption
     DEF OthersModify, objVars, workVars, mcVars, boundVars, IInv, TypeOK
<1>2. version' \in [Lists -> Nat]
  BY DEF OthersModify, IInv, TypeOK, Lists
<1>3. PICK r \in Cidrs :
        LET e == [list |-> MC, cidr |-> r, by |-> Other]
        IN \/ Addable(MC, r, version[MC]) /\ entries' = entries \cup {e}
           \/ e \in entries /\ entries' = entries \ {e}
  BY DEF OthersModify
<1>4. PICK e : e = [list |-> MC, cidr |-> r, by |-> Other]
  OBVIOUS
<1>5. /\ e \in Entries /\ e.list = MC /\ e.cidr = r /\ e.by = Other
  BY <1>4 DEF Entries, Lists
<1>6. \A b \in Clusters : OwnEntry(b) # e
  BY <1>5, NetworkConstantsAssumption DEF OwnEntry
<1>7. \A b \in Clusters : OwnEntry(b) \in entries' <=> OwnEntry(b) \in entries
  BY <1>3, <1>4, <1>6
<1>8. /\ entries' \subseteq entries \cup {e}
      /\ (e \in entries' /\ e \notin entries) => plist /\ \A f \in entries : f.list = MC => f.cidr # r
  BY <1>3, <1>4 DEF Addable, ListExists
<1>9. TypeOK'
  BY <1>1, <1>2, <1>5, <1>8 DEF IInv, TypeOK
<1>10. ResourcesInv'
  BY <1>1, <1>5, <1>8 DEF IInv, ResourcesInv
<1>11. GatewayFound' = GatewayFound
  BY <1>1 DEF GatewayFound
<1> QED
  BY <1>1, <1>7, <1>9, <1>10, <1>11, EnvStep

LEMMA ObserveInv ==
  ASSUME IInv, NEW c \in Clusters, Observe(c) PROVE IInv'
<1>1. /\ obj' = obj /\ w' = w /\ gateway' = gateway /\ plist' = plist /\ att' = att
      /\ entries' = entries /\ version' = version /\ routes' = routes /\ shares' = shares
      /\ failures' = failures /\ edits' = edits
  BY DEF Observe, awsVars, mcVars, entryVars, boundVars
<1>2. cache' = [cache EXCEPT ![c] = obj[c]]
  BY DEF Observe
<1>3. \A b \in Clusters : cache'[b] = IF b = c THEN obj[b] ELSE cache[b]
  BY <1>2 DEF IInv, TypeOK
<1>4. queue' \in [Controllers -> SUBSET Clusters]
  BY DEF Observe, IInv, TypeOK
<1>5. TypeOK'
  BY <1>1, <1>2, <1>4 DEF IInv, TypeOK
<1>6. VersionsInv'
  <2>1. \A b \in Clusters : obj[b].rv \in Nat
    BY ObjectFacts
  <2> QED
    BY <1>1, <1>3, <2>1 DEF IInv, VersionsInv
<1>7. ObjectsEvolve
  BY <1>1, <1>3, ObjectFacts, EvolvesRefl DEF ObjectsEvolve
<1>8. \A b \in Clusters : OwnEntry(b)' = OwnEntry(b)
  BY <1>7, ListsStay
<1>9. TruthStays
  BY <1>1, <1>8 DEF TruthStays, GatewayFound
<1>10. ASSUME NEW j \in AllControllers, NEW b \in Clusters PROVE Keeps(j, b)' <=> Keeps(j, b)
  BY <1>1, <1>8 DEF Keeps
<1>11. GuardedInv'
  BY <1>1, <1>10 DEF IInv, GuardedInv, Covered
<1>12. ResourcesInv'
  BY <1>1, <1>3 DEF IInv, ResourcesInv, VersionsInv
<1>13. ConditionsInv'
  <2> SUFFICES ASSUME NEW b \in Clusters, obj'[b].phase = "live"
               PROVE  Truthful(b, obj[b].conds)' /\ Truthful(b, cache[b].conds)'
    BY DEF ConditionsInv
  <2>1. Truthful(b, obj[b].conds) /\ Truthful(b, cache'[b].conds)
    BY <1>1, <1>3, ObjectFacts
  <2> QED
    BY <1>1, <1>7, <1>9, <2>1, TruthfulStays DEF Truthful
<1>14. ManagementReleased => ManagementReleased'
  BY <1>1, <1>3 DEF ManagementReleased, IInv, VersionsInv
<1>15. WorkerInv'
  <2> SUFFICES ASSUME NEW j \in Controllers, w'[j].pc # "idle" PROVE WorkerOK(j)'
    BY DEF WorkerInv
  <2>1. PICK b \in Clusters : b = Cl(j)
    BY <1>1 DEF IInv, WorkerInv, WorkerOK
  <2>2. j \in AllControllers
    BY NetworkConstantsAssumption
  <2>3. LeavesAlone(j, b)
    BY <1>1, <1>7, <1>8, <1>9, <1>10, <1>14, <2>2 DEF LeavesAlone, GatewayFound
  <2> QED
    BY <1>1, <2>1, <2>3, Undisturbed
<1> QED
  BY <1>5, <1>6, <1>11, <1>12, <1>13, <1>15 DEF IInv

LEMMA RestartInv ==
  ASSUME IInv, Restart PROVE IInv'
<1>1. /\ obj' = obj /\ cache' = obj /\ gateway' = gateway /\ plist' = plist /\ att' = att
      /\ entries' = entries /\ version' = version /\ routes' = routes /\ shares' = shares
      /\ failures' \in 0..MaxFailures /\ edits' = edits
      /\ w' = [k \in Controllers |-> Idle] /\ queue' = [k \in Controllers |-> Clusters]
  BY NetworkConstantsAssumption DEF Restart, awsVars, mcVars, entryVars, IInv, TypeOK
<1>2. TypeOK'
  BY <1>1, IdleType DEF IInv, TypeOK
<1>3. WorkerInv'
  BY <1>1, IdleType DEF WorkerInv
<1>4. VersionsInv'
  <2>1. \A b \in Clusters : obj[b].rv \in Nat
    BY ObjectFacts
  <2> QED
    BY <1>1, <2>1 DEF IInv, VersionsInv
<1>5. \A b \in Clusters : OwnEntry(b)' = OwnEntry(b)
  BY <1>1 DEF OwnEntry, ListOf
<1>6. ASSUME NEW j \in AllControllers, NEW b \in Clusters PROVE Keeps(j, b)' <=> Keeps(j, b)
  BY <1>1, <1>5 DEF Keeps
<1>7. GuardedInv'
  BY <1>1, <1>6 DEF IInv, GuardedInv, Covered
<1>8. ResourcesInv'
  BY <1>1 DEF IInv, ResourcesInv, VersionsInv
<1>9. ConditionsInv'
  <2> SUFFICES ASSUME NEW b \in Clusters, obj[b].phase = "live" PROVE Truthful(b, obj[b].conds)'
    BY <1>1 DEF ConditionsInv, Truthful
  <2>1. Truthful(b, obj[b].conds)
    BY ObjectFacts
  <2> QED
    BY <1>1, <1>5, <2>1 DEF Truthful
<1> QED
  BY <1>2, <1>3, <1>4, <1>7, <1>8, <1>9 DEF IInv

-----------------------------------------------------------------------------
(* The beginning of a reconciliation.                                      *)

\* The worker k begins on c with the call l and the copy p of what it found in
\* the cache, the condition that the work has started added or not.
LEMMA BegunInv ==
  ASSUME IInv, NEW k \in Controllers, NEW c \in Clusters, UNCHANGED <<objVars, awsVars, boundVars>>,
         Others(k), w' \in [Controllers -> Workers], queue' \in [Controllers -> SUBSET Clusters],
         NEW l, w'[k].pc = l, w'[k].cl = c, NEW p, w'[k].copy = p,
         p.phase = cache[c].phase, p.rv = cache[c].rv, p.fins = cache[c].fins,
         p.arns = cache[c].arns, p.network = cache[c].network,
         p.conds \in {cache[c].conds, cache[c].conds \cup {InProgress}},
         k = MCN => c = MC,
         \/ l = "addFinalizer" /\ cache[c].phase = "live"
         \/ /\ l \in {"detach", "lookup", "removeRoutes", "deleteGateway"}
            /\ cache[c].phase = "deleting"
         \/ /\ l = "unshareTgw" /\ cache[c].phase = "deleting" /\ ~ResourcesStillInUse(cache[c])
         \/ l = "sharePl" /\ k = SHR /\ ~NoLoneList
         \/ l = "status"
  PROVE  IInv'
<1>1. /\ obj' = obj /\ cache' = cache /\ gateway' = gateway /\ plist' = plist /\ att' = att
      /\ entries' = entries /\ routes' = routes /\ shares' = shares
      /\ failures' = failures /\ edits' = edits
  BY DEF objVars, awsVars, mcVars, entryVars, boundVars
<1>2. ObjectsEvolve /\ TruthStays
  BY StillWorld
<1>3. Cl(k)' = c /\ Copy(k)' = p
  BY DEF Cl, Copy
<1>4. PICK s : s = p.conds
  OBVIOUS
<1>5. obj'[c].phase = "live" => Truthful(c, s)'
  <2> SUFFICES ASSUME obj'[c].phase = "live" PROVE Truthful(c, s)'
    OBVIOUS
  <2>1. Truthful(c, cache[c].conds)
    BY <1>1, ObjectFacts
  <2>2. Truthful(c, s)
    BY <1>4, <2>1 DEF Truthful, TransitGatewayAttached, PrefixListEntriesReady,
       TransitGatewayCreated, InProgress
  <2> QED
    BY <1>2, <2>2, TruthfulStays DEF Truthful
<1>6. l = "addFinalizer" =>
        /\ p.phase = "live" /\ p.rv <= obj'[c].rv
        /\ p.rv = obj'[c].rv => obj'[c].phase = "live"
        /\ k \in p.fins => k \in obj'[c].fins
  BY <1>1, NetworkConstantsAssumption DEF IInv, VersionsInv
<1>7. (Serving(k)' /\ Covered(k)) => k \in obj'[c].fins
  BY <1>3 DEF Serving, EntrySteps, Covered
<1>8. Releasing(k)' => cache'[c].phase # "live"
  BY <1>1, <1>3 DEF Releasing, EntrySteps
<1>9. k = MCN => p.arns \subseteq obj'[c].arns
  BY <1>1 DEF IInv, VersionsInv
<1>10. k = RTC =>
        /\ l = "addFinalizer" /\ p.network = "ready" => cache'[c].network = "ready"
        /\ l = "removeRoutes" /\ routes'[c] # {} => p.network = "ready"
  BY <1>1 DEF IInv, ResourcesInv
<1>11. l = "unshareTgw" => TGA \notin obj'[c].fins /\ PLE \notin obj'[c].fins
  BY <1>1 DEF IInv, VersionsInv, ResourcesStillInUse, TGA, PLE
<1>12. WorkerOK(k)'
  BY <1>3, <1>4, <1>5, <1>6, <1>7, <1>8, <1>9, <1>10, <1>11
     DEF WorkerOK, EntrySteps, Covered
<1>13. failures' \in 0..MaxFailures /\ edits' \in 0..MaxEdits
  BY <1>1 DEF IInv, TypeOK
<1>14. \/ k # MCN \/ w'[k].pc \notin ManagementServes \/ w[k].pc \in ManagementServes
       \/ cache[MC].phase = "live"
  BY ControllerNames DEF ManagementServes
<1> QED
  BY <1>12, <1>13, <1>14, WorkerOnly

LEMMA SkipInv ==
  ASSUME IInv, NEW k \in Controllers, NEW c \in Clusters, Skip(k, c),
         UNCHANGED <<objVars, awsVars, boundVars>>
  PROVE  IInv'
<1>1. w' = w /\ queue' \in [Controllers -> SUBSET Clusters]
  BY SkipFacts DEF IInv
<1>2. failures' \in 0..MaxFailures /\ edits' \in 0..MaxEdits /\ w' \in [Controllers -> Workers]
  BY <1>1 DEF IInv, TypeOK, boundVars
<1>3. ASSUME w'[k].pc # "idle" PROVE WorkerOK(k)'
  <2>1. PICK b \in Clusters : b = Cl(k)
    BY <1>1, <1>3 DEF IInv, WorkerInv, WorkerOK
  <2>2. LeavesAlone(k, b)
    <3>1. ObjectsEvolve /\ TruthStays
      BY StillWorld
    <3>2. /\ obj' = obj /\ cache' = cache /\ gateway' = gateway /\ plist' = plist /\ att' = att
          /\ entries' = entries /\ routes' = routes /\ shares' = shares
      BY DEF objVars, awsVars, mcVars, entryVars
    <3>3. OwnEntry(b)' = OwnEntry(b)
      BY <3>1, ListsStay
    <3>4. Keeps(k, b)' = Keeps(k, b) /\ ManagementReleased' = ManagementReleased
      BY <1>1, <3>2, <3>3 DEF Keeps, ManagementReleased
    <3> QED
      BY <1>1, <3>1, <3>2, <3>3, <3>4 DEF LeavesAlone, GatewayFound
  <2> QED
    BY <1>1, <1>3, <2>1, <2>2, Undisturbed
<1>4. Others(k) /\ (w'[k].pc \notin ManagementServes \/ w[k].pc \in ManagementServes)
  BY <1>1 DEF Others
<1> QED
  BY <1>2, <1>1, <1>3, <1>4, WorkerOnly

LEMMA BeginInv ==
  ASSUME IInv, NEW k \in Controllers, NEW c \in Clusters, NEW l \in Steps, Begin(k, c, l),
         UNCHANGED <<objVars, awsVars, boundVars>>, k = MCN => c = MC,
         \/ l = "addFinalizer" /\ cache[c].phase = "live"
         \/ /\ l \in {"detach", "lookup", "removeRoutes", "deleteGateway"}
            /\ cache[c].phase = "deleting"
         \/ /\ l = "unshareTgw" /\ cache[c].phase = "deleting" /\ ~ResourcesStillInUse(cache[c])
         \/ l = "sharePl" /\ k = SHR /\ ~NoLoneList
         \/ l = "status"
  PROVE  IInv'
<1>1. /\ w' \in [Controllers -> Workers] /\ queue' \in [Controllers -> SUBSET Clusters]
      /\ Others(k) /\ w'[k].pc = l /\ w'[k].cl = c /\ w'[k].copy = cache[c]
  BY BeginFacts DEF IInv
<1>2. PICK p : p = cache[c]
  OBVIOUS
<1> QED
  BY <1>1, <1>2, BegunInv

\* The management cluster's controller marks its copy as in progress.
LEMMA BeginInProgressFacts ==
  ASSUME TypeOK, MCN \in Controllers, NEW c \in Clusters, NEW l \in Steps, BeginInProgress(c, l),
         NEW p, p = Started(cache[c])
  PROVE  /\ w' \in [Controllers -> Workers] /\ queue' \in [Controllers -> SUBSET Clusters]
         /\ Others(MCN) /\ w'[MCN].pc = l /\ w'[MCN].cl = c /\ w'[MCN].copy = p
         /\ p.phase = cache[c].phase /\ p.rv = cache[c].rv /\ p.fins = cache[c].fins
         /\ p.arns = cache[c].arns /\ p.network = cache[c].network
         /\ p.conds = cache[c].conds \cup {InProgress}
<1> DEFINE r == [Idle EXCEPT !.pc = l, !.cl = c, !.copy = p]
<1>1. cache[c] \in NetClusters
  BY DEF TypeOK
<1>2. /\ p \in NetClusters /\ p.phase = cache[c].phase /\ p.rv = cache[c].rv
      /\ p.fins = cache[c].fins /\ p.arns = cache[c].arns /\ p.network = cache[c].network
      /\ p.conds = cache[c].conds \cup {InProgress}
  BY <1>1 DEF Started, NetClusters
<1>3. r \in Workers /\ r.pc = l /\ r.cl = c /\ r.copy = p
  BY <1>2, IdleType DEF Workers
<1>4. w' = [w EXCEPT ![MCN] = r] /\ queue' = [queue EXCEPT ![MCN] = @ \ {c}]
  BY DEF BeginInProgress
<1> HIDE DEF r
<1> QED
  BY <1>2, <1>3, <1>4 DEF TypeOK, Others

LEMMA ManagementReconcileInv ==
  ASSUME IInv, NEW c \in Clusters, ManagementReconcile(c) PROVE IInv'
<1>1. MCN \in Controllers /\ UNCHANGED <<objVars, awsVars, boundVars>>
  BY DEF ManagementReconcile, Takes, Call
<1>2. CASE Skip(MCN, c)
  BY <1>1, <1>2, SkipInv
<1>3. ASSUME NEW l \in Steps, BeginInProgress(c, l), c = MC,
             \/ l = "addFinalizer" /\ cache[c].phase = "live"
             \/ l = "deleteGateway" /\ cache[c].phase = "deleting"
             \/ l = "status"
      PROVE  IInv'
  <2>1. PICK p : p = Started(cache[c])
    OBVIOUS
  <2>2. /\ w' \in [Controllers -> Workers] /\ queue' \in [Controllers -> SUBSET Clusters]
        /\ Others(MCN) /\ w'[MCN].pc = l /\ w'[MCN].cl = c /\ w'[MCN].copy = p
        /\ p.phase = cache[c].phase /\ p.rv = cache[c].rv /\ p.fins = cache[c].fins
        /\ p.arns = cache[c].arns /\ p.network = cache[c].network
        /\ p.conds = cache[c].conds \cup {InProgress}
    BY <1>1, <1>3, <2>1, BeginInProgressFacts DEF IInv
  <2> QED
    BY <1>1, <1>3, <2>2, BegunInv
<1> QED
  BY <1>2, <1>3 DEF ManagementReconcile, Steps

LEMMA AttachmentReconcileInv ==
  ASSUME IInv, NEW c \in Clusters, AttachmentReconcile(c) PROVE IInv'
<1>1. TGA \in Controllers /\ TGA # MCN /\ UNCHANGED <<objVars, awsVars, boundVars>>
  BY ControllerNames DEF AttachmentReconcile, Takes, Call
<1>2. \/ Skip(TGA, c)
      \/ cache[c].phase = "live" /\ Begin(TGA, c, "addFinalizer")
      \/ cache[c].phase = "deleting" /\ Begin(TGA, c, "detach")
  BY DEF AttachmentReconcile
<1> QED
  BY <1>1, <1>2, SkipInv, BeginInv DEF Steps

LEMMA EntryReconcileInv ==
  ASSUME IInv, NEW c \in Clusters, EntryReconcile(c) PROVE IInv'
<1>1. PLE \in Controllers /\ PLE # MCN /\ UNCHANGED <<objVars, awsVars, boundVars>>
  BY ControllerNames DEF EntryReconcile, Takes, Call
<1>2. \/ Skip(PLE, c)
      \/ cache[c].phase = "live" /\ Begin(PLE, c, "addFinalizer")
      \/ cache[c].phase = "deleting" /\ Begin(PLE, c, "lookup")
  BY DEF EntryReconcile
<1> QED
  BY <1>1, <1>2, SkipInv, BeginInv DEF Steps

LEMMA RouteReconcileInv ==
  ASSUME IInv, NEW c \in Clusters, RouteReconcile(c) PROVE IInv'
<1>1. RTC \in Controllers /\ RTC # MCN /\ UNCHANGED <<objVars, awsVars, boundVars>>
  BY ControllerNames DEF RouteReconcile, Takes, Call
<1>2. \/ Skip(RTC, c)
      \/ cache[c].phase = "live" /\ Begin(RTC, c, "addFinalizer")
      \/ cache[c].phase = "deleting" /\ Begin(RTC, c, "removeRoutes")
  BY DEF RouteReconcile
<1> QED
  BY <1>1, <1>2, SkipInv, BeginInv DEF Steps

\* Whoever finds a prefix list finds a transit gateway, unless a user has named
\* a list alone.
LEMMA KnownPair ==
  ASSUME IInv, NoLoneList, NEW c \in Clusters, KnownArns(c) # {}
  PROVE  "tgw" \in KnownArns(c)
<1>1. KnownArns(c) \subseteq {"tgw", "pl"}
  BY KnownArnsType DEF IInv
<1>2. CASE MC \notin Clusters
  BY <1>2 DEF KnownArns
<1>3. CASE MC \in Clusters
  <2>1. Paired(cache[c].arns) /\ Paired(cache[MC].arns)
    BY <1>3, ObjectFacts
  <2> QED
    BY <1>1, <1>3, <2>1 DEF KnownArns, Paired
<1> QED
  BY <1>2, <1>3

LEMMA ShareReconcileInv ==
  ASSUME IInv, NEW c \in Clusters, ShareReconcile(c) PROVE IInv'
<1>1. SHR \in Controllers /\ SHR # MCN /\ UNCHANGED <<objVars, awsVars, boundVars>>
  BY ControllerNames DEF ShareReconcile, Takes, Call
<1>2. \/ Skip(SHR, c)
      \/ cache[c].phase = "deleting" /\ ~ResourcesStillInUse(cache[c]) /\ Begin(SHR, c, "unshareTgw")
      \/ cache[c].phase = "live" /\ Begin(SHR, c, "addFinalizer")
      \/ ~NoLoneList /\ Begin(SHR, c, "sharePl")
  <2>1. (NoLoneList /\ KnownArns(c) # {}) => "tgw" \in KnownArns(c)
    BY KnownPair
  <2> QED
    BY <2>1 DEF ShareReconcile
<1> QED
  BY <1>1, <1>2, SkipInv, BeginInv DEF Steps

-----------------------------------------------------------------------------
(* The calls to AWS.                                                       *)

\* A controller changes nothing but what it keeps.
LEMMA OwnStep ==
  ASSUME IInv, NEW k \in Controllers, UNCHANGED objVars, Others(k), TypeOK', ResourcesInv',
         TruthStays,
         k # MCN => gateway' = gateway /\ plist' = plist,
         k = MCN => (~plist => ~plist' \/ w[k].pc \in ManagementServes),
         k # TGA => att' = att,
         k # PLE => entries' = entries,
         k # RTC => routes' = routes,
         k # SHR => shares' = shares,
         \A b \in Clusters : (Covered(k) /\ Keeps(k, b)') => k \in obj[b].fins,
         w'[k].pc \notin ManagementServes \/ w[k].pc \in ManagementServes,
         w'[k].pc # "idle" => WorkerOK(k)'
  PROVE  IInv'
<1>1. obj' = obj /\ cache' = cache
  BY DEF objVars
<1>2. ObjectsEvolve
  BY <1>1, ObjectFacts, EvolvesRefl DEF ObjectsEvolve
<1>3. \A b \in Clusters : OwnEntry(b)' = OwnEntry(b)
  BY <1>2, ListsStay
<1>4. ASSUME NEW j \in AllControllers, j # k, NEW b \in Clusters PROVE Keeps(j, b)' <=> Keeps(j, b)
  BY <1>3, <1>4, ControllerNames DEF Keeps
<1>5. GuardedInv'
  BY <1>1, <1>4 DEF IInv, GuardedInv, Covered
<1>6. ManagementReleased => ManagementReleased'
  BY <1>1, ReleasedStays
<1>7. ASSUME NEW j \in Controllers, j # k, w'[j] = w[j], NEW b \in Clusters
      PROVE  LeavesAlone(j, b)
  <2>1. j \in AllControllers
    BY NetworkConstantsAssumption
  <2>2. (j = PLE /\ ~plist /\ ManagementReleased) => ~plist'
    BY <1>7 DEF ManagementReleased, ManagementServes
  <2> QED
    BY <1>1, <1>2, <1>3, <1>4, <1>6, <1>7, <2>1, <2>2 DEF LeavesAlone, GatewayFound
<1> QED
  BY <1>5, <1>7, WorkerStep

\* A worker that goes on with the same copy.
LEMMA GoesOn ==
  ASSUME IInv, NEW k \in Controllers, w[k].pc # "idle", NEW l \in Steps, Goto(k, l),
         UNCHANGED objVars, TruthStays,
         NEW c, c = Cl(k), NEW p, p = Copy(k)
  PROVE  /\ Cl(k)' = c /\ Copy(k)' = p /\ w'[k].pc = l /\ c \in Clusters /\ Others(k)
         /\ obj' = obj /\ cache' = cache
         /\ w' \in [Controllers -> Workers] /\ queue' \in [Controllers -> SUBSET Clusters]
         /\ obj[c].phase = "live" => Truthful(c, p.conds)'
<1>1. obj' = obj /\ cache' = cache
  BY DEF objVars
<1>2. ObjectsEvolve
  BY <1>1, ObjectFacts, EvolvesRefl DEF ObjectsEvolve
<1>3. WorkerOK(k)
  BY DEF IInv, WorkerInv
<1>4. /\ w' \in [Controllers -> Workers] /\ queue' = queue /\ Others(k)
      /\ w'[k].pc = l /\ w'[k].cl = w[k].cl /\ w'[k].copy = w[k].copy
  BY GotoFacts DEF IInv
<1>5. queue' \in [Controllers -> SUBSET Clusters]
  BY <1>4 DEF IInv, TypeOK
<1>6. obj[c].phase = "live" => Truthful(c, p.conds)'
  BY <1>1, <1>2, <1>3, TruthfulStays DEF WorkerOK, Truthful
<1> QED
  BY <1>1, <1>3, <1>4, <1>5, <1>6 DEF Cl, Copy, WorkerOK

\* The work is done and its condition true.
LEMMA Done ==
  ASSUME IInv, NEW k \in Controllers, w[k].pc # "idle", NEW x \in NetConditions, MarkReady(k, x),
         k # MCN, UNCHANGED objVars, TruthStays, NEW c \in Clusters, c = Cl(k),
         obj[c].phase = "live" => Truthful(c, {x})'
  PROVE  /\ Others(k) /\ w'[k].pc = "status"
         /\ w' \in [Controllers -> Workers] /\ queue' \in [Controllers -> SUBSET Clusters]
         /\ WorkerOK(k)'
<1>1. obj' = obj /\ cache' = cache
  BY DEF objVars
<1>2. ObjectsEvolve
  BY <1>1, ObjectFacts, EvolvesRefl DEF ObjectsEvolve
<1>3. WorkerOK(k)
  BY DEF IInv, WorkerInv
<1>4. /\ w' \in [Controllers -> Workers] /\ queue' = queue /\ Others(k)
      /\ w'[k].pc = "status" /\ w'[k].cl = w[k].cl
      /\ w'[k].copy.conds = w[k].copy.conds \cup {x}
  BY MarkReadyFacts DEF IInv
<1>5. queue' \in [Controllers -> SUBSET Clusters]
  BY <1>4 DEF IInv, TypeOK
<1>6. PICK q : q = w[k].copy.conds
  OBVIOUS
<1>7. PICK s : s = q \cup {x}
  OBVIOUS
<1>8. obj'[c].phase = "live" => Truthful(c, s)'
  <2> SUFFICES ASSUME obj'[c].phase = "live" PROVE Truthful(c, s)'
    OBVIOUS
  <2>1. Truthful(c, q)
    BY <1>1, <1>3, <1>6 DEF WorkerOK, Copy
  <2>2. Truthful(c, q)'
    BY <1>2, <2>1, TruthfulStays DEF Truthful
  <2> QED
    BY <1>1, <1>7, <2>2 DEF Truthful
<1>9. w'[k].cl = c
  BY <1>4 DEF Cl
<1>10. WorkerOK(k)'
  BY <1>4, <1>6, <1>7, <1>8, <1>9, StatusOK
<1> QED
  BY <1>4, <1>5, <1>10

LEMMA ApplyGatewayInv ==
  ASSUME IInv, ApplyGateway PROVE IInv'
<1>1. /\ MCN \in Controllers /\ w[MCN].pc = "gateway" /\ WorkerOK(MCN)
      /\ GatewayFound' /\ Goto(MCN, "annotateGateway") /\ UNCHANGED objVars
      /\ obj' = obj /\ plist' = plist /\ att' = att /\ entries' = entries /\ version' = version
      /\ routes' = routes /\ shares' = shares /\ failures' = failures /\ edits' = edits
      /\ gateway' \in {"pending", "available"}
  BY Caller DEF ApplyGateway, GatewayFound, objVars, entryVars, boundVars
<1>2. Cl(MCN) = MC /\ MC \in Clusters /\ MCN \in obj[MC].fins
  BY <1>1, ControllerNames DEF WorkerOK, Serving, Covered
<1>3. TruthStays
  BY <1>1 DEF TruthStays, OwnEntry, ListOf
<1>4. PICK p : p = Copy(MCN)
  OBVIOUS
<1>5. /\ Cl(MCN)' = MC /\ Copy(MCN)' = p /\ w'[MCN].pc = "annotateGateway" /\ Others(MCN)
      /\ obj' = obj /\ cache' = cache
      /\ w' \in [Controllers -> Workers] /\ queue' \in [Controllers -> SUBSET Clusters]
      /\ obj[MC].phase = "live" => Truthful(MC, p.conds)'
  BY <1>1, <1>2, <1>3, <1>4, GoesOn DEF Steps
<1>6. WorkerOK(MCN)'
  BY <1>1, <1>2, <1>4, <1>5, ControllerNames DEF WorkerOK, Releasing, EntrySteps
<1>7. TypeOK' /\ ResourcesInv'
  BY <1>1, <1>5 DEF IInv, TypeOK, ResourcesInv
<1>8. \A b \in Clusters : Keeps(MCN, b)' => MCN \in obj[b].fins
  BY <1>2, ControllerNames DEF Keeps
<1> QED
  BY <1>1, <1>3, <1>5, <1>6, <1>7, <1>8, ControllerNames, OwnStep DEF ManagementServes

LEMMA ApplyPrefixListInv ==
  ASSUME IInv, ApplyPrefixList PROVE IInv'
<1>1. /\ MCN \in Controllers /\ w[MCN].pc = "list" /\ WorkerOK(MCN)
      /\ Goto(MCN, "annotateList") /\ UNCHANGED objVars
      /\ obj' = obj /\ gateway' = gateway /\ plist' = TRUE /\ att' = att /\ entries' = entries
      /\ version' = version /\ routes' = routes /\ shares' = shares
      /\ failures' = failures /\ edits' = edits
  BY Caller DEF ApplyPrefixList, objVars, entryVars, boundVars
<1>2. Cl(MCN) = MC /\ MC \in Clusters /\ MCN \in obj[MC].fins
  BY <1>1, ControllerNames DEF WorkerOK, Serving, Covered
<1>3. TruthStays
  BY <1>1 DEF TruthStays, OwnEntry, ListOf, GatewayFound
<1>4. PICK p : p = Copy(MCN)
  OBVIOUS
<1>5. /\ Cl(MCN)' = MC /\ Copy(MCN)' = p /\ w'[MCN].pc = "annotateList" /\ Others(MCN)
      /\ obj' = obj /\ cache' = cache
      /\ w' \in [Controllers -> Workers] /\ queue' \in [Controllers -> SUBSET Clusters]
      /\ obj[MC].phase = "live" => Truthful(MC, p.conds)'
  BY <1>1, <1>2, <1>3, <1>4, GoesOn DEF Steps
<1>6. WorkerOK(MCN)'
  BY <1>1, <1>2, <1>4, <1>5, ControllerNames DEF WorkerOK, Releasing, EntrySteps, GatewayFound
<1>7. TypeOK' /\ ResourcesInv'
  BY <1>1, <1>5 DEF IInv, TypeOK, ResourcesInv
<1>8. \A b \in Clusters : Keeps(MCN, b)' => MCN \in obj[b].fins
  BY <1>2, ControllerNames DEF Keeps
<1> QED
  BY <1>1, <1>3, <1>5, <1>6, <1>7, <1>8, ControllerNames, OwnStep DEF ManagementServes

LEMMA DeleteGatewayInv ==
  ASSUME IInv, DeleteGateway PROVE IInv'
<1>1. /\ MCN \in Controllers /\ w[MCN].pc = "deleteGateway" /\ WorkerOK(MCN) /\ UNCHANGED objVars
      /\ obj' = obj /\ plist' = plist /\ att' = att /\ entries' = entries /\ version' = version
      /\ routes' = routes /\ shares' = shares /\ failures' = failures /\ edits' = edits
  BY Caller DEF DeleteGateway, objVars, entryVars, boundVars
<1>2. CASE Error(MCN) /\ gateway' = gateway
  BY <1>1, <1>2, ErrorInv DEF awsVars, mcVars, entryVars, boundVars
<1>3. CASE Goto(MCN, "deleteList") /\ ~GatewayFound' /\ gateway' \in {gateway, "deleted"}
  <2>1. Cl(MCN) = MC /\ MC \in Clusters /\ cache[MC].phase # "live" /\ obj[MC].phase # "live"
    BY <1>1, ControllerNames DEF WorkerOK, Releasing, IInv, VersionsInv
  <2>2. TruthStays
    BY <1>1, <2>1 DEF TruthStays, OwnEntry, ListOf
  <2>3. PICK p : p = Copy(MCN)
    OBVIOUS
  <2>4. /\ Cl(MCN)' = MC /\ Copy(MCN)' = p /\ w'[MCN].pc = "deleteList" /\ Others(MCN)
        /\ obj' = obj /\ cache' = cache
        /\ w' \in [Controllers -> Workers] /\ queue' \in [Controllers -> SUBSET Clusters]
    BY <1>1, <1>3, <2>1, <2>2, <2>3, GoesOn DEF Steps
  <2>5. WorkerOK(MCN)'
    BY <1>1, <1>3, <2>1, <2>3, <2>4, ControllerNames DEF WorkerOK, Serving, EntrySteps
  <2>6. TypeOK' /\ ResourcesInv'
    BY <1>1, <1>3, <2>4 DEF IInv, TypeOK, ResourcesInv
  <2>7. \A b \in Clusters : Keeps(MCN, b)' => MCN \in obj[b].fins
    <3>1. \A b \in Clusters : Keeps(MCN, b)' => Keeps(MCN, b)
      <4>1. gateway' \in {"pending", "available"} => gateway \in {"pending", "available"}
        BY <1>3
      <4> QED
        BY <1>1, <4>1, ControllerNames DEF Keeps
    <3> QED
      BY <3>1, ControllerNames DEF IInv, GuardedInv, Covered
  <2> QED
    BY <1>1, <2>2, <2>4, <2>5, <2>6, <2>7, ControllerNames, OwnStep DEF ManagementServes
<1>4. \/ Error(MCN) /\ gateway' = gateway
      \/ Goto(MCN, "deleteList") /\ ~GatewayFound' /\ gateway' \in {gateway, "deleted"}
  BY DEF DeleteGateway, GatewayFound
<1> QED
  BY <1>2, <1>3, <1>4

LEMMA DeletePrefixListInv ==
  ASSUME IInv, DeletePrefixList PROVE IInv'
<1>1. /\ MCN \in Controllers /\ w[MCN].pc = "deleteList" /\ WorkerOK(MCN) /\ UNCHANGED objVars
      /\ obj' = obj /\ gateway' = gateway /\ att' = att /\ version' = version
      /\ routes' = routes /\ shares' = shares /\ failures' = failures /\ edits' = edits
  BY Caller DEF DeletePrefixList, objVars, entryVars, boundVars
<1>2. CASE Error(MCN) /\ UNCHANGED <<plist, entries>>
  BY <1>1, <1>2, ErrorInv DEF awsVars, mcVars, entryVars, boundVars
<1>3. CASE /\ plist' = FALSE /\ entries' = {e \in entries : e.list # MC}
           /\ Goto(MCN, "removeFinalizer")
  <2>1. /\ Cl(MCN) = MC /\ MC \in Clusters /\ cache[MC].phase # "live" /\ obj[MC].phase # "live"
        /\ ~GatewayFound
    BY <1>1, ControllerNames DEF WorkerOK, Releasing, IInv, VersionsInv
  <2>2. \A b \in Clusters : OwnEntry(b)' = OwnEntry(b)
    BY <1>1 DEF OwnEntry, ListOf
  \* Everybody else is gone by now, and has no entry left.
  <2>3. \A b \in Clusters \ {MC} : obj[b].phase = "gone" /\ OwnEntry(b) \notin entries
    <3> SUFFICES ASSUME NEW b \in Clusters, b # MC
                 PROVE  obj[b].phase = "gone" /\ OwnEntry(b) \notin entries
      OBVIOUS
    <3>1. obj[b].phase = "gone" /\ obj[b].fins = {}
      BY <2>1 DEF IInv, VersionsInv
    <3>2. ~Keeps(PLE, b)
      BY <3>1, ControllerNames DEF IInv, GuardedInv, Covered
    <3> QED
      BY <3>1, <3>2, KeepsCases
  <2>4. TruthStays
    BY <1>1, <2>1, <2>3 DEF TruthStays
  <2>5. PICK p : p = Copy(MCN)
    OBVIOUS
  <2>6. /\ Cl(MCN)' = MC /\ Copy(MCN)' = p /\ w'[MCN].pc = "removeFinalizer" /\ Others(MCN)
        /\ obj' = obj /\ cache' = cache
        /\ w' \in [Controllers -> Workers] /\ queue' \in [Controllers -> SUBSET Clusters]
    BY <1>1, <1>3, <2>1, <2>4, <2>5, GoesOn DEF Steps
  <2>7. ~Keeps(MCN, MC)'
    BY <1>1, <1>3, <2>1, ControllerNames DEF Keeps, GatewayFound
  <2>8. WorkerOK(MCN)'
    BY <1>1, <2>1, <2>5, <2>6, <2>7, ControllerNames DEF WorkerOK, Serving, EntrySteps
  <2>9. TypeOK' /\ ResourcesInv'
    BY <1>1, <1>3, <2>6 DEF IInv, TypeOK, ResourcesInv
  <2>10. \A j \in AllControllers, b \in Clusters : Keeps(j, b)' => Keeps(j, b)
    <3> SUFFICES ASSUME NEW j \in AllControllers, NEW b \in Clusters, Keeps(j, b)'
                 PROVE  Keeps(j, b)
      OBVIOUS
    <3>1. plist' => plist
      BY <1>3
    <3>2. OwnEntry(b)' \in entries' => OwnEntry(b) \in entries
      BY <1>3, <2>2
    <3> QED
      BY <1>1, <3>1, <3>2, ControllerNames DEF Keeps
  <2>11. GuardedInv'
    BY <1>1, <2>10 DEF IInv, GuardedInv, Covered
  <2>12. ManagementReleased'
    BY <2>1, <2>6, ControllerNames DEF ManagementReleased
  <2>13. ObjectsEvolve
    BY <2>6, ObjectFacts, EvolvesRefl DEF ObjectsEvolve
  <2>14. ASSUME NEW j \in Controllers, NEW b \in Clusters, j # MCN, w'[j] = w[j]
         PROVE  LeavesAlone(j, b)
    <3>1. j \in AllControllers
      BY NetworkConstantsAssumption
    <3> QED
      BY <1>1, <1>3, <2>3, <2>4, <2>10, <2>12, <2>13, <2>14, <3>1 DEF LeavesAlone
  <2> QED
    BY <1>1, <2>4, <2>6, <2>8, <2>9, <2>11, <2>14, WorkerStep
<1> QED
  BY <1>2, <1>3 DEF DeletePrefixList

LEMMA ApplyAttachmentInv ==
  ASSUME IInv, ApplyAttachment PROVE IInv'
<1>1. /\ TGA \in Controllers /\ w[TGA].pc = "attach" /\ WorkerOK(TGA) /\ UNCHANGED objVars
      /\ obj' = obj /\ cache' = cache /\ gateway' = gateway /\ plist' = plist
      /\ entries' = entries /\ version' = version /\ routes' = routes /\ shares' = shares
      /\ failures' = failures /\ edits' = edits
  BY Caller DEF ApplyAttachment, objVars, mcVars, entryVars, boundVars
<1>2. PICK c \in Clusters : c = Cl(TGA)
  BY <1>1 DEF WorkerOK
<1>3. CASE Error(TGA) /\ att' = att
  BY <1>1, <1>3, ErrorInv DEF awsVars, mcVars, entryVars, boundVars
<1>4. CASE /\ MarkReady(TGA, TransitGatewayAttached)
           /\ \/ AttachmentFound(c) /\ att' = att
              \/ ~AttachmentFound(c) /\ att' = [att EXCEPT ![c] = "available"]
  <2>1. TGA \in obj[c].fins
    BY <1>1, <1>2, ControllerNames DEF WorkerOK, Serving, Covered
  <2>2. att \in [Clusters -> {"none", "available", "deleting", "deleted"}]
    BY DEF IInv, TypeOK
  <2>3. /\ att' \in [Clusters -> {"none", "available", "deleting", "deleted"}]
        /\ \A b \in Clusters : att'[b] \in {att[b], "available"}
        /\ \A b \in Clusters : b # c => att'[b] = att[b]
    BY <1>4, <2>2
  <2>4. obj[c].phase = "live" => att'[c] = "available"
    BY <1>4, <2>2 DEF AttachmentFound, IInv, ResourcesInv
  <2>5. TruthStays
    BY <1>1, <2>3 DEF TruthStays, OwnEntry, ListOf, GatewayFound
  <2>6. obj[c].phase = "live" => Truthful(c, {TransitGatewayAttached})'
    BY <2>4 DEF Truthful, TransitGatewayAttached, PrefixListEntriesReady, TransitGatewayCreated
  <2>7. /\ Others(TGA) /\ w'[TGA].pc = "status"
        /\ w' \in [Controllers -> Workers] /\ queue' \in [Controllers -> SUBSET Clusters]
        /\ WorkerOK(TGA)'
    BY <1>1, <1>2, <1>4, <2>5, <2>6, ControllerNames, Done DEF NetConditions
  <2>8. TypeOK' /\ ResourcesInv'
    BY <1>1, <2>3, <2>7 DEF IInv, TypeOK, ResourcesInv
  <2>9. \A b \in Clusters : Keeps(TGA, b)' => TGA \in obj[b].fins
    <3> SUFFICES ASSUME NEW b \in Clusters, b # c, Keeps(TGA, b)' PROVE TGA \in obj[b].fins
      BY <2>1
    <3>1. Keeps(TGA, b)
      BY <2>3, ControllerNames DEF Keeps
    <3> QED
      BY <3>1, ControllerNames DEF IInv, GuardedInv, Covered
  <2> QED
    BY <1>1, <2>5, <2>7, <2>8, <2>9, ControllerNames, OwnStep DEF ManagementServes
<1> QED
  BY <1>2, <1>3, <1>4 DEF ApplyAttachment

LEMMA DetachInv ==
  ASSUME IInv, Detach PROVE IInv'
<1>1. /\ TGA \in Controllers /\ w[TGA].pc = "detach" /\ WorkerOK(TGA) /\ UNCHANGED objVars
      /\ obj' = obj /\ cache' = cache /\ gateway' = gateway /\ plist' = plist
      /\ entries' = entries /\ version' = version /\ routes' = routes /\ shares' = shares
      /\ failures' = failures /\ edits' = edits
  BY Caller DEF Detach, objVars, mcVars, entryVars, boundVars
<1>2. PICK c \in Clusters : c = Cl(TGA)
  BY <1>1 DEF WorkerOK
<1>3. CASE Error(TGA) /\ att' = att
  BY <1>1, <1>3, ErrorInv DEF awsVars, mcVars, entryVars, boundVars
<1>4. CASE /\ Goto(TGA, "removeFinalizer")
           /\ \/ ~AttachmentFound(c) /\ att' = att
              \/ att' = [att EXCEPT ![c] = "deleting"]
  <2>1. cache[c].phase # "live" /\ obj[c].phase # "live"
    BY <1>1, <1>2, ControllerNames DEF WorkerOK, Releasing, IInv, VersionsInv
  <2>2. att \in [Clusters -> {"none", "available", "deleting", "deleted"}]
    BY DEF IInv, TypeOK
  <2>3. /\ att' \in [Clusters -> {"none", "available", "deleting", "deleted"}]
        /\ \A b \in Clusters : b # c => att'[b] = att[b]
        /\ att'[c] # "available"
    BY <1>4, <2>2 DEF AttachmentFound
  <2>4. TruthStays
    BY <1>1, <2>1, <2>3 DEF TruthStays, OwnEntry, ListOf, GatewayFound
  <2>5. PICK p : p = Copy(TGA)
    OBVIOUS
  <2>6. /\ Cl(TGA)' = c /\ Copy(TGA)' = p /\ w'[TGA].pc = "removeFinalizer" /\ Others(TGA)
        /\ w' \in [Controllers -> Workers] /\ queue' \in [Controllers -> SUBSET Clusters]
    BY <1>1, <1>2, <1>4, <2>4, <2>5, GoesOn DEF Steps
  <2>7. ~Keeps(TGA, c)'
    BY <2>3, ControllerNames DEF Keeps
  <2>8. WorkerOK(TGA)'
    BY <1>1, <2>1, <2>5, <2>6, <2>7, ControllerNames DEF WorkerOK, Serving, EntrySteps
  <2>9. TypeOK' /\ ResourcesInv'
    BY <1>1, <2>1, <2>3, <2>6 DEF IInv, TypeOK, ResourcesInv
  <2>10. \A b \in Clusters : Keeps(TGA, b)' => TGA \in obj[b].fins
    <3> SUFFICES ASSUME NEW b \in Clusters, b # c, Keeps(TGA, b)' PROVE TGA \in obj[b].fins
      BY <2>7
    <3>1. Keeps(TGA, b)
      BY <2>3, ControllerNames DEF Keeps
    <3> QED
      BY <3>1, ControllerNames DEF IInv, GuardedInv, Covered
  <2> QED
    BY <1>1, <2>4, <2>6, <2>8, <2>9, <2>10, ControllerNames, OwnStep DEF ManagementServes
<1> QED
  BY <1>2, <1>3, <1>4 DEF Detach

LEMMA EntryExistsInv ==
  ASSUME IInv, EntryExists PROVE IInv'
<1>1. /\ PLE \in Controllers /\ w[PLE].pc = "lookup" /\ WorkerOK(PLE) /\ Copy(PLE) \in NetClusters
      /\ UNCHANGED <<objVars, awsVars, boundVars>>
  BY Caller DEF EntryExists
<1>2. /\ obj' = obj /\ cache' = cache /\ plist' = plist /\ entries' = entries
      /\ failures' \in 0..MaxFailures /\ edits' \in 0..MaxEdits
  BY <1>1 DEF objVars, awsVars, mcVars, entryVars, boundVars, IInv, TypeOK
<1>3. PICK c \in Clusters : c = Cl(PLE)
  BY <1>1 DEF WorkerOK
<1>4. ObjectsEvolve /\ TruthStays
  BY <1>1, StillWorld
<1>5. PICK p : p = Copy(PLE)
  OBVIOUS
<1>6. p.phase \in {"live", "deleting"}
  BY <1>1, <1>5 DEF WorkerOK, EntrySteps, NetClusters
<1>7. OwnEntry(c)' = OwnEntry(c)
  BY <1>4, ListsStay
<1>8. OwnEntry(c) \in entries <=> OwnEntry(c) \in AtCidr(c)
  BY DEF AtCidr, OwnEntry
<1>9. CASE Error(PLE)
  BY <1>1, <1>9, ErrorInv
<1>10. CASE AtCidr(c) = {OwnEntry(c)} /\ MarkReady(PLE, PrefixListEntriesReady)
  <2>1. obj[c].phase = "live" => Truthful(c, {PrefixListEntriesReady})'
    BY <1>2, <1>7, <1>8, <1>10
       DEF Truthful, TransitGatewayAttached, PrefixListEntriesReady, TransitGatewayCreated
  <2>2. /\ Others(PLE) /\ w'[PLE].pc = "status"
        /\ w' \in [Controllers -> Workers] /\ queue' \in [Controllers -> SUBSET Clusters]
        /\ WorkerOK(PLE)'
    BY <1>1, <1>3, <1>4, <1>10, <2>1, ControllerNames, Done DEF NetConditions
  <2> QED
    BY <1>1, <1>2, <2>2, ControllerNames, WorkerOnly
<1>11. CASE /\ Goto(PLE, "version")
            /\ p.phase = "live" \/ (p.phase = "deleting" /\ OwnEntry(c) \in entries)
  <2>1. /\ Cl(PLE)' = c /\ Copy(PLE)' = p /\ w'[PLE].pc = "version" /\ Others(PLE)
        /\ w' \in [Controllers -> Workers] /\ queue' \in [Controllers -> SUBSET Clusters]
        /\ obj[c].phase = "live" => Truthful(c, p.conds)'
    BY <1>1, <1>3, <1>4, <1>5, <1>11, GoesOn DEF Steps
  <2>2. Serving(PLE)' => Serving(PLE)
    BY <1>1, <1>5, <2>1 DEF Serving, EntrySteps
  <2>3. Releasing(PLE)' => Releasing(PLE)
    BY <1>1, <1>5, <2>1 DEF Releasing, EntrySteps
  <2>4. WorkerOK(PLE)'
    BY <1>1, <1>2, <1>3, <1>6, <1>7, <1>11, <2>1, <2>2, <2>3, ControllerNames
       DEF WorkerOK, Covered
  <2> QED
    BY <1>1, <1>2, <2>1, <2>4, ControllerNames, WorkerOnly
<1>12. CASE Goto(PLE, "removeFinalizer") /\ p.phase = "deleting" /\ OwnEntry(c) \notin entries
  <2>1. /\ Cl(PLE)' = c /\ Copy(PLE)' = p /\ w'[PLE].pc = "removeFinalizer" /\ Others(PLE)
        /\ w' \in [Controllers -> Workers] /\ queue' \in [Controllers -> SUBSET Clusters]
        /\ obj[c].phase = "live" => Truthful(c, p.conds)'
    BY <1>1, <1>3, <1>4, <1>5, <1>12, GoesOn DEF Steps
  <2>2. Releasing(PLE)
    BY <1>1, <1>5, <1>12 DEF Releasing, EntrySteps
  <2>3. ~Keeps(PLE, c)'
    BY <1>2, <1>7, <1>12, ControllerNames DEF Keeps
  <2>4. WorkerOK(PLE)'
    BY <1>1, <1>2, <1>3, <1>7, <1>12, <2>1, <2>2, <2>3, ControllerNames
       DEF WorkerOK, Serving, EntrySteps
  <2> QED
    BY <1>1, <1>2, <2>1, <2>4, ControllerNames, WorkerOnly
<1>13. \/ AtCidr(c) = {} /\ p.phase # "deleting" /\ Goto(PLE, "version")
       \/ AtCidr(c) = {} /\ p.phase = "deleting" /\ Goto(PLE, "removeFinalizer")
       \/ AtCidr(c) = {OwnEntry(c)} /\ MarkReady(PLE, PrefixListEntriesReady)
       \/ AtCidr(c) = {OwnEntry(c)} /\ p.phase = "deleting" /\ Goto(PLE, "version")
       \/ Error(PLE)
  BY <1>3, <1>5 DEF EntryExists
<1> QED
  BY <1>6, <1>8, <1>9, <1>10, <1>11, <1>12, <1>13

LEMMA ReadVersionInv ==
  ASSUME IInv, ReadVersion PROVE IInv'
<1>1. /\ PLE \in Controllers /\ w[PLE].pc = "version" /\ WorkerOK(PLE) /\ w[PLE] \in Workers
      /\ UNCHANGED <<objVars, awsVars, boundVars>>
  BY Caller DEF ReadVersion
<1>2. /\ obj' = obj /\ cache' = cache /\ plist' = plist /\ entries' = entries
      /\ failures' \in 0..MaxFailures /\ edits' \in 0..MaxEdits
  BY <1>1 DEF objVars, awsVars, mcVars, entryVars, boundVars, IInv, TypeOK
<1>3. PICK c \in Clusters : c = Cl(PLE)
  BY <1>1 DEF WorkerOK
<1>4. CASE Error(PLE)
  BY <1>1, <1>4, ErrorInv
<1>5. CASE /\ w' = [w EXCEPT ![PLE].pc = "modify", ![PLE].version = version[ListOf(Cl(PLE))]]
           /\ UNCHANGED queue
  <2>1. ObjectsEvolve /\ TruthStays
    BY <1>1, StillWorld
  <2>2. OwnEntry(c)' = OwnEntry(c)
    BY <2>1, ListsStay
  <2>3. PICK v : v = version[ListOf(Cl(PLE))]
    OBVIOUS
  <2>4. v \in Nat
    BY <1>3, <2>3 DEF IInv, TypeOK, Lists, ListOf
  <2>5. w' = [w EXCEPT ![PLE] = [w[PLE] EXCEPT !.pc = "modify", !.version = v]]
    BY <1>1, <1>5, <2>3 DEF IInv, TypeOK
  <2>6. [w[PLE] EXCEPT !.pc = "modify", !.version = v] \in Workers
    BY <1>1, <2>4 DEF Workers, Steps
  <2>7. PICK p : p = Copy(PLE)
    OBVIOUS
  <2>8. /\ Cl(PLE)' = c /\ Copy(PLE)' = p /\ w'[PLE].pc = "modify" /\ Others(PLE)
        /\ w' \in [Controllers -> Workers] /\ queue' \in [Controllers -> SUBSET Clusters]
    <3>1. queue' \in [Controllers -> SUBSET Clusters] /\ w \in [Controllers -> Workers]
      BY <1>5 DEF IInv, TypeOK
    <3>2. w' \in [Controllers -> Workers] /\ Others(PLE)
      BY <1>1, <2>5, <2>6, <3>1 DEF Others
    <3>3. w'[PLE].pc = "modify" /\ w'[PLE].cl = w[PLE].cl /\ w'[PLE].copy = w[PLE].copy
      BY <1>1, <2>5, <3>1 DEF Workers
    <3> QED
      BY <1>3, <2>7, <3>1, <3>2, <3>3 DEF Cl, Copy
  <2>9. obj[c].phase = "live" => Truthful(c, p.conds)'
    BY <1>1, <1>2, <1>3, <2>1, <2>7, TruthfulStays DEF WorkerOK, Truthful
  <2>10. Serving(PLE)' => Serving(PLE)
    BY <1>1, <2>7, <2>8 DEF Serving, EntrySteps
  <2>11. Releasing(PLE)' => Releasing(PLE)
    BY <1>1, <2>7, <2>8 DEF Releasing, EntrySteps
  <2>12. ManagementReleased => ManagementReleased'
    BY <1>1, <1>2, <2>8, ReleasedStays, ControllerNames
  <2>13. WorkerOK(PLE)'
    BY <1>1, <1>2, <1>3, <2>2, <2>7, <2>8, <2>9, <2>10, <2>11, <2>12, ControllerNames
       DEF WorkerOK, Covered, EntrySteps
  <2> QED
    BY <1>1, <1>2, <2>8, <2>13, ControllerNames, WorkerOnly
<1> QED
  BY <1>4, <1>5 DEF ReadVersion

LEMMA OwnEntryFacts ==
  ASSUME NEW c \in Clusters
  PROVE  /\ OwnEntry(c) \in Entries /\ OwnEntry(c).list = ListOf(c)
         /\ OwnEntry(c).cidr = CidrOf[c] /\ OwnEntry(c).by = c
  BY NetworkConstantsAssumption DEF OwnEntry, Entries, Lists, ListOf

LEMMA CreateEntryInv ==
  ASSUME IInv, CreateEntry PROVE IInv'
<1>1. /\ PLE \in Controllers /\ w[PLE].pc = "modify" /\ WorkerOK(PLE) /\ Copy(PLE).phase = "live"
      /\ UNCHANGED objVars
      /\ obj' = obj /\ cache' = cache /\ gateway' = gateway /\ plist' = plist /\ att' = att
      /\ routes' = routes /\ shares' = shares /\ failures' = failures /\ edits' = edits
  BY Caller DEF CreateEntry, objVars, mcVars, boundVars
<1>2. PICK c \in Clusters : c = Cl(PLE)
  BY <1>1 DEF WorkerOK
<1>3. CASE Error(PLE) /\ UNCHANGED entryVars
  BY <1>1, <1>3, ErrorInv DEF awsVars, mcVars, boundVars
<1>4. CASE /\ Addable(ListOf(c), CidrOf[c], w[PLE].version)
           /\ entries' = entries \cup {OwnEntry(c)}
           /\ version' = [version EXCEPT ![ListOf(c)] = @ + 1]
           /\ MarkReady(PLE, PrefixListEntriesReady)
  <2>1. PLE \in obj[c].fins
    BY <1>1, <1>2, ControllerNames DEF WorkerOK, Serving, EntrySteps, Covered
  <2>2. \A b \in Clusters : OwnEntry(b)' = OwnEntry(b)
    BY <1>1 DEF OwnEntry, ListOf
  <2>3. PICK e : e = OwnEntry(c)
    OBVIOUS
  <2>4. e \in Entries /\ e.list = ListOf(c) /\ e.cidr = CidrOf[c] /\ e.by = c
    BY <2>3, OwnEntryFacts
  <2>5. /\ entries' = entries \cup {e}
        /\ e.list = MC => plist
        /\ \A f \in entries : f.list = e.list => f.cidr # e.cidr
    BY <1>4, <2>3, <2>4 DEF Addable, ListExists
  <2>6. TruthStays
    BY <1>1, <2>2, <2>5 DEF TruthStays, GatewayFound
  <2>7. obj[c].phase = "live" => Truthful(c, {PrefixListEntriesReady})'
    BY <2>2, <2>3, <2>5
       DEF Truthful, TransitGatewayAttached, PrefixListEntriesReady, TransitGatewayCreated
  <2>8. /\ Others(PLE) /\ w'[PLE].pc = "status"
        /\ w' \in [Controllers -> Workers] /\ queue' \in [Controllers -> SUBSET Clusters]
        /\ WorkerOK(PLE)'
    BY <1>1, <1>2, <1>4, <2>6, <2>7, ControllerNames, Done DEF NetConditions
  <2>9. version' \in [Lists -> Nat]
    <3>1. version \in [Lists -> Nat] /\ version' = [version EXCEPT ![ListOf(c)] = @ + 1]
      BY <1>4 DEF IInv, TypeOK
    <3>2. PICK l \in Lists : l = ListOf(c)
      BY DEF Lists, ListOf
    <3>3. version[l] + 1 \in Nat
      BY <3>1
    <3> QED
      BY <3>1, <3>2, <3>3
  <2>10. TypeOK'
    BY <1>1, <2>4, <2>5, <2>8, <2>9 DEF IInv, TypeOK
  <2>11. ResourcesInv'
    BY <1>1, <2>5 DEF IInv, ResourcesInv
  <2>12. \A b \in Clusters : Keeps(PLE, b)' => PLE \in obj[b].fins
    <3> SUFFICES ASSUME NEW b \in Clusters, b # c, Keeps(PLE, b)' PROVE PLE \in obj[b].fins
      BY <2>1
    <3>1. OwnEntry(b) # e
      BY <2>4, OwnEntryFacts
    <3>2. OwnEntry(b)' \in entries'
      BY ControllerNames DEF Keeps
    <3>3. Keeps(PLE, b)
      BY <2>2, <2>5, <3>1, <3>2, KeepsCases
    <3> QED
      BY <3>3, ControllerNames DEF IInv, GuardedInv, Covered
  <2> QED
    BY <1>1, <2>6, <2>8, <2>10, <2>11, <2>12, ControllerNames, OwnStep DEF ManagementServes
<1> QED
  BY <1>2, <1>3, <1>4 DEF CreateEntry

LEMMA DeleteEntryInv ==
  ASSUME IInv, DeleteEntry PROVE IInv'
<1>1. /\ PLE \in Controllers /\ w[PLE].pc = "modify" /\ WorkerOK(PLE) /\ Copy(PLE).phase = "deleting"
      /\ UNCHANGED objVars
      /\ obj' = obj /\ cache' = cache /\ gateway' = gateway /\ plist' = plist /\ att' = att
      /\ routes' = routes /\ shares' = shares /\ failures' = failures /\ edits' = edits
  BY Caller DEF DeleteEntry, objVars, mcVars, boundVars
<1>2. PICK c \in Clusters : c = Cl(PLE)
  BY <1>1 DEF WorkerOK
<1>3. CASE Error(PLE) /\ UNCHANGED entryVars
  BY <1>1, <1>3, ErrorInv DEF awsVars, mcVars, boundVars
<1>4. CASE /\ Goto(PLE, "removeFinalizer")
           /\ \/ ~ListExists(ListOf(c)) /\ UNCHANGED entryVars
              \/ /\ ListExists(ListOf(c)) /\ entries' = entries \ AtCidr(c)
                 /\ version' = [version EXCEPT ![ListOf(c)] = @ + 1]
  <2>1. cache[c].phase # "live" /\ obj[c].phase # "live"
    BY <1>1, <1>2, ControllerNames DEF WorkerOK, Releasing, EntrySteps, IInv, VersionsInv
  <2>2. \A b \in Clusters : OwnEntry(b)' = OwnEntry(b)
    BY <1>1 DEF OwnEntry, ListOf
  \* The entry is the one with the CIDR: no other goes with it.
  <2>3. entries' \subseteq entries /\ \A e \in entries : e \in entries' \/ e = OwnEntry(c)
    <3>1. CASE UNCHANGED entryVars
      BY <3>1 DEF entryVars
    <3>2. CASE ListExists(ListOf(c)) /\ entries' = entries \ AtCidr(c)
      <4>1. OwnEntry(c) \in entries
        BY <1>1, <1>2, <3>2 DEF WorkerOK, ListExists, ListOf
      <4>2. \A e \in AtCidr(c) : e = OwnEntry(c)
        BY <4>1, OwnEntryFacts DEF AtCidr, IInv, ResourcesInv
      <4> QED
        BY <3>2, <4>2
    <3> QED
      BY <1>4, <3>1, <3>2
  <2>4. OwnEntry(c) \notin entries'
    <3>1. CASE ~ListExists(ListOf(c)) /\ UNCHANGED entryVars
      BY <3>1, OwnEntryFacts DEF entryVars, ListExists, IInv, ResourcesInv
    <3>2. CASE entries' = entries \ AtCidr(c)
      BY <3>2, OwnEntryFacts DEF AtCidr
    <3> QED
      BY <1>4, <3>1, <3>2
  <2>5. \A b \in Clusters : b # c => OwnEntry(b) # OwnEntry(c)
    BY OwnEntryFacts
  <2>6. TruthStays
    BY <1>1, <2>1, <2>2, <2>3, <2>5 DEF TruthStays, GatewayFound
  <2>7. PICK p : p = Copy(PLE)
    OBVIOUS
  <2>8. /\ Cl(PLE)' = c /\ Copy(PLE)' = p /\ w'[PLE].pc = "removeFinalizer" /\ Others(PLE)
        /\ w' \in [Controllers -> Workers] /\ queue' \in [Controllers -> SUBSET Clusters]
    BY <1>1, <1>2, <1>4, <2>6, <2>7, GoesOn DEF Steps
  <2>9. ~Keeps(PLE, c)'
    BY <2>2, <2>4, ControllerNames DEF Keeps
  <2>10. WorkerOK(PLE)'
    BY <1>1, <2>1, <2>7, <2>8, <2>9, ControllerNames DEF WorkerOK, Serving, EntrySteps
  <2>11. version' \in [Lists -> Nat]
    BY <1>4 DEF IInv, TypeOK, entryVars
  <2>12. TypeOK'
    BY <1>1, <2>3, <2>8, <2>11 DEF IInv, TypeOK
  <2>13. ResourcesInv'
    BY <1>1, <2>3 DEF IInv, ResourcesInv
  <2>14. \A b \in Clusters : Keeps(PLE, b)' => PLE \in obj[b].fins
    <3> SUFFICES ASSUME NEW b \in Clusters, Keeps(PLE, b)' PROVE PLE \in obj[b].fins
      OBVIOUS
    <3>1. OwnEntry(b)' \in entries'
      BY ControllerNames DEF Keeps
    <3>2. Keeps(PLE, b)
      BY <2>2, <2>3, <3>1, KeepsCases
    <3> QED
      BY <3>2, ControllerNames DEF IInv, GuardedInv, Covered
  <2> QED
    BY <1>1, <2>6, <2>8, <2>10, <2>12, <2>13, <2>14, ControllerNames, OwnStep DEF ManagementServes
<1>5. \/ Error(PLE) /\ UNCHANGED entryVars
      \/ /\ Goto(PLE, "removeFinalizer")
         /\ \/ ~ListExists(ListOf(c)) /\ UNCHANGED entryVars
            \/ /\ ListExists(ListOf(c)) /\ entries' = entries \ AtCidr(c)
               /\ version' = [version EXCEPT ![ListOf(c)] = @ + 1]
  BY <1>2 DEF DeleteEntry
<1> QED
  BY <1>3, <1>4, <1>5

LEMMA AddRoutesInv ==
  ASSUME IInv, AddRoutes PROVE IInv'
<1>1. /\ RTC \in Controllers /\ w[RTC].pc = "addRoutes" /\ WorkerOK(RTC) /\ UNCHANGED objVars
      /\ obj' = obj /\ cache' = cache /\ gateway' = gateway /\ plist' = plist /\ att' = att
      /\ entries' = entries /\ version' = version /\ shares' = shares
      /\ failures' = failures /\ edits' = edits
  BY Caller DEF AddRoutes, objVars, mcVars, entryVars, boundVars
<1>2. PICK c \in Clusters : c = Cl(RTC)
  BY <1>1 DEF WorkerOK
<1>3. CASE Error(RTC) /\ routes' = routes
  BY <1>1, <1>3, ErrorInv DEF awsVars, mcVars, entryVars, boundVars
<1>4. CASE Return(RTC) /\ routes' = routes
  <2>1. /\ w' \in [Controllers -> Workers] /\ queue' \in [Controllers -> SUBSET Clusters]
        /\ Others(RTC) /\ w'[RTC].pc = "idle"
    BY <1>1, <1>4, ReturnFacts, IdleType DEF IInv, TypeOK
  <2>2. /\ UNCHANGED <<objVars, awsVars>> /\ failures' \in 0..MaxFailures /\ edits' \in 0..MaxEdits
    BY <1>1, <1>4 DEF awsVars, mcVars, entryVars, IInv, TypeOK
  <2> QED
    BY <1>1, <2>1, <2>2, WorkerOnly, ControllerNames
<1>5. CASE /\ \E t \in RouteTablesOf(Copy(RTC)) : routes' = [routes EXCEPT ![c] = @ \cup {t}]
           /\ Goto(RTC, "addRoutes")
  <2>1. PICK t \in RouteTablesOf(Copy(RTC)) : routes' = [routes EXCEPT ![c] = @ \cup {t}]
    BY <1>5
  <2>2. t \in Tables /\ Copy(RTC).network = "ready"
    BY <2>1 DEF RouteTablesOf
  <2>3. RTC \in obj[c].fins /\ cache[c].network = "ready"
    BY <1>1, <1>2, <2>2, ControllerNames DEF WorkerOK, Serving, Covered
  <2>4. /\ routes' \in [Clusters -> SUBSET Tables]
        /\ \A b \in Clusters : b # c => routes'[b] = routes[b]
    BY <2>1, <2>2 DEF IInv, TypeOK
  <2>5. TruthStays
    BY <1>1 DEF TruthStays, OwnEntry, ListOf, GatewayFound
  <2>6. PICK p : p = Copy(RTC)
    OBVIOUS
  <2>7. /\ Cl(RTC)' = c /\ Copy(RTC)' = p /\ w'[RTC].pc = "addRoutes" /\ Others(RTC)
        /\ w' \in [Controllers -> Workers] /\ queue' \in [Controllers -> SUBSET Clusters]
        /\ obj[c].phase = "live" => Truthful(c, p.conds)'
    BY <1>1, <1>2, <1>5, <2>5, <2>6, GoesOn DEF Steps
  <2>8. WorkerOK(RTC)'
    BY <1>1, <2>3, <2>6, <2>7, ControllerNames DEF WorkerOK, Releasing, EntrySteps
  <2>9. TypeOK' /\ ResourcesInv'
    BY <1>1, <2>3, <2>4, <2>7 DEF IInv, TypeOK, ResourcesInv
  <2>10. \A b \in Clusters : Keeps(RTC, b)' => RTC \in obj[b].fins
    <3> SUFFICES ASSUME NEW b \in Clusters, b # c, Keeps(RTC, b)' PROVE RTC \in obj[b].fins
      BY <2>3
    <3>1. routes'[b] # {}
      BY ControllerNames DEF Keeps
    <3>2. Keeps(RTC, b)
      BY <2>4, <3>1, KeepsCases
    <3> QED
      BY <3>2, ControllerNames DEF IInv, GuardedInv, Covered
  <2> QED
    BY <1>1, <2>5, <2>7, <2>8, <2>9, <2>10, ControllerNames, OwnStep DEF ManagementServes
<1> QED
  BY <1>2, <1>3, <1>4, <1>5 DEF AddRoutes

LEMMA RemoveRoutesInv ==
  ASSUME IInv, RemoveRoutes PROVE IInv'
<1>1. /\ RTC \in Controllers /\ w[RTC].pc = "removeRoutes" /\ WorkerOK(RTC) /\ UNCHANGED objVars
      /\ obj' = obj /\ cache' = cache /\ gateway' = gateway /\ plist' = plist /\ att' = att
      /\ entries' = entries /\ version' = version /\ shares' = shares
      /\ failures' = failures /\ edits' = edits
  BY Caller DEF RemoveRoutes, objVars, mcVars, entryVars, boundVars
<1>2. PICK c \in Clusters : c = Cl(RTC)
  BY <1>1 DEF WorkerOK
<1>3. PICK l \in {"removeRoutes", "removeFinalizer"} :
        /\ Goto(RTC, l)
        /\ l = "removeFinalizer" => routes' = routes /\ RouteTablesOf(Copy(RTC)) \cap routes[c] = {}
        /\ \/ routes' = routes
           \/ \E t \in Tables : routes' = [routes EXCEPT ![c] = @ \ {t}]
  <2>1. CASE RouteTablesOf(Copy(RTC)) \cap routes[c] = {} /\ Goto(RTC, "removeFinalizer") /\ routes' = routes
    BY <2>1
  <2>2. CASE /\ \E t \in RouteTablesOf(Copy(RTC)) : routes' = [routes EXCEPT ![c] = @ \ {t}]
             /\ Goto(RTC, "removeRoutes")
    BY <2>2 DEF RouteTablesOf
  <2> QED
    BY <1>2, <2>1, <2>2 DEF RemoveRoutes
<1>4. cache[c].phase # "live" /\ obj[c].phase # "live"
  BY <1>1, <1>2, ControllerNames DEF WorkerOK, Releasing, IInv, VersionsInv
<1>5. /\ routes' \in [Clusters -> SUBSET Tables]
      /\ \A b \in Clusters : routes'[b] \subseteq routes[b]
  BY <1>3 DEF IInv, TypeOK
<1>6. l = "removeFinalizer" => routes'[c] = {}
  <2>1. routes[c] # {} => RouteTablesOf(Copy(RTC)) \cap routes[c] # {}
    BY <1>1, <1>2 DEF WorkerOK, RouteTablesOf, IInv, TypeOK
  <2> QED
    BY <1>3, <2>1
<1>7. TruthStays
  BY <1>1 DEF TruthStays, OwnEntry, ListOf, GatewayFound
<1>8. PICK p : p = Copy(RTC)
  OBVIOUS
<1>9. /\ Cl(RTC)' = c /\ Copy(RTC)' = p /\ w'[RTC].pc = l /\ Others(RTC)
      /\ w' \in [Controllers -> Workers] /\ queue' \in [Controllers -> SUBSET Clusters]
  BY <1>1, <1>2, <1>3, <1>7, <1>8, GoesOn DEF Steps
<1>10. ~Keeps(RTC, c)' <=> routes'[c] = {}
  BY ControllerNames DEF Keeps
<1>11. routes'[c] # {} => p.network = "ready"
  BY <1>1, <1>2, <1>5, <1>8 DEF WorkerOK
<1>12. WorkerOK(RTC)'
  BY <1>1, <1>4, <1>6, <1>8, <1>9, <1>10, <1>11, ControllerNames DEF WorkerOK, Serving, EntrySteps
<1>13. TypeOK' /\ ResourcesInv'
  BY <1>1, <1>5, <1>9 DEF IInv, TypeOK, ResourcesInv
<1>14. \A b \in Clusters : Keeps(RTC, b)' => RTC \in obj[b].fins
  <2> SUFFICES ASSUME NEW b \in Clusters, Keeps(RTC, b)' PROVE RTC \in obj[b].fins
    OBVIOUS
  <2>1. routes'[b] # {}
    BY ControllerNames DEF Keeps
  <2>2. Keeps(RTC, b)
    BY <1>5, <2>1, KeepsCases
  <2> QED
    BY <2>2, ControllerNames DEF IInv, GuardedInv, Covered
<1> QED
  BY <1>1, <1>7, <1>9, <1>12, <1>13, <1>14, ControllerNames, OwnStep DEF ManagementServes

\* A call to RAM.  The shares of the other clusters stay, those of the cluster
\* grow under the finalizer or shrink in the deletion.
LEMMA ShareCallInv ==
  ASSUME IInv, SHR \in Controllers, w[SHR].pc # "idle", NEW c \in Clusters, c = Cl(SHR),
         NEW x \in SUBSET Arns, shares' = [shares EXCEPT ![c] = x], UNCHANGED shareFrame,
         Covered(SHR) => x \subseteq shares[c] \/ SHR \in obj[c].fins,
         NEW l, w'[SHR].pc = l, l \in {"idle", "sharePl", "unsharePl", "removeFinalizer"},
         l # "idle" => Goto(SHR, l), l = "idle" => Return(SHR) \/ Requeue(SHR),
         l = "sharePl" => Serving(SHR),
         l \in {"unsharePl", "removeFinalizer"} => w[SHR].pc \in {"unshareTgw", "unsharePl"},
         l = "unsharePl" => "tgw" \notin x, l = "removeFinalizer" => x = {}
  PROVE  IInv'
<1>1. /\ UNCHANGED objVars /\ obj' = obj /\ cache' = cache /\ gateway' = gateway /\ plist' = plist
      /\ att' = att /\ entries' = entries /\ version' = version /\ routes' = routes
      /\ failures' = failures /\ edits' = edits
  BY DEF shareFrame, objVars, mcVars, entryVars, boundVars
<1>2. /\ shares' \in [Clusters -> SUBSET Arns]
      /\ \A b \in Clusters : shares'[b] = IF b = c THEN x ELSE shares[b]
  BY DEF IInv, TypeOK
<1>3. TruthStays
  BY <1>1 DEF TruthStays, OwnEntry, ListOf, GatewayFound
<1>4. WorkerOK(SHR)
  BY DEF IInv, WorkerInv
<1>5. PICK p : p = Copy(SHR)
  OBVIOUS
<1>6. /\ l # "idle" => /\ Cl(SHR)' = c /\ Copy(SHR)' = p
                       /\ obj[c].phase = "live" => Truthful(c, p.conds)'
      /\ Others(SHR)
      /\ w' \in [Controllers -> Workers] /\ queue' \in [Controllers -> SUBSET Clusters]
  <2>1. CASE l # "idle"
    BY <1>1, <1>3, <1>5, <2>1, GoesOn DEF Steps
  <2>2. CASE l = "idle"
    BY <1>4, <2>2, ReturnFacts, RequeueFacts DEF IInv, TypeOK
  <2> QED
    BY <2>1, <2>2
<1>7. l = "removeFinalizer" => ~Keeps(SHR, c)'
  BY <1>2, ControllerNames DEF Keeps
<1>8. ASSUME l # "idle" PROVE WorkerOK(SHR)'
  <2>1. Serving(SHR)' => Serving(SHR)
    BY <1>8 DEF Serving, EntrySteps
  <2>2. Releasing(SHR)' => Releasing(SHR)
    BY <1>8 DEF Releasing, EntrySteps
  <2>3. l \in {"sharePl", "unsharePl", "removeFinalizer"}
    BY <1>8
  <2> QED
    BY <1>1, <1>2, <1>4, <1>5, <1>6, <1>7, <2>1, <2>2, <2>3, ControllerNames
       DEF WorkerOK, Covered
<1>9. TypeOK' /\ ResourcesInv'
  BY <1>1, <1>2, <1>6 DEF IInv, TypeOK, ResourcesInv
<1>10. \A b \in Clusters : (Covered(SHR) /\ Keeps(SHR, b)') => SHR \in obj[b].fins
  <2> SUFFICES ASSUME NEW b \in Clusters, Covered(SHR), Keeps(SHR, b)', SHR \notin obj[b].fins
               PROVE  FALSE
    OBVIOUS
  <2>1. shares'[b] # {}
    BY ControllerNames DEF Keeps
  <2>2. Keeps(SHR, b)
    BY <1>2, <2>1, KeepsCases
  <2> QED
    BY <2>2, ControllerNames DEF IInv, GuardedInv
<1> QED
  BY <1>1, <1>3, <1>6, <1>8, <1>9, <1>10, ControllerNames, OwnStep DEF ManagementServes

LEMMA ShareCaller ==
  ASSUME IInv, NEW l, l # "idle", Call(SHR, l)
  PROVE  /\ SHR \in Controllers /\ w[SHR].pc = l /\ WorkerOK(SHR)
         /\ Cl(SHR) \in Clusters /\ shares[Cl(SHR)] \in SUBSET Arns
         /\ shares \in [Clusters -> SUBSET Arns]
<1>1. SHR \in Controllers /\ w[SHR].pc = l /\ WorkerOK(SHR) /\ Cl(SHR) \in Clusters
  BY Caller
<1> QED
  BY <1>1 DEF IInv, TypeOK

LEMMA ShareTransitGatewayInv ==
  ASSUME IInv, ShareTransitGateway PROVE IInv'
<1>1. /\ SHR \in Controllers /\ w[SHR].pc = "shareTgw" /\ WorkerOK(SHR)
      /\ shares \in [Clusters -> SUBSET Arns] /\ UNCHANGED shareFrame
  BY ShareCaller DEF ShareTransitGateway
<1>2. PICK c \in Clusters : c = Cl(SHR)
  BY <1>1 DEF WorkerOK
<1>3. PICK x \in SUBSET Arns : shares' = [shares EXCEPT ![c] = x]
  <2>1. shares = [shares EXCEPT ![c] = shares[c]]
    BY <1>1
  <2>2. shares[c] \cup {"tgw"} \in SUBSET Arns
    BY <1>1
  <2> QED
    BY <1>1, <1>2, <2>1, <2>2 DEF ShareTransitGateway, ApplyResourceShare
<1>4. Serving(SHR) /\ (Covered(SHR) => SHR \in obj[c].fins)
  BY <1>1, <1>2 DEF WorkerOK, Serving
<1>5. CASE Goto(SHR, "sharePl")
  <2>1. w'[SHR].pc = "sharePl"
    BY <1>1, <1>5, GotoFacts DEF IInv, Steps
  <2> QED
    BY <1>1, <1>2, <1>3, <1>4, <1>5, <2>1, ShareCallInv
<1>6. CASE Requeue(SHR)
  <2>1. w'[SHR].pc = "idle"
    BY <1>1, <1>2, <1>6, RequeueFacts, IdleType DEF IInv
  <2> QED
    BY <1>1, <1>2, <1>3, <1>4, <1>6, <2>1, ShareCallInv
<1> QED
  BY <1>5, <1>6 DEF ShareTransitGateway

LEMMA SharePrefixListInv ==
  ASSUME IInv, SharePrefixList PROVE IInv'
<1>1. /\ SHR \in Controllers /\ w[SHR].pc = "sharePl" /\ WorkerOK(SHR)
      /\ shares \in [Clusters -> SUBSET Arns] /\ UNCHANGED shareFrame
  BY ShareCaller DEF SharePrefixList
<1>2. PICK c \in Clusters : c = Cl(SHR)
  BY <1>1 DEF WorkerOK
<1>3. PICK x \in SUBSET Arns : shares' = [shares EXCEPT ![c] = x]
  <2>1. shares = [shares EXCEPT ![c] = shares[c]]
    BY <1>1
  <2>2. shares[c] \cup {"pl"} \in SUBSET Arns
    BY <1>1
  <2> QED
    BY <1>1, <1>2, <2>1, <2>2 DEF SharePrefixList, ApplyResourceShare
<1>4. Covered(SHR) => SHR \in obj[c].fins
  BY <1>1, <1>2 DEF WorkerOK, Serving
<1>5. Return(SHR) \/ Requeue(SHR)
  BY DEF SharePrefixList
<1>6. w'[SHR].pc = "idle"
  BY <1>1, <1>2, <1>5, ReturnFacts, RequeueFacts, IdleType DEF IInv
<1> QED
  BY <1>1, <1>2, <1>3, <1>4, <1>5, <1>6, ShareCallInv

LEMMA UnshareTransitGatewayInv ==
  ASSUME IInv, UnshareTransitGateway PROVE IInv'
<1>1. /\ SHR \in Controllers /\ w[SHR].pc = "unshareTgw" /\ WorkerOK(SHR)
      /\ shares \in [Clusters -> SUBSET Arns] /\ UNCHANGED shareFrame /\ Goto(SHR, "unsharePl")
  BY ShareCaller DEF UnshareTransitGateway
<1>2. PICK c \in Clusters : c = Cl(SHR)
  BY <1>1 DEF WorkerOK
<1>3. PICK x : x = shares[c] \ {"tgw"}
  OBVIOUS
<1>4. /\ x \in SUBSET Arns /\ x \subseteq shares[c] /\ "tgw" \notin x
      /\ shares' = [shares EXCEPT ![c] = x]
  BY <1>1, <1>2, <1>3 DEF UnshareTransitGateway, DeleteResourceShare
<1>5. w'[SHR].pc = "unsharePl"
  BY <1>1, GotoFacts DEF IInv, Steps
<1> QED
  BY <1>1, <1>2, <1>4, <1>5, ShareCallInv

LEMMA UnsharePrefixListInv ==
  ASSUME IInv, UnsharePrefixList PROVE IInv'
<1>1. /\ SHR \in Controllers /\ w[SHR].pc = "unsharePl" /\ WorkerOK(SHR)
      /\ shares \in [Clusters -> SUBSET Arns] /\ UNCHANGED shareFrame /\ Goto(SHR, "removeFinalizer")
  BY ShareCaller DEF UnsharePrefixList
<1>2. PICK c \in Clusters : c = Cl(SHR)
  BY <1>1 DEF WorkerOK
<1>3. PICK x : x = shares[c] \ {"pl"}
  OBVIOUS
<1>4. "tgw" \notin shares[c]
  BY <1>1, <1>2 DEF WorkerOK
<1>5. /\ x \in SUBSET Arns /\ x \subseteq shares[c] /\ x = {}
      /\ shares' = [shares EXCEPT ![c] = x]
  BY <1>1, <1>2, <1>3, <1>4 DEF UnsharePrefixList, DeleteResourceShare
<1>6. w'[SHR].pc = "removeFinalizer"
  BY <1>1, GotoFacts DEF IInv, Steps
<1> QED
  BY <1>1, <1>2, <1>5, <1>6, ShareCallInv

-----------------------------------------------------------------------------
(* The theorems.                                                           *)

LEMMA InitInv ==
  ASSUME Init PROVE IInv
<1>1. /\ \A c \in Clusters :
           /\ obj[c] \in [phase : {"live"}, rv : {0}, fins : {OtherFinalizers}, conds : {{}},
                          mode : Modes, paused : {FALSE}, network : Networks,
                          arns : UserArns \cup {{}}]
           /\ c = MC => obj[c].arns = {}
      /\ obj = [c \in Clusters |-> obj[c]]
      /\ cache = obj
  BY DEF Init
<1>2. /\ w = [k \in Controllers |-> Idle] /\ queue = [k \in Controllers |-> Clusters]
      /\ MC \in Clusters => gateway = "none" /\ plist = FALSE
      /\ gateway \in {"none", "available"} /\ plist \in BOOLEAN
      /\ att = [c \in Clusters |-> "none"] /\ entries = {} /\ version = [l \in Lists |-> 0]
      /\ routes = [c \in Clusters |-> {}] /\ shares = [c \in Clusters |-> {}]
      /\ failures = 0 /\ edits = 0
  BY DEF Init
<1>3. ASSUME NEW c \in Clusters
      PROVE  /\ obj[c] \in NetClusters /\ obj[c].phase = "live" /\ obj[c].rv = 0
             /\ obj[c].conds = {}
             /\ (c = MC \/ NoLoneList) => Paired(obj[c].arns)
  <2>1. /\ obj[c] \in NetClusters /\ obj[c].phase = "live" /\ obj[c].rv = 0 /\ obj[c].conds = {}
        /\ obj[c].arns \in UserArns \cup {{}}
    <3>1. PICK o : o = obj[c]
      OBVIOUS
    <3>2. /\ o.phase = "live" /\ o.rv = 0 /\ o.fins = OtherFinalizers /\ o.conds = {}
          /\ o.mode \in Modes /\ o.paused = FALSE /\ o.network \in Networks
          /\ o.arns \in UserArns \cup {{}}
          /\ o = [phase |-> o.phase, rv |-> o.rv, fins |-> o.fins, conds |-> o.conds,
                  mode |-> o.mode, paused |-> o.paused, network |-> o.network, arns |-> o.arns]
      BY <1>1, <3>1
    <3>3. o.network \in {"none", "vpc", "ready"} /\ o.arns \in SUBSET Arns
      BY <3>2, NetworkConstantsAssumption
    <3>4. /\ o.phase \in {"live", "deleting", "gone"} /\ o.rv \in Nat
          /\ o.fins \in SUBSET (OtherFinalizers \cup Controllers)
          /\ o.conds \in SUBSET {TransitGatewayAttached, PrefixListEntriesReady,
                                 TransitGatewayCreated, InProgress}
      BY <3>2
    <3>5. o.paused \in BOOLEAN
      BY <3>2, Zenon
    <3>6. o \in NetClusters
      BY <3>2, <3>3, <3>4, <3>5 DEF NetClusters
    <3> QED
      BY <3>1, <3>2, <3>6
  <2> QED
    BY <1>1, <2>1 DEF NoLoneList, Paired
<1>4. TypeOK
  BY <1>1, <1>2, <1>3, IdleType, NetworkConstantsAssumption DEF TypeOK
<1>5. VersionsInv
  BY <1>1, <1>3 DEF VersionsInv
<1>6. GuardedInv
  <2>1. \A k \in AllControllers, c \in Clusters : ~Keeps(k, c)
    BY <1>2, ControllerNames, KeepsCases
  <2> QED
    BY <2>1 DEF GuardedInv
<1>7. ResourcesInv
  BY <1>2 DEF ResourcesInv
<1>8. ConditionsInv
  BY <1>1, <1>3 DEF ConditionsInv, Truthful
<1>9. WorkerInv
  BY <1>2, IdleType DEF WorkerInv
<1> QED
  BY <1>4, <1>5, <1>6, <1>7, <1>8, <1>9 DEF IInv

LEMMA StutterInv ==
  ASSUME IInv, UNCHANGED vars PROVE IInv'
<1>1. /\ obj' = obj /\ cache' = cache /\ w' = w /\ queue' = queue /\ gateway' = gateway
      /\ plist' = plist /\ att' = att /\ entries' = entries /\ version' = version
      /\ routes' = routes /\ shares' = shares /\ failures' = failures /\ edits' = edits
      /\ UNCHANGED <<objVars, workVars>>
  BY DEF vars, objVars, workVars, awsVars, mcVars, entryVars, boundVars
<1>2. TypeOK' /\ ResourcesInv' /\ GatewayFound' = GatewayFound
  BY <1>1 DEF IInv, TypeOK, ResourcesInv, GatewayFound
<1> QED
  BY <1>1, <1>2, EnvStep

LEMMA NextInv ==
  ASSUME IInv, [Next]_vars PROVE IInv'
<1>1. CASE UNCHANGED vars
  BY <1>1, StutterInv
<1>2. ASSUME NEW k \in Controllers,
             AddFinalizerCall(k) \/ RemoveFinalizerCall(k) \/ UpdateStatus(k) \/ Fail(k)
      PROVE  IInv'
  BY <1>2, AddFinalizerCallInv, RemoveFinalizerCallInv, UpdateStatusInv, FailInv
<1>3. CASE ManagementWorker
  BY <1>3, ManagementReconcileInv, ApplyGatewayInv, AnnotateGatewayInv, ApplyPrefixListInv,
     AnnotateListInv, DeleteGatewayInv, DeletePrefixListInv DEF ManagementWorker
<1>4. CASE AttachmentWorker
  BY <1>4, AttachmentReconcileInv, ApplyAttachmentInv, DetachInv DEF AttachmentWorker
<1>5. CASE EntryWorker
  BY <1>5, EntryReconcileInv, EntryExistsInv, ReadVersionInv, CreateEntryInv, DeleteEntryInv
     DEF EntryWorker
<1>6. CASE RouteWorker
  BY <1>6, RouteReconcileInv, AddRoutesInv, RemoveRoutesInv DEF RouteWorker
<1>7. CASE ShareWorker
  BY <1>7, ShareReconcileInv, ShareTransitGatewayInv, SharePrefixListInv,
     UnshareTransitGatewayInv, UnsharePrefixListInv DEF ShareWorker
<1>8. CASE Restart \/ OthersModify \/ GatewayReady
  BY <1>8, RestartInv, OthersModifyInv, GatewayReadyInv
<1>9. ASSUME NEW c \in Clusters,
             Observe(c) \/ RequestDeletion(c) \/ ReleaseOther(c) \/ Edit(c) \/ AttachmentFades(c)
      PROVE  IInv'
  BY <1>9, ObserveInv, RequestDeletionInv, ReleaseOtherInv, EditInv, AttachmentFadesInv
<1> QED
  BY <1>1, <1>2, <1>3, <1>4, <1>5, <1>6, <1>7, <1>8, <1>9 DEF Next

\* The inductive invariant holds: for any set of clusters, any of the five
\* controllers, any number of failures, restarts and edits.
THEOREM NetworkInvariance == Spec => []IInv
<1>1. Init => IInv
  BY InitInv
<1>2. IInv /\ [Next]_vars => IInv'
  BY NextInv
<1> QED
  BY <1>1, <1>2, PTL DEF Spec

\* The state of the five controllers has its type: the finalizers are those of
\* controllers that run, the ARNs and versions read are kept whole.
THEOREM NetworkTypeCorrect == Spec => []TypeOK
<1>1. IInv => TypeOK
  BY DEF IInv
<1> QED
  BY <1>1, NetworkInvariance, PTL

\* UpdateStatus stores the conditions of a copy that may be old
\* (transit_gateway_attachment.go, prefix_list_entry.go,
\* management_cluster_network.go): still no condition of a live cluster claims
\* what it does not have.
THEOREM ConditionsAlwaysTruthful == Spec => []ConditionsTruthful
<1>1. IInv => ConditionsTruthful
  BY DEF IInv, ConditionsInv, Truthful, ConditionsTruthful
<1> QED
  BY <1>1, NetworkInvariance, PTL

\* Nobody but the share controller touches the shares.
LEMMA OthersKeepShares ==
  ASSUME [Next]_vars, ~ShareWorker PROVE shares' = shares
<1> USE DEF awsVars
<1>1. ASSUME NEW k \in Controllers,
             AddFinalizerCall(k) \/ RemoveFinalizerCall(k) \/ UpdateStatus(k) \/ Fail(k)
      PROVE  shares' = shares
  BY <1>1 DEF AddFinalizerCall, RemoveFinalizerCall, UpdateStatus, Fail
<1>2. CASE ManagementWorker
  BY <1>2 DEF ManagementWorker, ManagementReconcile, ApplyGateway, AnnotateGateway,
     ApplyPrefixList, AnnotateList, DeleteGateway, DeletePrefixList
<1>3. CASE AttachmentWorker
  BY <1>3 DEF AttachmentWorker, AttachmentReconcile, ApplyAttachment, Detach
<1>4. CASE EntryWorker
  BY <1>4 DEF EntryWorker, EntryReconcile, EntryExists, ReadVersion, CreateEntry, DeleteEntry
<1>5. CASE RouteWorker
  BY <1>5 DEF RouteWorker, RouteReconcile, AddRoutes, RemoveRoutes
<1>6. CASE Restart \/ OthersModify \/ GatewayReady \/ UNCHANGED vars
  BY <1>6 DEF Restart, OthersModify, GatewayReady, vars
<1>7. ASSUME NEW c \in Clusters,
             Observe(c) \/ RequestDeletion(c) \/ ReleaseOther(c) \/ Edit(c) \/ AttachmentFades(c)
      PROVE  shares' = shares
  BY <1>7 DEF Observe, RequestDeletion, ReleaseOther, Edit, AttachmentFades
<1> QED
  BY <1>1, <1>2, <1>3, <1>4, <1>5, <1>6, <1>7 DEF Next

\* A share that goes is that of a cluster without attachment and entry.
SharesStep ==
  \A c \in Clusters :
    ~(shares[c] \subseteq shares'[c]) => att[c] # "available" /\ OwnEntry(c) \notin entries

LEMMA SharesStepHolds ==
  ASSUME IInv, [Next]_vars PROVE SharesStep
<1>1. CASE shares' = shares
  BY <1>1 DEF SharesStep
<1>2. CASE UnshareTransitGateway \/ UnsharePrefixList
  <2>1. /\ SHR \in Controllers /\ w[SHR].pc \in {"unshareTgw", "unsharePl"} /\ WorkerOK(SHR)
        /\ Cl(SHR) \in Clusters /\ shares \in [Clusters -> SUBSET Arns]
    BY <1>2, ShareCaller DEF UnshareTransitGateway, UnsharePrefixList
  <2>2. \A c \in Clusters : c # Cl(SHR) => shares'[c] = shares[c]
    BY <1>2, <2>1 DEF UnshareTransitGateway, UnsharePrefixList, DeleteResourceShare
  <2>3. TGA \notin obj[Cl(SHR)].fins /\ PLE \notin obj[Cl(SHR)].fins
    BY <2>1, ControllerNames DEF WorkerOK
  <2>4. ~Keeps(TGA, Cl(SHR)) /\ ~Keeps(PLE, Cl(SHR))
    BY <2>1, <2>3, ControllerNames DEF IInv, GuardedInv, Covered
  <2> QED
    BY <2>2, <2>4, KeepsCases DEF SharesStep
<1>3. CASE ShareTransitGateway \/ SharePrefixList
  <2>1. shares \in [Clusters -> SUBSET Arns]
    BY DEF IInv, TypeOK
  <2> QED
    BY <1>3, <2>1 DEF ShareTransitGateway, SharePrefixList, ApplyResourceShare, SharesStep
<1>4. CASE \E c \in Clusters : ShareReconcile(c)
  <2>1. shares' = shares
    BY <1>4 DEF ShareReconcile, awsVars
  <2> QED
    BY <1>1, <2>1
<1> QED
  BY <1>1, <1>2, <1>3, <1>4, OthersKeepShares DEF ShareWorker

\* share.go reads the finalizers of the other two controllers in a cached copy,
\* and they work on the cluster meanwhile: a share is still never taken away
\* from a cluster that has its attachment or its entry.
THEOREM SharesAlwaysOutliveUse == Spec => SharesOutliveUse
<1>1. IInv /\ [Next]_vars => [SharesStep]_vars
  BY SharesStepHolds
<1> QED
  BY <1>1, NetworkInvariance, PTL DEF Spec, SharesOutliveUse, SharesStep
=============================================================================
