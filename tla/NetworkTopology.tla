--------------------------- MODULE NetworkTopology ---------------------------
(***************************************************************************)
(* The network topology: the five controllers at work on the same          *)
(* AWSClusters, each with its worker and its finalizer, and what they owe  *)
(* to each other.  No controller calls another; they meet in the finalizers*)
(* and annotations of the AWSCluster and in what AWS accepts.              *)
(***************************************************************************)
EXTENDS ManagementClusterNetwork, TransitGatewayAttachment, PrefixListEntry,
        RouteTables, ResourceShares

\* Every step of a controller's worker.
Worker(k) ==
  \/ AddFinalizerCall(k) \/ RemoveFinalizerCall(k) \/ UpdateStatus(k)
  \/ k = MCN /\ ManagementWorker
  \/ k = TGA /\ AttachmentWorker
  \/ k = PLE /\ EntryWorker
  \/ k = RTC /\ RouteWorker
  \/ k = SHR /\ ShareWorker

Next ==
  \/ \E k \in Controllers : AddFinalizerCall(k) \/ RemoveFinalizerCall(k) \/ UpdateStatus(k)
  \/ ManagementWorker \/ AttachmentWorker \/ EntryWorker \/ RouteWorker \/ ShareWorker
  \/ \E k \in Controllers : Fail(k)
  \/ Restart \/ OthersModify \/ GatewayReady
  \/ \E c \in Clusters : \/ Observe(c) \/ RequestDeletion(c) \/ ReleaseOther(c)
                         \/ Edit(c) \/ AttachmentFades(c)

Spec == Init /\ [][Next]_vars

\* Workers go on, the cache catches up, and EC2 finishes what it has begun.
\* Nobody else has to do anything but the infrastructure controller, which lets
\* a deleted cluster go.
FairSpec ==
  /\ Spec
  /\ \A k \in Controllers : WF_vars(Worker(k))
  /\ WF_vars(GatewayReady)
  /\ \A c \in Clusters :
       WF_vars(Observe(c)) /\ WF_vars(AttachmentFades(c)) /\ WF_vars(ReleaseOther(c))

-----------------------------------------------------------------------------
\* What a controller keeps for a cluster.
Keeps(k, c) ==
  CASE k = MCN -> c = MC /\ (gateway \in {"pending", "available"} \/ plist)
    [] k = TGA -> att[c] = "available"
    [] k = PLE -> OwnEntry(c) \in entries
    [] k = RTC -> routes[c] # {}
    [] k = SHR -> shares[c] # {}

phases     == [c \in Clusters |-> obj[c].phase]
Guarded(k) == [c \in Clusters |-> k \in obj[c].fins]
Kept(k)    == [c \in Clusters |-> Keeps(k, c)]

GuardMCN == INSTANCE GuardedResource WITH
  Objects <- Clusters, phase <- phases,
  guarded <- Guarded(MCN), resource <- Kept(MCN)
GuardTGA == INSTANCE GuardedResource WITH
  Objects <- Clusters, phase <- phases,
  guarded <- Guarded(TGA), resource <- Kept(TGA)
GuardPLE == INSTANCE GuardedResource WITH
  Objects <- Clusters, phase <- phases,
  guarded <- Guarded(PLE), resource <- Kept(PLE)
GuardRTC == INSTANCE GuardedResource WITH
  Objects <- Clusters, phase <- phases,
  guarded <- Guarded(RTC), resource <- Kept(RTC)
GuardSHR == INSTANCE GuardedResource WITH
  Objects <- Clusters, phase <- phases,
  guarded <- Guarded(SHR), resource <- Kept(SHR)

\* No user annotates a cluster with a prefix list of his own and no transit
\* gateway: ResourceShares shares such a list without the finalizer.
NoLoneList == \A a \in UserArns : "pl" \in a => "tgw" \in a

\* Each controller is a GuardedResource with a finalizer of its own: whatever
\* the other controllers write to the AWSCluster meanwhile, nothing is made in
\* AWS without the finalizer, nothing is taken away before the deletion, and
\* the finalizer does not go before the resource.
GuardsNetwork ==
  GuardMCN!Spec /\ GuardTGA!Spec /\ GuardPLE!Spec /\ GuardRTC!Spec /\ GuardSHR!Spec

\* share.go: a share is taken away only when the cluster has neither an
\* attachment nor an entry any more, although the share controller decides on
\* a cached copy and the others work at the same time.
SharesOutliveUse ==
  [][\A c \in Clusters :
       ~(shares[c] \subseteq shares'[c]) =>
         att[c] # "available" /\ OwnEntry(c) \notin entries]_vars

\* A condition says what is so: stored by a deferred update from a copy that
\* may be old, it never claims an attachment, an entry or a gateway that a live
\* cluster does not have.
ConditionsTruthful ==
  \A c \in Clusters : obj[c].phase = "live" =>
    /\ TransitGatewayAttached \in obj[c].conds => att[c] = "available"
    /\ PrefixListEntriesReady \in obj[c].conds => OwnEntry(c) \in entries
    /\ TransitGatewayCreated \in obj[c].conds =>
         c = MC /\ gateway \in {"pending", "available"} /\ "tgw" \in obj[c].arns

\* The clusters these controllers have to connect, and those they have to let go.
Wanted(c) ==
  /\ obj[c].phase = "live" /\ obj[c].mode = "GiantSwarmManaged"
  /\ ~obj[c].paused /\ obj[c].network = "ready"
Leaving(c) == obj[c].phase = "deleting" /\ ~obj[c].paused

\* There is room for the entry of c, and no other entry with its CIDR.
Admissible(c) ==
  \/ OwnEntry(c) \in entries
  \/ AtCidr(c) = {} /\ Cardinality({e \in entries : e.list = ListOf(c)}) < MaxEntries

Connected(c) ==
  /\ TGA \in Controllers => att[c] = "available"
  /\ PLE \in Controllers => OwnEntry(c) \in entries
  /\ RTC \in Controllers => routes[c] = Tables
  /\ SHR \in Controllers => shares[c] = (IF c \in SameAccount THEN {} ELSE Arns)

\* A cluster that is to be connected is: the controllers wait for each other's
\* work in AWS by retries alone, and each event they rely on arrives.
EventuallyConnected ==
  \A c \in Clusters : <>[](Wanted(c) /\ Admissible(c)) => <>[]Connected(c)

\* Another's entry has the CIDR of c: entryExists fails for c.
Conflicted(c) == \E e \in AtCidr(c) : e # OwnEntry(c)

\* A deleted cluster is let go by all controllers, in whatever order they run,
\* unless the prefix list keeps an entry of another with its CIDR: DeleteEntry
\* fails as long as that is there.
NetworkReleased == \A c \in Clusters : []<>~(Leaving(c) /\ ~Conflicted(c))
=============================================================================
