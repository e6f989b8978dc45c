# TLA+ verification of aws-resolver-rules-operator

TLA+ models of the operator's controllers, TLC configurations that check them on
small instances, and TLAPS proofs of the properties that matter most for every
instance. `PROJECT.json` lists the runs, the source lines each definition models,
the findings, the hazards and the theorems.

## 1. The system

One Go process (`main.go`) runs a controller-runtime manager. Each controller has
one worker and a work queue of its own, so a controller never reconciles two
objects at once, but different controllers run side by side. Workers read
Kubernetes objects from an informer cache that lags the API server; Secrets,
ConfigMaps and unstructured objects are read from the API server. A
reconciliation that returns an error is queued again with back-off. Every watched
object is offered again at each resync (`sync-period`, two minutes), but the
resolver rules, DNS and network controllers filter their update events: a resync,
and an update of nothing but the status, is dropped
(`predicateToFilterAWSClusterResourceVersionChanges`). Only the unpause, the
KarpenterMachinePool and the Crossplane controllers really come back at every resync.

| Component | State | Operations | Hard part |
|---|---|---|---|
| Resolver rules controller (`controllers/resolver_rules.go`) with the resolver (`pkg/resolver/resolver.go`) and the Route 53 Resolver, RAM and security group clients | AWSCluster finalizer and condition; security group, two endpoints, forwarding rule, share, associations in AWS | reconcileNormal: 12 AWS and API calls; reconcileDelete: 10 | partial failure anywhere, retries from the top, stale copies, swallowed errors |
| AWSCluster client (`pkg/k8sclient/awsclusterclient.go`) | the AWSCluster | AddFinalizer, RemoveFinalizer (optimistic lock), MarkConditionTrue (status merge patch), Unpause | conflicts, lists replaced as a whole |
| Unpause controller (`controllers/unpause.go`) | paused field of the Cluster, paused annotation of the AWSCluster | two patches | waits for a condition another controller sets; fails between the patches |
| KarpenterMachinePool controller (`controllers/karpentermachinepool_controller.go`, `pkg/aws/s3client.go`, `pkg/versionskew`) | finalizer, hash annotation, status; user data in S3; EC2NodeClass and NodePool in the workload cluster | create or update, upload, drain, terminate, release | deferred patch whose error is dropped, four sources read at different ages, Karpenter and EC2 moving on their own, the workload cluster going away |
| DNS controllers (`dns.go`, `eks_dns.go`, `zoner.go`, `route53.go`) | hosted zone, records, delegation; caches of zone ids, name servers, upserts | create, delete | caches of minutes, external-dns writing the same zone |
| Management cluster network controller (`management_cluster_network.go`, `transitgateways.go`, `prefixlist.go`) | transit gateway, prefix list, their ARNs in two annotations, conditions, finalizer | make and annotate, delete | a gateway that is ready later and cannot go while attached; two patches without a lock next to three locked writers |
| Attachment controller (`transit_gateway_attachment.go`) | attachment, condition, finalizer | attach, detach | an attachment that is listed long after its deletion; needs the share |
| Prefix list entry controller (`prefix_list_entry.go`) | entry, condition, finalizer | look up, read version, add or remove | a versioned list with other writers and few places |
| Route controller (`route_controller.go`, `routetable.go`) | a route per route table, finalizer | add, remove, table by table | needs attachment and share, which others make and take |
| Share controller (`share.go`, `ramclient.go`) | two RAM shares, finalizer | share, unshare | waits for two finalizers of others, without a requeue |
| Crossplane configuration controller (`crossplane_config.go`) | ConfigMap, ProviderConfig, finalizers on two objects | create or update, delete | watches only one of the objects it depends on; reads of three ages |
| Conditions, annotations, sessions, metrics, manager, API types | none of their own | helpers and wiring | - |

The controllers share the AWSCluster: each has a finalizer of its own on it, they
wait for each other's conditions, and each write changes the resource version the
others lock on. AWS state is shared through names: the code recognises what it
made by the names of clusters, rules and shares.

What makes a controller correct here:

* whatever it made outside is guarded by its finalizer until it is undone, though
  reads are stale, calls fail and the process stops between two calls;
* what exists rests on what it needs (a rule on its endpoints, an association on
  a shared rule);
* a deletion never takes anything from an object nobody wants deleted;
* despite bounded failures, a wanted object is served and a deleted one let go.

## 2. Modules

| Module | Models | Extends |
|---|---|---|
| `AWSClusterObject` | the AWSCluster in the API server and the writes of the AWSCluster client | - |
| `ResolverRules` | the resolver rules controller, the resolver and its AWS calls | `AWSClusterObject` |
| `GuardedResource` | abstract specification: what a controller with a finalizer promises | - |
| `ClusterUnpause` | the unpause controller next to the resolver rules controller | `ResolverRules` |
| `KarpenterMachinePool` | the KarpenterMachinePool controller, Karpenter and EC2 | - |
| `DnsZone` | the DNS controllers, the zoner and the Route 53 client with its caches | `AWSClusterObject` |
| `NetworkWorkers` | what the five network controllers share: AWSClusters, cache, workers, queues, writes, faults | `AWSClusterObject` |
| `ManagementClusterNetwork` | the management cluster network controller | `NetworkWorkers` |
| `TransitGatewayAttachment` | the attachment controller | `NetworkWorkers` |
| `PrefixListEntry` | the prefix list entry controller | `NetworkWorkers` |
| `RouteTables` | the route controller | `NetworkWorkers` |
| `ResourceShares` | the share controller | `NetworkWorkers` |
| `NetworkTopology` | the five at work on the same AWSClusters, and what they owe each other | the five modules |
| `CrossplaneConfig` | the Crossplane configuration controller | `AWSClusterObject` |
| `ResolverRulesProofs` | the inductive invariant and the safety theorems | `ResolverRules`, `TLAPS` |
| `ResolverRulesRefinement` | `ResolverRules` implements `GuardedResource` | `ResolverRulesProofs` |
| `ClusterUnpauseProofs` | safety of the hand-over to CAPA | `ClusterUnpause`, `ResolverRulesProofs` |
| `KarpenterMachinePoolProofs` | safety of the pool, and that it implements `GuardedResource` | `KarpenterMachinePool`, `TLAPS` |
| `DnsZoneProofs` | safety of zone and delegation, and that they implement `GuardedResource` | `DnsZone`, `TLAPS` |
| `NetworkTopologyProofs` | safety of the five network controllers together | `NetworkTopology`, `TLAPS` |
| `NetworkTopologyRefinement` | each of the five implements `GuardedResource` | `NetworkTopologyProofs` |
| `CrossplaneConfigProofs` | safety of the ConfigMap and the ProviderConfig | `CrossplaneConfig`, `TLAPS` |
| `MC*` | instances for TLC | the module named after `MC` |

Definitions whose name begins with `Fault` are plausible bugs: each replaces the
definition of the same name in one run, to see that a property notices it.

### 2.1 AWSClusterObject

An AWSCluster is a record of what the controllers read: phase, resource version,
finalizers, conditions, identity reference, DNS mode and owner annotations, paused
annotation. `Stored` is what the API server does with a write. The finalizer
patches are guarded by `Unconflicted` (MergeFromWithOptimisticLock);
`MarkConditionTrue` has no lock and replaces the whole list of conditions by the
caller's, as a JSON merge patch does.

### 2.2 ResolverRules

`pc` is the call the worker makes next; every call to AWS or to the API server is
one action. `Reconcile` takes the cached object, however old. `Fail` ends the
reconciliation before a call, which is also what a stop of the process does: a
worker keeps nothing between reconciliations. `queue` is the work queue: events and
errors put a cluster into it, `Reconcile` and `Skip` take it out.

| Action | Code |
|---|---|
| `Reconcile`, `Skip` | `Reconcile`: the way into `reconcileNormal` or `reconcileDelete`, and the early returns |
| `AddFinalizerCall`, `MarkConditionCall`, `RemoveFinalizerCall` | calls of the AWSCluster client |
| `FindRules`, `AssociateRule`, `AssociateDone` | `AssociateResolverRulesInAccountWithClusterVPC` |
| `CreateSecurityGroup`, `AuthorizeIngress` | `CreateSecurityGroupForResolverEndpoints` |
| `LookupRule`, `CreateEndpoint`, `CreateRule` | `CreateResolverRule` |
| `ApplyResourceShare`, `AssociateDNS` | the rest of `CreateRule` |
| `FindRule` ... `DeleteSecurityGroup` | `DeleteRule` |
| `FindAssociations`, `DisassociateRule`, `DisassociateDone` | `DisassociateResolverRulesInAccountWithClusterVPC` |
| `EndpointDeleted` | AWS deletes endpoints in the background (external) |
| `CacheSync` | the watch and its filter: an update of the status alone queues the cluster or not |
| `UserDelete`, `NetworkEdit`, `FinalizerEdit`, `AnnotationEdit` | users, the aws-vpc-operator, CAPA (external) |

Abstractions: a cluster stands for its VPC and for the id of its rule; the tags,
IP addresses and ports of what is created are left out; two rules of equal id do
not occur, nor two rules for the same domain name, of which AWS would associate only
one with a VPC (`resolverclient.go:269` passes over its refusal). AWS refuses to delete a rule with associations and a security group in
use; both refusals are what the code relies on when it retries.

### 2.3 ClusterUnpause

Adds a second worker on the same `api` and `cache`, with a copy of its own. It
shows the interplay of the two controllers on one object: the condition, the
resource version and the two patches of `Unpause`. Its watch is not filtered, and its
resync comes, so it needs no queue: it may look at any cached cluster at any time. A
patch of an AWSCluster that is gone is an error in the code; its retry finds no
object, so in the model the worker just ends.

### 2.4 KarpenterMachinePool

One pool name, up to `MaxPools` pools under it one after the other. `before` is
what the reconciliation read, `mem` what it changed in memory; `DeferredPatch`
sends the difference. The pool, the MachinePool and the Cluster are cached, the
Secret and the control plane are not. A Secret's content stands for its hash.
Karpenter (`Provision`, `Launch`, `Drain`, `NodePoolGone`) and EC2 (`Terminated`)
are external and modelled from what the controller relies on. `hold` stands for
the early returns: paused or without owner, or without bucket or Secret reference.
Left out: node pool specs, the provider id list (only its size is kept), tags.

### 2.5 DnsZone

One cluster name; the cluster may be deleted and created again, up to `MaxClusters`
times, and the n-th one's zone has the id n. The AWSCluster and the Cluster have a
cache each; only the AWSCluster is watched, while the deletion is read from the
Cluster. The two controllers differ in the kind of object that carries the
finalizer and in `NeedsIRSA`.

| Action | Code |
|---|---|
| `Reconcile`, `Skip` | `Reconcile`, `reconcileDelete`: the guards |
| `AddFinalizerCall`, `RemoveFinalizerCall` | the finalizer patches of `clusterclient.go`, with their optimistic lock |
| `Lookup`, `CreateHostedZone`, `TagHostedZone` | `Route53.CreateHostedZone` |
| `WorkloadClusterDnsRecords`, `DeleteDnsRecord`, `AddDnsRecords` | `reconcileDnsRecords` |
| `NSRecord`, `AddDelegation` | the delegation of a public zone |
| `FindZone` ... `DeleteHostedZone` | `Zoner.DeleteHostedZone` and the calls it makes |
| `Expire` | expiry of one cache entry (90 s, 300 s, 120 s); a restart is several of them |
| `PeerLookup` | the other controller lists zones with the same client and caches all of them, possibly after one was deleted |
| `EditRecords`, `EditAWSCluster`, `DeleteCluster`, `RecreateCluster` | external-dns, users, CAPI (external) |

Abstractions: times are left out, so an entry may expire at any moment or never
(only the zone id must at last). The irsa record and the record of the target are
looked up in one step, and so are the lists that precede a change. `paused` stands
for both pause fields and a missing identity, so in the model unpausing always raises an
event, which for the field of the unwatched Cluster it does not; with one edit the run
`DnsZone` pauses and never unpauses. A cluster is created again only when both caches
have seen that its predecessor is gone: a new Cluster next to the cached AWSCluster of
the old one, or the reverse, is excluded. A public zone without a parent
behaves like a private one. Left out: tags, additional VPC associations (their
errors are only logged), custom zone names, base domains and delegation identities
(they choose names and roles), the lookup of the parent zone (a call that may fail
like the one it precedes), two zones of one name (an error).

### 2.6 The network topology

`NetworkWorkers` holds the state. `obj` and `cache` are the AWSClusters in the API
server and in the one informer cache all controllers read; `w[k]` and `queue[k]` are
the worker and the work queue of the controller `k`, named after its finalizer.
AWS is `gateway`, `plist`, `att` (the attachment of a cluster's VPC), `entries` with
the `version` of each list, `routes` and `shares`. The constant `Controllers` says
which of the five run; the network of a management cluster outside `Clusters` is
there and stays.

A worker keeps the copy it read, the ARNs it found and the version of the list. Every
call is one action, so the controllers interleave between any two calls. What the
five share is modelled once:

* `AddFinalizerCall`, `RemoveFinalizerCall`: patches with the optimistic lock. A
  conflict, which the other controllers' finalizers cause all the time, is an error.
  The response of a patch is decoded into the copy, which the later UpdateStatus
  uses (`Decoded`): a list of conditions that is empty is not in the response.
* `UpdateStatus`: the deferred status update of three of the five, at the end of a
  reconciliation or after its error. It is refused when the object has changed, and
  the refusal is dropped. On the deletion path it would store what is stored already.
* `Error`: the cluster is queued again, by an error or `RequeueAfter`.
* `Observe`: the cache catches up and every controller is queued, unless nothing but
  the status has changed. This is the only way a controller hears of another.

A reconciliation that ends without a write and with a requeue is left out: it is
back where it was. So `Reconcile` has no alternative for an ARN that is not yet there
or a subnet without an id.

| Action | Code |
|---|---|
| `ManagementReconcile`, `ApplyGateway`, `AnnotateGateway`, `ApplyPrefixList`, `AnnotateList`, `DeleteGateway`, `DeletePrefixList` | `ManagementClusterTransitGatewayReconciler`, `TransitGateways.Apply` and `Delete`, `PrefixLists.Apply` and `Delete`, `PatchCluster` |
| `AttachmentReconcile`, `ApplyAttachment`, `Detach` | `TransitGatewayAttachmentReconciler`, `ApplyAttachment`, `Detach` |
| `EntryReconcile`, `EntryExists`, `ReadVersion`, `CreateEntry`, `DeleteEntry` | `PrefixListEntryReconciler`, `ApplyEntry` and `DeleteEntry` with the calls they make |
| `RouteReconcile`, `AddRoutes`, `RemoveRoutes` | `RouteReconciler`, one step per route table |
| `ShareReconcile`, `ShareTransitGateway`, `SharePrefixList`, `UnshareTransitGateway`, `UnsharePrefixList` | `ShareReconciler`, `ApplyResourceShare`, `DeleteResourceShare` |
| `GatewayReady`, `AttachmentFades` | EC2 in the background (external) |
| `OthersModify`, `Edit`, `ReleaseOther`, `RequestDeletion` | other writers of the list, CAPA, users (external) |
| `Fail`, `Restart` | a call fails; the operator starts again with a fresh cache and every cluster queued |

What AWS accepts is what makes the controllers depend on each other, and is modelled
from the errors the clients handle: an attachment needs a gateway that is ready and
visible to the account (`Attachable`), a route an attachment and a visible list
(`Routable`), an entry a current version, room and a free CIDR (`Addable`); a gateway
cannot go while something is attached, nor a list while routes name it.

Left out: tags, names and descriptions but for whose an entry is; the reasons and
messages of conditions; more than one gateway or list of a cluster; attachments that
wait for acceptance or are pending (one is available at once; what EC2 refuses
meanwhile is retried); a VPC or an ARN annotation that is taken away again; in the route
controller a missing identity, which is skipped, and an invalid mode, an error. An
AWSCluster of the management cluster that is not found is an error for the attachment,
entry and route controllers and is retried, while the model skips the cluster: the
management cluster is deleted last, so nothing is left to reconcile by then.

### 2.7 CrossplaneConfig

The Cluster and its infrastructure (AWSCluster, or AWSManagedControlPlane for EKS),
each with its copy in the cache, and the ConfigMap and ProviderConfig, which are read
from the API server. The values of the ConfigMap are reduced to how far the
infrastructure is (`Progress`); "other" stands for what someone else wrote, "bare" for
a ConfigMap without `Data`, into which `updateConfigMap` cannot write (the panic is
recovered by controller-runtime and is an error). `Reconcile` and `Reread` are the two
reads of the Cluster; `RemoveLegacyFinalizer` is the first half of `RemoveFinalizer`,
for the finalizer that earlier releases put on the AWSCluster. `Resync` is the one
event that tells this controller of anything but the Cluster. `Teardown` is Cluster
API, which keeps a deleted Cluster until its infrastructure is gone.

Left out: the contents of the ProviderConfig, the finalizer Crossplane itself may put
on it, a change of the identity reference.

### 2.8 GuardedResource

An object is guarded before its resource is made, the resource goes only after
the object's deletion was requested, and the guard goes only after the resource.
`ResolverRules` implements it with its finalizer and *any* security group,
endpoint, rule or association of the rule as the resource, not with the RAM share, which
outlives the finalizer after a failure (section 3), nor with the associations of foreign
rules; `KarpenterMachinePool` with its finalizer and
the user data in S3; `DnsZone` with the finalizer on the AWSCluster and the zone or
its delegation, where the deletion that counts is the one of the Cluster; and
`NetworkTopology` implements it five times over at once, each controller with its
finalizer on the same AWSCluster and its own resource (`Keeps`). The attachment counts
as long as it is available: one that EC2 is deleting is out of the controller's hands.

## 3. Runs

Passing runs:

| Run | Instance | Shows |
|---|---|---|
| `ResolverRulesSafety` | one cluster in five starting states, every call may fail, 2 failures, 2 edits by others, another finalizer | security group, endpoints, rule and the rule's associations are guarded (`ResourcesGuarded`, `GuardsResources`), the RAM share is not, a rule has its endpoints until the deletion (`RuleServed`), the DNS path is shared before it is associated (`DNSPathComplete`) |
| `ResolverRulesPeers` | two clusters in accounts of their own, network ready, 1 failure outside the endpoint window | a ready cluster becomes resolvable, a deleted one is let go, and neither deletion touches the other |
| `ClusterUnpause` | one cluster in either DNS mode, network ready at once or later, two workers, 1 failure, 2 edits of the network conditions, fair | no cluster is unpaused before it is connected; both objects of a ready cluster are unpaused at last, in private DNS mode if the resolver rules controller has it queued as ready or has set its condition (`UnpauseDue`) |
| `KarpenterMachinePool` | one instance, two pools of one name, 1 failure (crash included), cluster deletion, fair | user data is guarded, ready pools can boot, leftover nodes are being drained, a deleted pool goes away |
| `KarpenterMachinePoolUpload` | two contents, two versions, 2 edits (Secret, versions, holds), 1 failure other than the deferred patch, fair | the Secret's content ends up in S3, a deleted pool goes away whatever the versions and after every hold |
| `DnsZone` | two clusters of one name, public and private, every call may fail, 1 failure, 1 edit (pause, finalizer, record), fair | zone and delegation are guarded by the finalizer (`GuardsZone`), the delegation never dangles, a cluster gets zone, api record and delegation despite stale caches, a deleted one is let go |
| `DnsZoneRecords` | one cluster, two targets, 4 edits (target, endpoint, records), 1 failure of the record calls | a remembered upsert stands for records that are there |
| `NetworkTopology` | one workload cluster in an account of its own, attachment, entry and share controllers, 1 failed call or restart anywhere, fair | each controller guards what it makes (`GuardsNetwork`), shares outlive their use, the cluster is connected and, when deleted, let go, although the three wait for each other on the way up and down |
| `NetworkEntries` | one cluster, another writer of a list with two places and three CIDRs, network made meanwhile, pauses, 4 edits, 1 failure, another finalizer, fair | conditions are true, entries survive version conflicts, a full list and a taken CIDR, and do not outlive the finalizer |
| `NetworkManagement` | the management cluster with its network, attachment and route controllers, fair | gateway and list are made once and found again through the annotations, conditions are true though several controllers store them, and everything is taken down in an order EC2 accepts |
| `CrossplaneConfig` | one Cluster, CAPA or EKS, with or without the finalizer of an earlier release, late infrastructure, identity and CRD, other writers, pauses, 3 edits, 1 failure or restart, fair | both objects are guarded (`ConfigGuarded`), follow the infrastructure without an event, and a deleted Cluster goes away |

The run in which TLC finds what the repository says violated:

| Run | What the code does |
|---|---|
| `ResolverRulesShareLeak` | after one failure between the deletion of the rule and that of the share (the two endpoints, or the share itself), the retry cannot name the share; it is left behind when the finalizer goes |

### Known limits of the code

Met while modelling; the runs, or the premises of their properties, leave these cases
out, because the properties do not hold in them and no line of the repository says they
do:

* `resolver.go:152`: in the *endpoint window* (endpoints without a rule) an error leaves
  endpoints that `DeleteRule` does not look for, since it visits them only when it finds
  the rule; they block the deletion of the security group.
* `resolver.go:159`: with the clusters' own rules in the annotated account, live peers
  associate each other's rules again, and the deletion of one stalls.
* `resolver.go:77` and `:113`: the error of one association or disassociation is logged
  and passed over. `ClusterUnpause` excludes it: with it, a cluster is unpaused before all
  rules are associated, which the next event on the AWSCluster repairs.
* `package.go:159`: the event filter may drop the status update that would have a cluster
  served, so `ResolverRulesPeers` starts with the network ready. It also may keep a cluster
  paused: when `SubnetsReady` is set after the first reconciliation and the event is dropped,
  `ResolverRulesAssociated` is not set before another event comes. In `ClusterUnpause` this
  happens, and `EventuallyUnpaused` does not promise anything for such a cluster; with
  readiness as its only premise TLC refutes it. For the same reason the
  wildcard record waits for the next event on the AWSCluster (`dns.go:156`).
* `karpentermachinepool_controller.go:100`: a lost deferred patch leaves an old hash, and a
  Secret that changes back is not uploaded; `KarpenterMachinePoolUpload` excludes it.
* `route53.go:384`: a wildcard target that is changed and changed back within 120 s is not
  written again, because the first upsert is still remembered.
* `prefixlist.go:214`: an entry of another with the cluster's CIDR blocks the deletion of
  the cluster for as long as it is there; `NetworkReleased` excludes clusters for which it
  stays. `prefixlist.go:201`: only the first 100 entries are looked at.
* `share.go:264`: a prefix list named by a user is shared without a finalizer while the
  transit gateway is not known.
* `transit_gateway_attachment.go:78`: once the AWSCluster of the management cluster is gone,
  no finalizer of the workload controllers is removed; the model deletes it last.
* `crossplane_config.go:477`: a ConfigMap without `Data` is never repaired
  (`Configurable` excludes it).
* `resolver_rules.go:99`, `zoner.go:131`: identity and DNS mode are read again at the
  deletion, so they must not change while a cluster lives.

### Bounds

`MaxFailures`, `MaxEdits`, `MaxPools`, `MaxClusters` (of `DnsZone`) and `MaxEntries`
bound failures, changes by others, pools and clusters of one name, and places in a prefix
list. Reconciliations are not bounded. Two failures and two edits are
enough for a failure of the retry of a failed call with a conflicting write in
between. Two clusters are enough for one to
disturb another through the shared worker and the shared AWS account; a third
would meet either of them in the same way. One instance and two contents
distinguish what the Karpenter controller distinguishes. Two clusters of one name
are enough for every cache of the Route 53 client to hold an entry of a zone that
is gone; four edits for a wildcard to be set, moved or dropped, and set again.

The five network controllers together are out of TLC's reach; the three runs split them
where they meet. Attachment, entry and share controller are the ones that wait for each
other in another account; routes depend on attachment and annotations, which
`NetworkManagement` has; entries meet only other writers, and the list is the same for
another cluster as for anyone else, so `NetworkEntries` has one cluster and one other
writer. Two places let the other fill the list and leave one free; four edits fill it,
make room, and leave one for the network or a pause. `NetworkManagement` has no failed calls: with one its state
space is four times as large. The safety theorems cover failures there as well; that the
network is still made and taken down after one is not checked. In `ClusterUnpause` two
edits let the network of a cluster become ready late, or be lost and come back.
In `CrossplaneConfig` three edits
are enough for two preconditions to come late, in any order, and one object to be spoiled.

The theorems of section 4 hold without any bound on the number of clusters, failures or edits.

Deadlock is not checked: when every object is gone and nothing is cached, the
system has nothing to do.

### Fairness

* Weak fairness of the worker: a reconciliation that has begun goes on; the AWS
  and API clients return.
* Strong fairness of taking a cluster from the queue (`ResolverRules`): the queue is
  FIFO, so no queued object is passed over for good, though the worker is busy with
  others now and then. In the network and Crossplane runs one cluster is followed, and weak
  fairness of the worker as a whole is enough. An object is queued by an event or an error only, not by a
  resync, which the filter drops. `DnsZone` follows one object and needs weak
  fairness only. The unpause and Karpenter workers need no queue: their resync is
  not filtered.
* Weak fairness of the watches: an informer catches up.
* Weak fairness of what AWS and Karpenter have begun: deletions of endpoints,
  launches, drains, terminations. Karpenter's hold only while the workload cluster
  is up.
* Weak fairness of the expiry of a cached zone id (`DnsZone`): go-cache drops it
  after 90 s, and a lookup of it does not prolong it.
* Weak fairness of the resync of Clusters (`CrossplaneConfig`): `main.go` sets its period,
  and the filter of this controller drops only paused Clusters.
* Weak fairness of the gateway becoming ready, of a deleted attachment fading from EC2's
  lists, and of CAPA or Cluster API letting a deleted cluster go (`ReleaseOther`,
  `Teardown`): the deletion of a cluster needs them, and they are begun by its request.
* None for users, for other controllers' edits, or for failures.

## 4. Proofs

Every invariant, action property and refinement that a passing run checks is also a
theorem, proved for every value of the constants: any number of clusters, rules,
instances, failures, restarts and edits. What the constants must satisfy is in the
named `ASSUME`s of the component modules, which TLC evaluates in the runs: names are
distinct, sets are finite where they are counted, behaviours start before the
controller has seen the objects. Two theorems have a hypothesis more, each a case the
code does not handle:

* `HandOverAssumed` (`ClusterUnpause`): no association fails on its own (`resolver.go:77`
  logs that error and the condition is set all the same), the annotations the controller
  decides on are not changed, and clusters are created paused, without the condition.
  Without the first part `UnpausedMeansConnected` is false.
* `NoLoneList` (`NetworkTopology`): no user names a prefix list without a transit
  gateway. `share.go:264` shares such a list without a finalizer, so the share controller
  is no `GuardedResource` then. `FourControllersGuarded` states for the other four what
  holds without it.

`MCClusterUnpause` and `MCNetworkTopology` assume both of their instances, so TLC
evaluates them too.

| Module | Theorem | Says |
|---|---|---|
| `ResolverRulesProofs` | `Invariance`, `TypeCorrect`, `ResourcesAlwaysGuarded`, `RuleAlwaysServed`, `DNSPathAlwaysComplete` | `IInv` and the invariants of `ResolverRulesSafety` |
| `ResolverRulesRefinement` | `Refinement` | `Spec => GuardsResources` |
| | `LiveClustersAlwaysKeepResources` | the action property of `ResolverRulesPeers` |
| `ClusterUnpauseProofs` | `UnpauseInvariance`, `UnpausedAlwaysConnected` | `HandOverAssumed` implies `UnpauseSpec => []UnpausedMeansConnected` |
| `KarpenterMachinePoolProofs` | `KarpenterInvariance`, `KarpenterTypeCorrect`, `ReadyAlwaysBootable`, `LeftoversAlwaysDrained` | `IInv` and the invariants of `KarpenterMachinePool` |
| | `UserDataAlwaysGuarded` | `Spec => GuardsUserData` |
| `DnsZoneProofs` | `DnsInvariance`, `DnsTypeCorrect`, `DelegationNeverDangles`, `RememberedUpsertsTrue` | `IInv` and the invariants of `DnsZone` and `DnsZoneRecords` |
| | `ZoneAlwaysGuarded` | `Spec => GuardsZone` |
| `NetworkTopologyProofs` | `NetworkInvariance`, `NetworkTypeCorrect`, `ConditionsAlwaysTruthful` | `IInv` and the invariants of the network runs |
| | `SharesAlwaysOutliveUse` | the action property of `NetworkTopology` |
| `NetworkTopologyRefinement` | `FourControllersGuarded`, `NetworkGuarded` | each controller implements `GuardedResource`; all five, given `NoLoneList` |
| `CrossplaneConfigProofs` | `CrossplaneInvariance`, `CrossplaneTypeCorrect`, `ConfigAlwaysGuarded` | `IInv` and the invariants of `CrossplaneConfig` |

### The inductive invariants

None of the safety properties is inductive. Each proof module states its `IInv` as a
conjunction of named parts (TLC has checked each on the instances of the runs) and has
one lemma per action that the action preserves it. The parts answer the same questions:

*How old may a copy be?* In `ResolverRulesProofs`, `CrossplaneConfigProofs` and
`NetworkTopologyProofs`, `VersionsInv`: a copy with the stored resource version *is* the
stored object, and a deletion that a copy has seen was requested. This is what makes the
optimistic lock an argument: a finalizer that was accepted was put on a live object.
The other controllers have no lock that helps. For the DNS controllers `ObjectsInv`
says instead that, while the Cluster or its cached copy is live, a finalizer in the
cache is real, because it comes off only after the deletion has reached the cache. For
Karpenter, which patches by name, `PoolInv` and `DeletionInv` say where a patch may
land: while a deleted pool is still in the cache or in the worker's hands, a pool of
that name which lives is a fresh one that no reconciliation has reported on, so what
the late patch writes and what the late deletion takes away was never there.

*What has the worker achieved?* `NormalInv`, `DeleteInv`, `WorkerInv`, `WorkerOK`: what
holds when a reconciliation reaches each call. They carry the guard of an early call to
the late ones: the finalizer is on the object at every call of a normal reconciliation
after the first, even if its deletion is requested meanwhile; at the call that removes
the finalizer nothing is left.

*What depends on what outside?* `DependenciesInv` (associations on rules, endpoints on
the security group), `ZoneInv` (a delegation on the zone, remembered upserts on its
records), `BootInv` (what a pool reports on what S3 holds, in every copy of it),
`NodeInv` (while the Cluster lives the finalizer goes only after the NodePool was
deleted; NodeClaims rest on a NodePool), `ResourcesInv` and `GuardedInv` of the network.

*Is what others are told true?* `ConditionsInv` of the network: the conditions in the
object, in the cache and in every worker's copy are true as long as the cluster lives,
which is why it is harmless that a deferred `UpdateStatus` stores an old copy's list.
`ConditionInv` of the hand-over is the same for `ResolverRulesAssociated`.

### The refinements

A step is classified by what it does to one object. In `ResolverRulesRefinement` and
`NetworkTopologyRefinement`, steps on AWS are Acquire, Release or a stutter, steps on an
AWSCluster are PutGuard, DropGuard, RequestDeletion, Vanish or a stutter. In `DnsZoneProofs` and
`KarpenterMachinePoolProofs` the objects of `GuardedResource` are the clusters, or
pools, of one name: those before the present one are gone and have nothing, those after
it have nothing yet (`ZoneFlags`, `PoolFlags`), so a step of the present one
(`GuardPoint`) is a step of the abstract specification, and making the next one is a
stutter, which needs that nothing was left of the last.

Facts about writes to an object are lemmas of their own (`StoredFacts`, `FinalizerFacts`,
`PatchedFacts`, `NetStored`, ...), cited by the actions.

### Only model-checked

The liveness properties (`EventuallyResolvable`, `FinalizerReleased`,
`EventuallyUnpaused`, `PoolReleased`, `EventuallyUploaded`, `EventuallyServed`,
`ZoneReleased`, `EventuallyConnected`, `NetworkReleased`, `EventuallyConfigured`,
`ClusterReleased`): fairness and ENABLED are beyond the prover. `ShareGuarded` is false, and TLC
shows the behaviour.

## 5. The plan

All safety properties of the runs are proved. Worth adding still:

1. Weaker hypotheses for the hand-over: annotations that change while a cluster is
   paused, which `HandOverAssumed` excludes as a whole.
2. Pure operators for zone names and parents (`getHostedZoneName`,
   `getParentHostedZoneName`).

## 6. Not modelled

* AWS sessions, metrics and ARN helpers: no state that controllers read back.
* Accessors of conditions and annotations: folded into the records; the reasons and
  messages of conditions are left out, since no controller reads them.
* The wiring in `main.go`: it justifies the fairness, the resync and one worker per controller.
* API types and generated code, the conversion of node pool specs: data without control.
* The fakes and test helpers of the repository.
