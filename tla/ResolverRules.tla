---------------------------- MODULE ResolverRules ----------------------------
(***************************************************************************)
(* The resolver rules controller (controllers/resolver_rules.go), the      *)
(* resolver it drives (pkg/resolver/resolver.go) and the AWS calls that    *)
(* make (pkg/aws/resolverclient.go, ramclient.go, ec2client.go).           *)
(*                                                                         *)
(* For every AWSCluster in private DNS mode the controller keeps in AWS a  *)
(* security group, an inbound and an outbound resolver endpoint, a         *)
(* forwarding rule, a RAM resource share of the rule and an association of *)
(* the rule with the VPC of the DNS server; it also associates the rules   *)
(* of an account with the VPC of the cluster.                              *)
(*                                                                         *)
(* One worker serves all clusters, one reconciliation at a time.  A        *)
(* reconciliation is a sequence of calls; each call is one action, any     *)
(* call may fail, and the operator may stop between any two.  The worker   *)
(* reads AWSClusters from an informer cache that lags the API server.      *)
(***************************************************************************)
EXTENDS AWSClusterObject, FiniteSets

CONSTANTS
  Clusters,        \* the AWSClusters; c also stands for the VPC of c, and for
                   \* the id of the rule the controller creates for c
  ForeignRules,    \* rules in the annotated account this operator does not create
  SharedAccount,   \* the clusters' own rules are in the annotated account too
  CrossAccount,    \* the DNS server is in another account than the clusters
  DNSServerVPC,    \* the VPC of the DNS server
  NoRule,          \* the empty rule id
  InitialClusters, \* AWSCluster objects a behaviour may start from
  EditedFields,    \* what others may change: annotations ("dnsMode", "owner"),
                   \* the "conditions" of the network
  FailingCalls,    \* steps that may fail; "oneAssociation", "oneDisassociation":
                   \* errors of one rule that the two loops only log
  MaxFailures,     \* bound on failures
  MaxEdits         \* bound on changes made by users and other controllers

Rules == Clusters \cup ForeignRules
VPCs  == Clusters \cup {DNSServerVPC}
Directions == {"inbound", "outbound"}
Protocols  == {"udp", "tcp"}

NormalSteps ==
  {"addFinalizer", "findRules", "associate", "markCondition", "securityGroup",
   "ingress", "lookupRule", "inbound", "outbound", "createRule", "share",
   "associateDNS"}
DeleteSteps ==
  {"findRule", "disassociateDNS", "deleteRule", "deleteInbound",
   "deleteOutbound", "deleteShare", "deleteSG", "findAssociations",
   "disassociate", "removeFinalizer"}
Steps == {"idle"} \cup NormalSteps \cup DeleteSteps

ASSUME ConstantsAssumption ==
  /\ DNSServerVPC \notin Clusters
  /\ NoRule \notin Rules
  /\ Clusters \cap ForeignRules = {}
  /\ SharedAccount \in BOOLEAN
  /\ CrossAccount \in BOOLEAN
  /\ EditedFields \subseteq {"dnsMode", "owner", "conditions"}
  /\ FailingCalls \subseteq
       NormalSteps \cup DeleteSteps \cup {"oneAssociation", "oneDisassociation"}
  /\ MaxFailures \in Nat
  /\ MaxEdits \in Nat

\* Behaviours start before the controller has seen the clusters.
ASSUME InitialClustersAssumption ==
  \A o \in InitialClusters :
    o \in AWSClusters /\ o.phase = "live" /\ ResolverRulesFinalizer \notin o.fins

VARIABLES
  api,       \* api[c]: the AWSCluster c in the API server
  cache,     \* cache[c]: the AWSCluster c in the informer cache
  \* the worker
  pc,        \* the call it makes next
  cur,       \* the cluster it reconciles
  copy,      \* its copy of the AWSCluster
  found,     \* the id of the cluster's rule it has looked up, or NoRule
  todo,      \* rules still to associate or disassociate
  queue,     \* its work queue: the clusters to reconcile
  \* AWS
  sg,        \* sg[c]: the security group exists
  ingress,   \* ingress[c]: protocols its ingress rules allow
  ep,        \* ep[c][d]: "none", "present" or "deleting"
  rule,      \* rule[c]: the forwarding rule exists
  share,     \* resource shares, named <<cluster, rule id>>
  assoc,     \* associations <<rule, VPC>>
  \* bounds
  failures, edits

objVars  == <<api, cache>>
workVars == <<pc, cur, copy, found, todo, queue>>
awsVars  == <<sg, ingress, ep, rule, share, assoc>>
boundVars == <<failures, edits>>
vars == <<objVars, workVars, awsVars, boundVars>>

TypeOK ==
  /\ api \in [Clusters -> AWSClusters]
  /\ cache \in [Clusters -> AWSClusters]
  /\ pc \in Steps
  /\ cur \in Clusters
  /\ copy \in AWSClusters
  /\ found \in Clusters \cup {NoRule}
  /\ todo \subseteq Rules
  /\ queue \subseteq Clusters
  /\ sg \in [Clusters -> BOOLEAN]
  /\ ingress \in [Clusters -> SUBSET Protocols]
  /\ ep \in [Clusters -> [Directions -> {"none", "present", "deleting"}]]
  /\ rule \in [Clusters -> BOOLEAN]
  /\ share \subseteq Clusters \X (Clusters \cup {NoRule})
  /\ assoc \subseteq Rules \X VPCs
  /\ failures \in 0..MaxFailures
  /\ edits \in 0..MaxEdits

Init ==
  /\ api \in [Clusters -> InitialClusters]
  /\ cache = api
  /\ pc = "idle"
  /\ cur \in Clusters
  /\ copy = api[cur]
  /\ found = NoRule
  /\ todo = {}
  /\ queue = Clusters
  /\ sg = [c \in Clusters |-> FALSE]
  /\ ingress = [c \in Clusters |-> {}]
  /\ ep = [c \in Clusters |-> [d \in Directions |-> "none"]]
  /\ rule = [c \in Clusters |-> FALSE]
  /\ share = {}
  /\ assoc = {}
  /\ failures = 0
  /\ edits = 0

-----------------------------------------------------------------------------
(* The worker moves on to the next call.  Return ends the reconciliation;  *)
(* after an error the cluster is queued again, otherwise the next event    *)
(* queues it.                                                              *)
Goto(l) == pc' = l /\ UNCHANGED <<cur, copy, found, todo, queue>>
Call(l) == pc = l
Return  == Goto("idle")
ReturnError ==
  pc' = "idle" /\ queue' = queue \cup {cur} /\ UNCHANGED <<cur, copy, found, todo>>

\* The guards of Reconcile, on the cached object.
Managed(o) == o.identity /\ o.dnsMode = "private"
Deletes(o) == Managed(o) /\ o.phase = "deleting" /\ ResolverRulesFinalizer \in o.fins
Serves(o)  == Managed(o) /\ o.phase = "live" /\ NetworkConditions \subseteq o.conds

(***************************************************************************)
(* Reconcile up to its choice between reconcileNormal and reconcileDelete. *)
(* The cached object is taken as it is, however old it is.                 *)
(***************************************************************************)
Reconcile(c) ==
  /\ Call("idle") /\ c \in queue
  /\ \/ Deletes(cache[c]) /\ pc' = "findRule"
     \/ Serves(cache[c]) /\ pc' = "addFinalizer"
  /\ queue' = queue \ {c}
  /\ cur' = c
  /\ copy' = cache[c]
  /\ found' = NoRule
  /\ todo' = {}
  /\ UNCHANGED <<objVars, awsVars, boundVars>>

\* The early returns of Reconcile: nothing is done, and nothing is tried
\* again before the next event.
Skip(c) ==
  /\ Call("idle") /\ c \in queue
  /\ ~Deletes(cache[c]) /\ ~Serves(cache[c])
  /\ queue' = queue \ {c}
  /\ UNCHANGED <<pc, cur, copy, found, todo, objVars, awsVars, boundVars>>

-----------------------------------------------------------------------------
(* reconcileNormal                                                         *)

\* Fault: a conflict is logged and the reconciliation goes on.
FaultAddFinalizerCall ==
  /\ Call("addFinalizer")
  /\ api' = IF Unconflicted(api[cur], copy)
            THEN [api EXCEPT ![cur] = AddFinalizer(@, ResolverRulesFinalizer)]
            ELSE api
  /\ Goto(IF copy.owner THEN "findRules" ELSE "markCondition")
  /\ UNCHANGED <<cache, awsVars, boundVars>>

\* AddFinalizer: a conflict is an error and ends the reconciliation.
AddFinalizerCall ==
  /\ Call("addFinalizer")
  /\ IF Unconflicted(api[cur], copy)
     THEN /\ api' = [api EXCEPT ![cur] = AddFinalizer(@, ResolverRulesFinalizer)]
          /\ copy' = api'[cur]
          /\ pc' = IF copy.owner THEN "findRules" ELSE "markCondition"
          /\ UNCHANGED <<cur, found, todo, queue>>
     ELSE ReturnError /\ UNCHANGED api
  /\ UNCHANGED <<cache, awsVars, boundVars>>

\* The rules that exist now, and those of the annotated account.
ExistingRules == ForeignRules \cup {c \in Clusters : rule[c]}
AccountRules  == IF SharedAccount THEN ExistingRules ELSE ForeignRules

(***************************************************************************)
(* AssociateResolverRulesInAccountWithClusterVPC: both lists are read,     *)
(* then one call per rule.  The target addresses of the cluster's own rule *)
(* are in its own VPC, so it is skipped.                                   *)
(***************************************************************************)
FindRules ==
  /\ Call("findRules")
  /\ todo' = {r \in AccountRules \ {cur} : <<r, cur>> \notin assoc}
  /\ pc' = "associate"
  /\ UNCHANGED <<cur, copy, found, queue, objVars, awsVars, boundVars>>

\* The error of one rule is logged and the loop goes on.  Rules have domain
\* names of their own, so AWS does not refuse one for the sake of another.
AssociateRule(r) ==
  /\ Call("associate")
  /\ r \in todo
  /\ todo' = todo \ {r}
  /\ \/ /\ assoc' = IF r \in ExistingRules THEN assoc \cup {<<r, cur>>} ELSE assoc
        /\ UNCHANGED failures
     \/ /\ "oneAssociation" \in FailingCalls /\ failures < MaxFailures
        /\ failures' = failures + 1
        /\ UNCHANGED assoc
  /\ UNCHANGED <<pc, cur, copy, found, queue, objVars, sg, ingress, ep, rule, share, edits>>

AssociateDone ==
  /\ Call("associate")
  /\ todo = {}
  /\ Goto("markCondition")
  /\ UNCHANGED <<objVars, awsVars, boundVars>>

\* A status patch of an object that is gone is an error.
MarkConditionCall ==
  /\ Call("markCondition")
  /\ IF api[cur].phase = "gone"
     THEN ReturnError /\ UNCHANGED api
     ELSE /\ api' = [api EXCEPT ![cur] = MarkConditionTrue(@, copy, ResolverRulesAssociated)]
          /\ copy' = api'[cur]
          /\ pc' = "securityGroup"
          /\ UNCHANGED <<cur, found, todo, queue>>
  /\ UNCHANGED <<cache, awsVars, boundVars>>

\* CreateSecurityGroupForResolverEndpoints: a duplicate is no error.
CreateSecurityGroup ==
  /\ Call("securityGroup")
  /\ sg' = [sg EXCEPT ![cur] = TRUE]
  /\ Goto("ingress")
  /\ UNCHANGED <<objVars, ingress, ep, rule, share, assoc, boundVars>>

\* The ingress rules for UDP and TCP, in this order; a duplicate is no error.
AuthorizeIngress ==
  /\ Call("ingress")
  /\ LET p == IF "udp" \in ingress[cur] THEN "tcp" ELSE "udp" IN
       /\ ingress' = [ingress EXCEPT ![cur] = @ \cup {p}]
       /\ Goto(IF p = "tcp" THEN "lookupRule" ELSE "ingress")
  /\ UNCHANGED <<objVars, sg, ep, rule, share, assoc, boundVars>>

\* Fault: a rule that exists is taken to be shared and associated.
FaultLookupRule ==
  /\ Call("lookupRule")
  /\ found' = IF rule[cur] THEN cur ELSE NoRule
  /\ pc' = IF rule[cur] THEN "idle" ELSE "inbound"
  /\ UNCHANGED <<cur, copy, todo, queue, objVars, awsVars, boundVars>>

\* CreateResolverRule first looks the rule up by name: when it is there the
\* endpoints are not looked at.
LookupRule ==
  /\ Call("lookupRule")
  /\ found' = IF rule[cur] THEN cur ELSE NoRule
  /\ pc' = IF rule[cur] THEN "share" ELSE "inbound"
  /\ UNCHANGED <<cur, copy, todo, queue, objVars, awsVars, boundVars>>

\* Fault: the outbound endpoint is forgotten.
FaultCreateEndpoint(d) ==
  /\ Call(d)
  /\ ep' = [ep EXCEPT ![cur][d] = IF @ = "none" THEN "present" ELSE @]
  /\ Goto("createRule")
  /\ UNCHANGED <<objVars, sg, ingress, rule, share, assoc, boundVars>>

\* createResolverEndpoint: an endpoint of that name is taken as it is.
CreateEndpoint(d) ==
  /\ Call(d)
  /\ ep' = [ep EXCEPT ![cur][d] = IF @ = "none" THEN "present" ELSE @]
  /\ Goto(IF d = "inbound" THEN "outbound" ELSE "createRule")
  /\ UNCHANGED <<objVars, sg, ingress, rule, share, assoc, boundVars>>

\* Fault: a new rule is associated before it is shared.
FaultCreateRule ==
  /\ Call("createRule")
  /\ rule' = [rule EXCEPT ![cur] = TRUE]
  /\ found' = cur
  /\ pc' = "associateDNS"
  /\ UNCHANGED <<cur, copy, todo, queue, objVars, sg, ingress, ep, share, assoc, boundVars>>

\* createResolverRule: a rule that exists already is looked up instead.
CreateRule ==
  /\ Call("createRule")
  /\ rule' = [rule EXCEPT ![cur] = TRUE]
  /\ found' = cur
  /\ pc' = "share"
  /\ UNCHANGED <<cur, copy, todo, queue, objVars, sg, ingress, ep, share, assoc, boundVars>>

\* ApplyResourceShare: nothing is shared within one account.
ApplyResourceShare ==
  /\ Call("share")
  /\ share' = IF CrossAccount THEN share \cup {<<cur, found>>} ELSE share
  /\ Goto("associateDNS")
  /\ UNCHANGED <<objVars, sg, ingress, ep, rule, assoc, boundVars>>

AssociateDNS ==
  /\ Call("associateDNS")
  /\ assoc' = assoc \cup {<<found, DNSServerVPC>>}
  /\ Return
  /\ UNCHANGED <<objVars, sg, ingress, ep, rule, share, boundVars>>

-----------------------------------------------------------------------------
(* reconcileDelete                                                         *)

\* DeleteRule looks the rule up; without it the rule and the endpoints are
\* skipped and the rule id stays empty.
FindRule ==
  /\ Call("findRule")
  /\ found' = IF rule[cur] THEN cur ELSE NoRule
  /\ pc' = IF rule[cur] THEN "disassociateDNS" ELSE "deleteShare"
  /\ UNCHANGED <<cur, copy, todo, queue, objVars, awsVars, boundVars>>

DisassociateDNS ==
  /\ Call("disassociateDNS")
  /\ assoc' = assoc \ {<<found, DNSServerVPC>>}
  /\ Goto("deleteRule")
  /\ UNCHANGED <<objVars, sg, ingress, ep, rule, share, boundVars>>

\* AWS refuses to delete a rule that is associated with a VPC.
DeleteRule ==
  /\ Call("deleteRule")
  /\ IF \E v \in VPCs : <<found, v>> \in assoc
     THEN ReturnError /\ UNCHANGED rule
     ELSE rule' = [rule EXCEPT ![found] = FALSE] /\ Goto("deleteInbound")
  /\ UNCHANGED <<objVars, sg, ingress, ep, share, assoc, boundVars>>

\* Fault: the endpoints are listed without the filter on the name.
FaultDeleteEndpoint(d, l) ==
  /\ Call(l)
  /\ \E c \in Clusters : ep' = [ep EXCEPT ![c][d] = IF @ = "present" THEN "deleting" ELSE @]
  /\ Goto(IF d = "inbound" THEN "deleteOutbound" ELSE "deleteShare")
  /\ UNCHANGED <<objVars, sg, ingress, rule, share, assoc, boundVars>>

\* AWS deletes an endpoint in the background.
DeleteEndpoint(d, l) ==
  /\ Call(l)
  /\ ep' = [ep EXCEPT ![cur][d] = IF @ = "present" THEN "deleting" ELSE @]
  /\ Goto(IF d = "inbound" THEN "deleteOutbound" ELSE "deleteShare")
  /\ UNCHANGED <<objVars, sg, ingress, rule, share, assoc, boundVars>>

\* The share is found by a name made of the cluster name and the rule id.
DeleteResourceShare ==
  /\ Call("deleteShare")
  /\ share' = share \ {<<cur, found>>}
  /\ Goto("deleteSG")
  /\ UNCHANGED <<objVars, sg, ingress, ep, rule, assoc, boundVars>>

\* Fault: the clusters use one security group.
FaultDeleteSecurityGroup ==
  /\ Call("deleteSG")
  /\ IF \E c \in Clusters, d \in Directions : ep[c][d] # "none"
     THEN ReturnError /\ UNCHANGED <<sg, ingress>>
     ELSE /\ sg' = [sg EXCEPT ![cur] = FALSE]
          /\ ingress' = [ingress EXCEPT ![cur] = {}]
          /\ Goto(IF copy.owner THEN "findAssociations" ELSE "removeFinalizer")
  /\ UNCHANGED <<objVars, ep, rule, share, assoc, boundVars>>

\* AWS refuses to delete a security group an endpoint uses.
DeleteSecurityGroup ==
  /\ Call("deleteSG")
  /\ IF \E d \in Directions : ep[cur][d] # "none"
     THEN ReturnError /\ UNCHANGED <<sg, ingress>>
     ELSE /\ sg' = [sg EXCEPT ![cur] = FALSE]
          /\ ingress' = [ingress EXCEPT ![cur] = {}]
          /\ Goto(IF copy.owner THEN "findAssociations" ELSE "removeFinalizer")
  /\ UNCHANGED <<objVars, ep, rule, share, assoc, boundVars>>

\* Fault: the associations are collected instead of their rules.
FaultFindAssociations ==
  /\ Call("findAssociations")
  /\ todo' = {a \in assoc : a[2] = cur}
  /\ pc' = "disassociate"
  /\ UNCHANGED <<cur, copy, found, queue, objVars, awsVars, boundVars>>

\* DisassociateResolverRulesInAccountWithClusterVPC: every rule associated
\* with the VPC of the cluster.
FindAssociations ==
  /\ Call("findAssociations")
  /\ todo' = {r \in Rules : <<r, cur>> \in assoc}
  /\ pc' = "disassociate"
  /\ UNCHANGED <<cur, copy, found, queue, objVars, awsVars, boundVars>>

\* The error of one rule is logged and the loop goes on.
DisassociateRule(r) ==
  /\ Call("disassociate")
  /\ r \in todo
  /\ todo' = todo \ {r}
  /\ \/ /\ assoc' = assoc \ {<<r, cur>>}
        /\ UNCHANGED failures
     \/ /\ "oneDisassociation" \in FailingCalls /\ failures < MaxFailures
        /\ failures' = failures + 1
        /\ UNCHANGED assoc
  /\ UNCHANGED <<pc, cur, copy, found, queue, objVars, sg, ingress, ep, rule, share, edits>>

DisassociateDone ==
  /\ Call("disassociate")
  /\ todo = {}
  /\ Goto("removeFinalizer")
  /\ UNCHANGED <<objVars, awsVars, boundVars>>

\* A conflict is an error, an object that is gone is none.
RemoveFinalizerCall ==
  /\ Call("removeFinalizer")
  /\ IF Unconflicted(api[cur], copy)
     THEN Return /\ api' = [api EXCEPT ![cur] = RemoveFinalizer(@, ResolverRulesFinalizer)]
     ELSE (IF api[cur].phase = "gone" THEN Return ELSE ReturnError) /\ UNCHANGED api
  /\ UNCHANGED <<cache, awsVars, boundVars>>

-----------------------------------------------------------------------------
\* A call returns an error, or the operator stops before it and queues every
\* cluster when it starts again: the reconciliation begins from the top.
Fail ==
  /\ pc \in FailingCalls
  /\ failures < MaxFailures
  /\ failures' = failures + 1
  /\ pc' = "idle"
  /\ queue' \in {queue \cup {cur}, Clusters}
  /\ UNCHANGED <<cur, copy, found, todo>>
  /\ UNCHANGED <<objVars, awsVars, edits>>

\* AWS finishes the deletion of an endpoint.
EndpointDeleted(c, d) ==
  /\ ep[c][d] = "deleting"
  /\ ep' = [ep EXCEPT ![c][d] = "none"]
  /\ UNCHANGED <<objVars, workVars, sg, ingress, rule, share, assoc, boundVars>>

\* predicateToFilterAWSClusterResourceVersionChanges: the objects are equal
\* but for the status and the resource version.
OnlyStatusChanged(old, new) == [new EXCEPT !.rv = old.rv, !.conds = old.conds] = old

(***************************************************************************)
(* The watch delivers the latest object to the informer cache, and the     *)
(* cluster is queued.  An update of the status alone is dropped, unless    *)
(* the time stamps of the managed fields, which the filter leaves in,      *)
(* happen to differ.  The objects of a resync are equal, so it is dropped. *)
(***************************************************************************)
CacheSync(c) ==
  /\ cache[c] # api[c]
  /\ cache' = [cache EXCEPT ![c] = api[c]]
  /\ \/ queue' = queue \cup {c}
     \/ OnlyStatusChanged(cache[c], api[c]) /\ UNCHANGED queue
  /\ UNCHANGED <<api, pc, cur, copy, found, todo, awsVars, boundVars>>

UserDelete(c) ==
  /\ api[c].phase = "live"
  /\ api' = [api EXCEPT ![c] = DeletionRequested(@)]
  /\ UNCHANGED <<cache, workVars, awsVars, boundVars>>

\* A change somebody else makes to a stored object.
Edit(c, new) ==
  /\ api[c].phase # "gone"
  /\ new # api[c]
  /\ edits < MaxEdits
  /\ edits' = edits + 1
  /\ api' = [api EXCEPT ![c] = Stored(@, new)]
  /\ UNCHANGED <<cache, workVars, awsVars, failures>>

\* The aws-vpc-operator sets or clears a condition.
NetworkEdit(c) ==
  /\ "conditions" \in EditedFields
  /\ \E k \in NetworkConditions :
       \/ Edit(c, [api[c] EXCEPT !.conds = @ \cup {k}])
       \/ Edit(c, [api[c] EXCEPT !.conds = @ \ {k}])

\* Another controller adds its finalizer to a live object, or drops it.
FinalizerEdit(c) ==
  \E f \in OtherFinalizers :
    \/ api[c].phase = "live" /\ Edit(c, [api[c] EXCEPT !.fins = @ \cup {f}])
    \/ api[c].phase = "deleting" /\ Edit(c, [api[c] EXCEPT !.fins = @ \ {f}])

\* A user changes an annotation.
AnnotationEdit(c) ==
  \/ "owner" \in EditedFields /\ Edit(c, [api[c] EXCEPT !.owner = ~@])
  \/ /\ "dnsMode" \in EditedFields
     /\ Edit(c, [api[c] EXCEPT !.dnsMode = IF @ = "private" THEN "public" ELSE "private"])

-----------------------------------------------------------------------------
Normal ==
  \/ AddFinalizerCall
  \/ FindRules
  \/ \E r \in Rules : AssociateRule(r)
  \/ AssociateDone
  \/ MarkConditionCall
  \/ CreateSecurityGroup
  \/ AuthorizeIngress
  \/ LookupRule
  \/ \E d \in Directions : CreateEndpoint(d)
  \/ CreateRule
  \/ ApplyResourceShare
  \/ AssociateDNS

Delete ==
  \/ FindRule
  \/ DisassociateDNS
  \/ DeleteRule
  \/ DeleteEndpoint("inbound", "deleteInbound")
  \/ DeleteEndpoint("outbound", "deleteOutbound")
  \/ DeleteResourceShare
  \/ DeleteSecurityGroup
  \/ FindAssociations
  \/ \E r \in Rules : DisassociateRule(r)
  \/ DisassociateDone
  \/ RemoveFinalizerCall

Environment ==
  \E c \in Clusters :
    \/ \E d \in Directions : EndpointDeleted(c, d)
    \/ CacheSync(c)
    \/ UserDelete(c)
    \/ NetworkEdit(c)
    \/ FinalizerEdit(c)
    \/ AnnotationEdit(c)

Next ==
  \/ \E c \in Clusters : Reconcile(c) \/ Skip(c)
  \/ Normal
  \/ Delete
  \/ Fail
  \/ Environment

(***************************************************************************)
(* The worker finishes what it has begun; the work queue is FIFO, so no    *)
(* queued cluster is passed over; the watch catches up; AWS finishes the   *)
(* deletions it has begun.                                                 *)
(* Users and other controllers are under no obligation.                    *)
(***************************************************************************)
Fairness ==
  /\ WF_vars(Normal \/ Delete)
  /\ \A c \in Clusters :
       /\ SF_vars(Reconcile(c) \/ Skip(c))
       /\ WF_vars(CacheSync(c))
       /\ WF_vars(\E d \in Directions : EndpointDeleted(c, d))

Spec == Init /\ [][Next]_vars
FairSpec == Spec /\ Fairness
-----------------------------------------------------------------------------
(* Properties.                                                             *)

(***************************************************************************)
(* While the security group of a cluster, one of its endpoints, its rule   *)
(* or an association of that rule is left in AWS, the AWSCluster carries   *)
(* the controller's finalizer: whatever fails, and however stale the cache,*)
(* the object cannot vanish and orphan them (AddFinalizer first in         *)
(* reconcileNormal, RemoveFinalizer last in reconcileDelete).  Not among   *)
(* them are the RAM share, which does leak (ShareGuarded), and the         *)
(* associations of foreign rules with the cluster's VPC, whose failing     *)
(* removal is passed over.                                                 *)
(***************************************************************************)
HasResources(c) ==
  \/ sg[c] \/ rule[c]
  \/ \E d \in Directions : ep[c][d] # "none"
  \/ \E v \in VPCs : <<c, v>> \in assoc

ResourcesGuarded ==
  \A c \in Clusters : HasResources(c) => ResolverRulesFinalizer \in api[c].fins

(***************************************************************************)
(* A forwarding rule never points at endpoints that are missing, on their  *)
(* way out, or behind a security group that drops DNS: CreateResolverRule  *)
(* makes the rule last, DeleteResolverRule deletes it first.               *)
(***************************************************************************)
RuleServed ==
  \A c \in Clusters : rule[c] =>
    /\ sg[c] /\ ingress[c] = Protocols
    /\ \A d \in Directions : ep[c][d] = "present"

(***************************************************************************)
(* The association of a cluster's rule with the DNS server VPC is in place *)
(* only while the rule exists and, across accounts, is shared: associateRule*)
(* shares before it associates, DeleteRule undoes the association first.   *)
(***************************************************************************)
DNSPathComplete ==
  \A c \in Clusters : <<c, DNSServerVPC>> \in assoc =>
    rule[c] /\ (CrossAccount => <<c, c>> \in share)

(***************************************************************************)
(* A reconciliation that deletes resources of a cluster only ever runs for *)
(* an AWSCluster whose deletion was requested, even from a stale cache:    *)
(* nothing a step does takes a resource away from a live cluster.          *)
(***************************************************************************)
LiveClustersKeepResources ==
  [][\A c \in Clusters : api[c].phase = "live" =>
       /\ sg[c] => sg'[c]
       /\ rule[c] => rule'[c]
       /\ \A d \in Directions : ep[c][d] # "none" => ep'[c][d] = ep[c][d]]_vars

(***************************************************************************)
(* For every cluster the controller keeps the promise of GuardedResource:  *)
(* the guard is its finalizer, the resource what HasResources names.       *)
(***************************************************************************)
Guard == INSTANCE GuardedResource WITH
  Objects  <- Clusters,
  phase    <- [c \in Clusters |-> api[c].phase],
  guarded  <- [c \in Clusters |-> ResolverRulesFinalizer \in api[c].fins],
  resource <- [c \in Clusters |-> HasResources(c)]

GuardsResources == Guard!Spec

Ready(c) ==
  api[c].phase = "live" /\ Managed(api[c]) /\ NetworkConditions \subseteq api[c].conds

Resolvable(c) ==
  rule[c] /\ <<c, DNSServerVPC>> \in assoc

\* The API endpoint of a cluster whose network is ready becomes resolvable
\* from the DNS server VPC, whatever failed on the way.
EventuallyResolvable ==
  \A c \in Clusters : Ready(c) ~> (Resolvable(c) \/ ~Ready(c))

\* The controller lets go of a cluster that is being deleted.
FinalizerReleased ==
  \A c \in Clusters :
    (api[c].phase = "deleting" /\ Managed(api[c]))
      ~> (ResolverRulesFinalizer \notin api[c].fins \/ ~Managed(api[c]))

-----------------------------------------------------------------------------
(* The inductive invariant behind the safety properties.                   *)

\* A copy of an object is an earlier version of it, or the version itself;
\* a deletion that was seen has been requested.
VersionsInv ==
  /\ \A c \in Clusters :
       /\ cache[c].rv <= api[c].rv
       /\ cache[c].rv = api[c].rv => cache[c] = api[c]
       /\ cache[c].phase # "live" => api[c].phase # "live"
       /\ api[c].phase = "gone" => api[c].fins = {}
  /\ copy.rv <= api[cur].rv
  /\ copy.rv = api[cur].rv => copy = api[cur]

\* What exists in AWS rests on what else exists.
DependenciesInv ==
  \A c \in Clusters :
    /\ \A v \in VPCs : <<c, v>> \in assoc => rule[c]
    /\ \A d \in Directions : ep[c][d] # "none" => sg[c]
    /\ \A d \in Directions : ep[c][d] = "deleting" => cache[c].phase # "live"

\* What a normal reconciliation has achieved when it reaches a step.
NormalInv ==
  /\ pc = "addFinalizer" => copy.phase = "live"
  /\ pc \in NormalSteps => \A d \in Directions : ep[cur][d] # "deleting"
  /\ pc \in NormalSteps \ {"addFinalizer"} => ResolverRulesFinalizer \in api[cur].fins
  /\ pc = "ingress" => sg[cur]
  /\ pc \in {"lookupRule", "inbound", "outbound", "createRule", "share", "associateDNS"}
       => sg[cur] /\ ingress[cur] = Protocols
  /\ pc \in {"outbound", "createRule"} => ep[cur]["inbound"] = "present"
  /\ pc = "createRule" => ep[cur]["outbound"] = "present"
  /\ pc \in {"share", "associateDNS"} => rule[cur] /\ found = cur
  /\ pc = "associateDNS" => (CrossAccount => <<cur, cur>> \in share)

\* What a deletion has achieved when it reaches a step.
DeleteInv ==
  /\ pc \in DeleteSteps => cache[cur].phase # "live"
  /\ pc \in {"disassociateDNS", "deleteRule"} => found = cur
  /\ pc \in {"deleteInbound", "deleteOutbound", "deleteShare", "deleteSG",
             "findAssociations", "disassociate", "removeFinalizer"} => ~rule[cur]
  /\ pc \in {"findAssociations", "disassociate", "removeFinalizer"} => ~sg[cur]

IInv ==
  /\ TypeOK
  /\ VersionsInv
  /\ DependenciesInv
  /\ NormalInv
  /\ DeleteInv
  /\ ResourcesGuarded
  /\ RuleServed
  /\ DNSPathComplete

-----------------------------------------------------------------------------
(* What the repository's documentation says, and the code does not keep.   *)

\* "removing the ram share resource fails ... does not delete the finalizer"
\* (resolver_rules_test.go): while the share of a rule exists, the finalizer
\* is kept.
ShareGuarded ==
  \A c \in Clusters : <<c, c>> \in share => ResolverRulesFinalizer \in api[c].fins
=============================================================================
