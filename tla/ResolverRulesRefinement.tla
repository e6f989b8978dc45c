----------------------- MODULE ResolverRulesRefinement -----------------------
(***************************************************************************)
(* The resolver rules controller implements GuardedResource, and never     *)
(* takes a resource away from a live cluster: both follow from the         *)
(* inductive invariant of ResolverRulesProofs, step by step.               *)
(***************************************************************************)
EXTENDS ResolverRulesProofs

\* A step that leaves the API server alone and touches the resources of at
\* most one cluster, which it empties only when deletion was requested.
LEMMA ResourceStep ==
  ASSUME IInv, IInv', api' = api, NEW x \in Clusters,
         \A b \in Clusters \ {x} : HasResources(b)' = HasResources(b),
         HasResources(x) /\ ~HasResources(x)' => api[x].phase # "live"
  PROVE  [Guard!Next]_(Guard!vars)
<1>1. CASE HasResources(x)' = HasResources(x)
  <2>1. [c \in Clusters |-> HasResources(c)]' = [c \in Clusters |-> HasResources(c)]
    BY <1>1
  <2> QED
    BY <2>1 DEF Guard!vars
<1>2. CASE HasResources(x)' /\ ~HasResources(x)
  <2>1. ResolverRulesFinalizer \in api[x].fins
    BY <1>2 DEF IInv, ResourcesGuarded
  <2>2. [c \in Clusters |-> HasResources(c)]'
          = [[c \in Clusters |-> HasResources(c)] EXCEPT ![x] = TRUE]
    BY <1>2 DEF HasResources
  <2>3. Guard!Acquire(x)
    BY <2>1, <2>2 DEF Guard!Acquire
  <2> QED
    BY <2>3 DEF Guard!Next
<1>3. CASE ~HasResources(x)' /\ HasResources(x)
  <2>1. ResolverRulesFinalizer \in api[x].fins /\ api[x].phase # "live"
    BY <1>3 DEF IInv, ResourcesGuarded
  <2>2. api[x].phase = "deleting"
    BY <2>1 DEF IInv, TypeOK, VersionsInv, AWSClusters
  <2>3. [c \in Clusters |-> HasResources(c)]'
          = [[c \in Clusters |-> HasResources(c)] EXCEPT ![x] = FALSE]
    BY <1>3 DEF HasResources
  <2>4. Guard!Release(x)
    BY <2>1, <2>2, <2>3 DEF Guard!Release
  <2> QED
    BY <2>4 DEF Guard!Next
<1> QED
  BY <1>1, <1>2, <1>3 DEF HasResources

\* A write to one AWSCluster, while AWS does not change.
LEMMA ApiStep ==
  ASSUME IInv, NEW x \in Clusters, NEW n, api' = [api EXCEPT ![x] = n],
         UNCHANGED <<sg, rule, ep, assoc>>,
         LET f == ResolverRulesFinalizer IN
         \/ n.phase = api[x].phase /\ (f \in n.fins <=> f \in api[x].fins)
         \/ n.phase = api[x].phase /\ n.phase = "live" /\ f \in n.fins
         \/ /\ api[x].phase = "deleting" /\ n.phase \in {"deleting", "gone"}
            /\ ~HasResources(x) /\ f \notin n.fins
         \/ /\ api[x].phase = "live" /\ (f \in n.fins <=> f \in api[x].fins)
            /\ \/ n.phase = "deleting"
               \/ n.phase = "gone" /\ f \notin n.fins
         \/ /\ api[x].phase = "deleting" /\ n.phase = "gone"
            /\ f \notin api[x].fins /\ f \notin n.fins
  PROVE  [Guard!Next]_(Guard!vars)
<1> DEFINE f == ResolverRulesFinalizer
           ph == [c \in Clusters |-> api[c].phase]
           gd == [c \in Clusters |-> f \in api[c].fins]
<1>1. [c \in Clusters |-> HasResources(c)]' = [c \in Clusters |-> HasResources(c)]
  BY DEF HasResources
<1>2. /\ ph' = [ph EXCEPT ![x] = n.phase]
      /\ gd' = [gd EXCEPT ![x] = f \in n.fins]
      /\ ph[x] = api[x].phase
      /\ gd[x] = (f \in api[x].fins)
  BY DEF IInv, TypeOK
<1>3. CASE n.phase = api[x].phase /\ (f \in n.fins <=> f \in api[x].fins)
  <2>1. ph' = ph
    BY <1>2, <1>3
  <2>2. gd' = gd
    BY <1>2, <1>3
  <2> QED
    BY <1>1, <2>1, <2>2 DEF Guard!vars
<1>4. CASE n.phase = api[x].phase /\ n.phase = "live" /\ f \in n.fins
  <2>1. ph' = ph
    BY <1>2, <1>4
  <2>2. gd' = [gd EXCEPT ![x] = TRUE]
    BY <1>2, <1>4
  <2>3. Guard!PutGuard(x)
    BY <1>1, <1>2, <1>4, <2>1, <2>2 DEF Guard!PutGuard
  <2> QED
    BY <2>3 DEF Guard!Next
<1>5. CASE /\ api[x].phase = "deleting" /\ n.phase \in {"deleting", "gone"}
           /\ ~HasResources(x) /\ f \notin n.fins
  <2>1. gd' = [gd EXCEPT ![x] = FALSE]
    <3>1. (f \in n.fins) = FALSE
      BY <1>5
    <3> HIDE DEF gd, ph, f
    <3> QED
      BY <1>2, <3>1, Zenon
  <2>2. Guard!DropGuard(x)
    BY <1>1, <1>2, <1>5, <2>1 DEF Guard!DropGuard
  <2> QED
    BY <2>2 DEF Guard!Next
<1>6. CASE /\ api[x].phase = "live" /\ (f \in n.fins <=> f \in api[x].fins)
           /\ \/ n.phase = "deleting"
              \/ n.phase = "gone" /\ f \notin n.fins
  <2>1. gd' = gd
    BY <1>2, <1>6
  <2>2. n.phase \in {"deleting", "gone"} /\ (gd[x] => n.phase = "deleting")
    BY <1>2, <1>6
  <2> HIDE DEF ph, gd
  <2>3. \E p \in {"deleting", "gone"} :
          (gd[x] => p = "deleting") /\ ph' = [ph EXCEPT ![x] = p]
    BY <1>2, <2>2
  <2>4. Guard!RequestDeletion(x)
    BY <1>1, <1>2, <1>6, <2>1, <2>3 DEF Guard!RequestDeletion, ph, gd
  <2> QED
    BY <2>4 DEF Guard!Next
<1>7. CASE /\ api[x].phase = "deleting" /\ n.phase = "gone"
           /\ f \notin api[x].fins /\ f \notin n.fins
  <2>1. gd' = gd
    BY <1>2, <1>7
  <2>2. Guard!Vanish(x)
    BY <1>1, <1>2, <1>7, <2>1 DEF Guard!Vanish
  <2> QED
    BY <2>2 DEF Guard!Next
<1> QED
  BY <1>3, <1>4, <1>5, <1>6, <1>7

\* Every step of reconcileNormal maps to a step of GuardedResource, or to
\* none: the first resource of a cluster is an Acquire.
LEMMA NormalRefines ==
  ASSUME IInv, IInv', Normal PROVE [Guard!Next]_(Guard!vars)
<1>1. cur \in Clusters
  BY DEF IInv, TypeOK
<1>0. PICK x \in Clusters : x = cur
  BY <1>1
<1> USE DEF Call, Goto, objVars, awsVars
<1>2. CASE AddFinalizerCall
  <2>1. CASE Unconflicted(api[cur], copy)
    <3> DEFINE n == AddFinalizer(api[cur], ResolverRulesFinalizer)
    <3>1. Sound(api[cur]) /\ api[cur].phase = "live"
      BY <1>1, <1>2, <2>1 DEF AddFinalizerCall, Unconflicted, Sound, IInv, TypeOK, VersionsInv, NormalInv
    <3>2. n.phase = "live" /\ ResolverRulesFinalizer \in n.fins
      BY <3>1, AddFinalizerFacts DEF Finalizers
    <3>3. api' = [api EXCEPT ![cur] = n] /\ UNCHANGED <<sg, rule, ep, assoc>>
      BY <1>2, <2>1 DEF AddFinalizerCall
    <3> HIDE DEF n
    <3> QED
      BY <1>1, <3>1, <3>2, <3>3, ApiStep
  <2>2. CASE ~Unconflicted(api[cur], copy)
    BY <1>1, <1>2, <2>2, ResourceStep DEF AddFinalizerCall, HasResources
  <2> QED
    BY <2>1, <2>2
<1>3. CASE MarkConditionCall
  <2>1. CASE api[cur].phase # "gone"
    <3> DEFINE n == MarkConditionTrue(api[cur], copy, ResolverRulesAssociated)
    <3>1. Sound(api[cur]) /\ copy \in AWSClusters /\ api[cur].fins # {}
      BY <1>1, <1>3 DEF MarkConditionCall, Sound, IInv, TypeOK, VersionsInv, NormalInv, NormalSteps
    <3>2. n.phase = api[cur].phase /\ n.fins = api[cur].fins
      BY <2>1, <3>1, MarkConditionTrueFacts DEF Conditions
    <3>3. api' = [api EXCEPT ![cur] = n] /\ UNCHANGED <<sg, rule, ep, assoc>>
      BY <1>3, <2>1 DEF MarkConditionCall
    <3> HIDE DEF n
    <3> QED
      BY <1>1, <3>2, <3>3, ApiStep
  <2>2. CASE api[cur].phase = "gone"
    BY <1>1, <1>3, <2>2, ResourceStep DEF MarkConditionCall, HasResources
  <2> QED
    BY <2>1, <2>2
<1>4. CASE \/ FindRules \/ AssociateDone \/ AuthorizeIngress \/ LookupRule
           \/ ApplyResourceShare
  <2>1. UNCHANGED <<api, sg, rule, ep, assoc>>
    BY <1>4 DEF FindRules, AssociateDone, AuthorizeIngress, LookupRule, ApplyResourceShare
  <2> QED
    BY <1>1, <2>1, ResourceStep DEF HasResources
<1>5. ASSUME NEW r \in Rules, AssociateRule(r) PROVE [Guard!Next]_(Guard!vars)
  <2>1. /\ UNCHANGED <<api, sg, rule, ep>>
        /\ \A b \in Clusters, v \in VPCs : <<b, v>> \in assoc => <<b, v>> \in assoc'
        /\ \A b \in Clusters, v \in VPCs :
             <<b, v>> \in assoc' => <<b, v>> \in assoc \/ rule[b]
    BY <1>5, ConstantsAssumption DEF AssociateRule, ExistingRules, IInv, TypeOK
  <2>2. \A b \in Clusters : HasResources(b)' = HasResources(b)
    BY <2>1 DEF HasResources
  <2> QED
    BY <1>1, <2>1, <2>2, ResourceStep
<1>6. CASE CreateSecurityGroup \/ CreateRule
  <2>1. /\ UNCHANGED <<api, ep, assoc>>
        /\ \A b \in Clusters \ {x} : sg'[b] = sg[b] /\ rule'[b] = rule[b]
        /\ HasResources(x)'
    BY <1>0, <1>6 DEF CreateSecurityGroup, CreateRule, HasResources, IInv, TypeOK
  <2>2. \A b \in Clusters \ {x} : HasResources(b)' = HasResources(b)
    BY <2>1 DEF HasResources
  <2> QED
    BY <2>1, <2>2, ResourceStep
<1>7. ASSUME NEW d \in Directions, CreateEndpoint(d) PROVE [Guard!Next]_(Guard!vars)
  <2>1. /\ UNCHANGED <<api, sg, rule, assoc>>
        /\ \A b \in Clusters \ {x} : ep'[b] = ep[b]
    BY <1>0, <1>7 DEF CreateEndpoint, IInv, TypeOK
  <2>2. sg[x]
    BY <1>0, <1>7 DEF CreateEndpoint, IInv, NormalInv
  <2>3. HasResources(x)' /\ \A b \in Clusters \ {x} : HasResources(b)' = HasResources(b)
    BY <2>1, <2>2 DEF HasResources
  <2> QED
    BY <2>1, <2>3, ResourceStep
<1>8. CASE AssociateDNS
  <2>1. UNCHANGED <<api, sg, rule, ep>> /\ rule[x]
        /\ \A b \in Clusters \ {x}, v \in VPCs : <<b, v>> \in assoc' <=> <<b, v>> \in assoc
    BY <1>0, <1>8 DEF AssociateDNS, Return, IInv, NormalInv
  <2>2. HasResources(x)' /\ \A b \in Clusters \ {x} : HasResources(b)' = HasResources(b)
    BY <2>1 DEF HasResources
  <2> QED
    BY <2>1, <2>2, ResourceStep
<1> QED
  BY <1>2, <1>3, <1>4, <1>5, <1>6, <1>7, <1>8 DEF Normal

\* Every step of reconcileDelete maps to a step of GuardedResource, or to
\* none: the last resource that goes is a Release, the finalizer a DropGuard.
LEMMA DeleteRefines ==
  ASSUME IInv, IInv', Delete PROVE [Guard!Next]_(Guard!vars)
<1> USE DEF Call, Goto, Return, objVars, awsVars
<1>1. cur \in Clusters
  BY DEF IInv, TypeOK
<1>2. pc \in DeleteSteps /\ api[cur].phase # "live"
  BY <1>1 DEF Delete, FindRule, DisassociateDNS, DeleteRule, DeleteEndpoint,
     DeleteResourceShare, DeleteSecurityGroup, FindAssociations, DisassociateRule,
     DisassociateDone, RemoveFinalizerCall, DeleteSteps, IInv, DeleteInv, VersionsInv
<1>3. CASE RemoveFinalizerCall
  <2>1. CASE Unconflicted(api[cur], copy)
    <3> DEFINE n == RemoveFinalizer(api[cur], ResolverRulesFinalizer)
    <3>1. Sound(api[cur]) /\ api[cur].phase = "deleting" /\ ~HasResources(cur)
      <4>1. Sound(api[cur]) /\ ~rule[cur] /\ ~sg[cur]
        BY <1>1, <1>3 DEF RemoveFinalizerCall, Sound, IInv, TypeOK, VersionsInv, DeleteInv
      <4>2. ~HasResources(cur)
        BY <1>1, <4>1 DEF IInv, DependenciesInv, HasResources
      <4>3. api[cur].phase = "deleting"
        BY <1>2, <2>1, <4>1 DEF Unconflicted, Sound, AWSClusters
      <4> QED
        BY <4>1, <4>2, <4>3
    <3>2. n.phase \in {"deleting", "gone"} /\ ResolverRulesFinalizer \notin n.fins
      BY <3>1, RemoveFinalizerFacts DEF Finalizers, Follows, AWSClusters
    <3>3. api' = [api EXCEPT ![cur] = n] /\ UNCHANGED <<sg, rule, ep, assoc>>
      BY <1>3, <2>1 DEF RemoveFinalizerCall
    <3> HIDE DEF n
    <3> QED
      BY <1>1, <3>1, <3>2, <3>3, ApiStep
  <2>2. CASE ~Unconflicted(api[cur], copy)
    BY <1>1, <1>3, <2>2, ResourceStep DEF RemoveFinalizerCall, HasResources
  <2> QED
    BY <2>1, <2>2
<1>4. CASE FindRule \/ DeleteResourceShare \/ FindAssociations \/ DisassociateDone
  <2>1. UNCHANGED <<api, sg, rule, ep, assoc>>
    BY <1>4 DEF FindRule, DeleteResourceShare, FindAssociations, DisassociateDone
  <2> QED
    BY <1>1, <2>1, ResourceStep DEF HasResources
<1>5. CASE DisassociateDNS
  <2>1. UNCHANGED <<api, sg, rule, ep>> /\ found = cur
        /\ \A b \in Clusters \ {cur}, v \in VPCs : <<b, v>> \in assoc' <=> <<b, v>> \in assoc
    BY <1>5 DEF DisassociateDNS, IInv, DeleteInv
  <2>2. \A b \in Clusters \ {cur} : HasResources(b)' = HasResources(b)
    BY <2>1 DEF HasResources
  <2> QED
    BY <1>1, <1>2, <2>1, <2>2, ResourceStep
<1>6. CASE DeleteRule
  <2>1. UNCHANGED <<api, sg, ep, assoc>>
        /\ \A b \in Clusters \ {cur} : rule'[b] = rule[b]
    BY <1>1, <1>6 DEF DeleteRule, IInv, TypeOK, DeleteInv
  <2>2. \A b \in Clusters \ {cur} : HasResources(b)' = HasResources(b)
    BY <2>1 DEF HasResources
  <2> QED
    BY <1>1, <1>2, <2>1, <2>2, ResourceStep
<1>7. CASE DeleteEndpoint("inbound", "deleteInbound") \/ DeleteEndpoint("outbound", "deleteOutbound")
  <2>1. UNCHANGED <<api, sg, rule, assoc>>
        /\ \A b \in Clusters \ {cur} : ep'[b] = ep[b]
    BY <1>7 DEF DeleteEndpoint, IInv, TypeOK
  <2>2. \A b \in Clusters \ {cur} : HasResources(b)' = HasResources(b)
    BY <2>1 DEF HasResources
  <2> QED
    BY <1>1, <1>2, <2>1, <2>2, ResourceStep
<1>8. CASE DeleteSecurityGroup
  <2>1. UNCHANGED <<api, rule, ep, assoc>>
        /\ \A b \in Clusters \ {cur} : sg'[b] = sg[b]
    BY <1>8 DEF DeleteSecurityGroup, IInv, TypeOK
  <2>2. \A b \in Clusters \ {cur} : HasResources(b)' = HasResources(b)
    BY <2>1 DEF HasResources
  <2> QED
    BY <1>1, <1>2, <2>1, <2>2, ResourceStep
<1>9. ASSUME NEW r \in Rules, DisassociateRule(r) PROVE [Guard!Next]_(Guard!vars)
  <2>1. /\ UNCHANGED <<api, sg, rule, ep>>
        /\ \A b \in Clusters, v \in VPCs : <<b, v>> \in assoc' => <<b, v>> \in assoc
        /\ \A b \in Clusters, v \in VPCs : <<b, v>> \in assoc => rule[b]
    BY <1>9 DEF DisassociateRule, IInv, DependenciesInv
  <2>2. \A b \in Clusters : HasResources(b)' = HasResources(b)
    BY <2>1 DEF HasResources
  <2> QED
    BY <1>1, <2>1, <2>2, ResourceStep
<1> QED
  BY <1>3, <1>4, <1>5, <1>6, <1>7, <1>8, <1>9 DEF Delete

\* What users, other controllers and AWS do maps to a step or to none.
LEMMA EnvironmentRefines ==
  ASSUME IInv, IInv', Environment PROVE [Guard!Next]_(Guard!vars)
<1> USE DEF objVars, awsVars, workVars
<1> PICK c \in Clusters :
       \/ \E d \in Directions : EndpointDeleted(c, d)
       \/ CacheSync(c) \/ UserDelete(c)
       \/ NetworkEdit(c) \/ FinalizerEdit(c) \/ AnnotationEdit(c)
  BY DEF Environment
<1>1. Sound(api[c])
  BY DEF Sound, IInv, TypeOK, VersionsInv
<1>2. ASSUME NEW d \in Directions, EndpointDeleted(c, d) PROVE [Guard!Next]_(Guard!vars)
  <2>1. UNCHANGED <<api, sg, rule, assoc>> /\ \A b \in Clusters \ {c} : ep'[b] = ep[b]
    BY <1>2 DEF EndpointDeleted, IInv, TypeOK
  <2>2. sg[c]
    BY <1>2 DEF EndpointDeleted, IInv, DependenciesInv
  <2>3. HasResources(c)' /\ \A b \in Clusters \ {c} : HasResources(b)' = HasResources(b)
    BY <2>1, <2>2 DEF HasResources
  <2> QED
    BY <2>1, <2>3, ResourceStep
<1>3. CASE CacheSync(c)
  BY <1>3, ResourceStep DEF CacheSync, HasResources
<1>4. CASE UserDelete(c)
  <2>1. api[c].phase = "live" /\ api' = [api EXCEPT ![c] = DeletionRequested(api[c])]
        /\ UNCHANGED <<sg, rule, ep, assoc>>
    BY <1>4 DEF UserDelete
  <2> QED
    BY <1>1, <2>1, DeletionRequestedFacts, ApiStep
<1>5. ASSUME NEW n \in AWSClusters, Edit(c, n), n.rv = api[c].rv, n.phase = api[c].phase,
             ResolverRulesFinalizer \in n.fins <=> ResolverRulesFinalizer \in api[c].fins
      PROVE  [Guard!Next]_(Guard!vars)
  <2> DEFINE s == Stored(api[c], n)
  <2>1. api[c].phase # "gone" /\ api' = [api EXCEPT ![c] = s]
        /\ UNCHANGED <<sg, rule, ep, assoc>>
    BY <1>5 DEF Edit
  <2>2. api[c] \in AWSClusters /\ api[c].phase \in {"live", "deleting", "gone"}
    BY <1>1 DEF Sound, AWSClusters
  <2>3. /\ s.fins = n.fins
        /\ s.phase \in {n.phase, "gone"}
        /\ n.phase = "live" => s.phase = "live"
        /\ s.phase = "gone" => n.fins = {}
    BY <1>5, <2>1, <2>2, StoredType
  <2> HIDE DEF s
  <2> QED
    BY <1>5, <2>1, <2>2, <2>3, ApiStep
<1>6. api[c] \in AWSClusters
  BY <1>1 DEF Sound
<1>7. CASE NetworkEdit(c)
  <2>1. PICK k \in NetworkConditions :
          \/ Edit(c, [api[c] EXCEPT !.conds = @ \cup {k}])
          \/ Edit(c, [api[c] EXCEPT !.conds = @ \ {k}])
    BY <1>7 DEF NetworkEdit
  <2>2. \A s \in SUBSET Conditions :
          LET n == [api[c] EXCEPT !.conds = s]
          IN  n \in AWSClusters /\ n.rv = api[c].rv /\ n.phase = api[c].phase
              /\ n.fins = api[c].fins
    BY <1>6 DEF AWSClusters
  <2>3. /\ api[c].conds \cup {k} \in SUBSET Conditions
        /\ api[c].conds \ {k} \in SUBSET Conditions
    BY <1>6, <2>1 DEF AWSClusters, Conditions
  <2> QED
    BY <2>1, <2>2, <2>3, <1>5
<1>8. CASE FinalizerEdit(c)
  <2>1. PICK f \in OtherFinalizers :
          \/ Edit(c, [api[c] EXCEPT !.fins = @ \cup {f}])
          \/ Edit(c, [api[c] EXCEPT !.fins = @ \ {f}])
    BY <1>8 DEF FinalizerEdit
  <2>2. \A s \in SUBSET Finalizers :
          LET n == [api[c] EXCEPT !.fins = s]
          IN  n \in AWSClusters /\ n.rv = api[c].rv /\ n.phase = api[c].phase
              /\ n.fins = s
    BY <1>6 DEF AWSClusters
  <2>3. /\ api[c].fins \cup {f} \in SUBSET Finalizers
        /\ api[c].fins \ {f} \in SUBSET Finalizers
        /\ f # ResolverRulesFinalizer
    BY <1>6, <2>1, OtherFinalizersAssumption DEF AWSClusters, Finalizers
  <2>4. CASE Edit(c, [api[c] EXCEPT !.fins = @ \cup {f}])
    <3> DEFINE n == [api[c] EXCEPT !.fins = api[c].fins \cup {f}]
    <3>1. n \in AWSClusters /\ n.rv = api[c].rv /\ n.phase = api[c].phase
          /\ n.fins = api[c].fins \cup {f} /\ Edit(c, n)
      BY <2>2, <2>3, <2>4
    <3> HIDE DEF n
    <3> QED
      BY <2>3, <3>1, <1>5
  <2>5. CASE Edit(c, [api[c] EXCEPT !.fins = @ \ {f}])
    <3> DEFINE n == [api[c] EXCEPT !.fins = api[c].fins \ {f}]
    <3>1. n \in AWSClusters /\ n.rv = api[c].rv /\ n.phase = api[c].phase
          /\ n.fins = api[c].fins \ {f} /\ Edit(c, n)
      BY <2>2, <2>3, <2>5
    <3> HIDE DEF n
    <3> QED
      BY <2>3, <3>1, <1>5
  <2> QED
    BY <2>1, <2>4, <2>5
<1>9. CASE AnnotationEdit(c)
  <2>1. \/ Edit(c, [api[c] EXCEPT !.owner = ~@])
        \/ Edit(c, [api[c] EXCEPT !.dnsMode = IF @ = "private" THEN "public" ELSE "private"])
    BY <1>9 DEF AnnotationEdit
  <2>2. LET n == [api[c] EXCEPT !.owner = ~@]
        IN  n \in AWSClusters /\ n.rv = api[c].rv /\ n.phase = api[c].phase
            /\ n.fins = api[c].fins
    BY <1>6 DEF AWSClusters
  <2>3. LET n == [api[c] EXCEPT !.dnsMode = IF @ = "private" THEN "public" ELSE "private"]
        IN  n \in AWSClusters /\ n.rv = api[c].rv /\ n.phase = api[c].phase
            /\ n.fins = api[c].fins
    BY <1>6 DEF AWSClusters
  <2> QED
    BY <2>1, <2>2, <2>3, <1>5
<1> QED
  BY <1>2, <1>3, <1>4, <1>7, <1>8, <1>9

\* A reconciliation that starts, fails or ends changes neither the objects
\* nor AWS.
LEMMA IdleRefines ==
  ASSUME IInv, IInv', UNCHANGED <<api, sg, rule, ep, assoc>>
  PROVE  [Guard!Next]_(Guard!vars)
<1>1. cur \in Clusters
  BY DEF IInv, TypeOK
<1> QED
  BY <1>1, ResourceStep DEF HasResources

\* The resolver rules controller implements GuardedResource: for every
\* AWSCluster the finalizer goes on before a security group, endpoint, rule or
\* association of the rule is made, none is left when it comes off, and a live
\* cluster keeps what it has.
THEOREM Refinement == Spec => GuardsResources
<1>1. Init => Guard!Init
  <2> SUFFICES ASSUME Init PROVE Guard!Init
    OBVIOUS
  <2>1. \A c \in Clusters : /\ api[c].phase = "live"
                           /\ ResolverRulesFinalizer \notin api[c].fins
                           /\ ~HasResources(c)
    BY InitialClustersAssumption DEF Init, HasResources
  <2>2. \A c \in Clusters : (ResolverRulesFinalizer \in api[c].fins) = FALSE
    BY <2>1
  <2>3. \A c \in Clusters : HasResources(c) = FALSE
    BY <2>1, Zenon DEF HasResources
  <2>4. [c \in Clusters |-> api[c].phase] = [c \in Clusters |-> "live"]
    BY <2>1, Zenon
  <2>5. [c \in Clusters |-> ResolverRulesFinalizer \in api[c].fins]
          = [c \in Clusters |-> FALSE]
    BY <2>2, Zenon
  <2>6. [c \in Clusters |-> HasResources(c)] = [c \in Clusters |-> FALSE]
    BY <2>3, Zenon
  <2> QED
    BY <2>4, <2>5, <2>6 DEF Guard!Init
<1>2. IInv /\ IInv' /\ [Next]_vars => [Guard!Next]_(Guard!vars)
  <2> SUFFICES ASSUME IInv, IInv', [Next]_vars PROVE [Guard!Next]_(Guard!vars)
    OBVIOUS
  <2>1. ASSUME NEW c \in Clusters, Reconcile(c) \/ Skip(c) PROVE [Guard!Next]_(Guard!vars)
    BY <2>1, IdleRefines DEF Reconcile, Skip, objVars, awsVars
  <2>2. CASE Fail
    BY <2>2, IdleRefines DEF Fail, objVars, awsVars
  <2>3. CASE UNCHANGED vars
    BY <2>3, IdleRefines DEF vars, objVars, awsVars
  <2> QED
    BY <2>1, <2>2, <2>3, NormalRefines, DeleteRefines, EnvironmentRefines DEF Next
<1> QED
  BY <1>1, <1>2, Invariance, PTL DEF Spec, GuardsResources, Guard!Spec

-----------------------------------------------------------------------------
(* No resource is taken away from a live cluster.                          *)

\* The steps of a deletion run for a cluster whose deletion was requested,
\* and an endpoint that is being deleted belongs to such a cluster.
LEMMA LiveStep ==
  ASSUME IInv, [Next]_vars, NEW c \in Clusters, api[c].phase = "live"
  PROVE  /\ sg[c] => sg'[c]
         /\ rule[c] => rule'[c]
         /\ \A d \in Directions : ep[c][d] # "none" => ep'[c][d] = ep[c][d]
<1> USE DEF Call, Goto, Return, objVars, awsVars, workVars
<1>1. /\ cur \in Clusters
      /\ pc \in DeleteSteps => c # cur
      /\ \A d \in Directions : ep[c][d] # "deleting"
  BY DEF IInv, TypeOK, VersionsInv, DeleteInv, DependenciesInv
<1>2. CASE (\E b \in Clusters : Reconcile(b) \/ Skip(b)) \/ Fail \/ UNCHANGED vars
  BY <1>2 DEF Reconcile, Skip, Fail, vars
<1>3. CASE Normal
  <2>1. CASE CreateSecurityGroup
    BY <1>1, <2>1 DEF CreateSecurityGroup, IInv, TypeOK
  <2>2. CASE CreateRule
    BY <1>1, <2>2 DEF CreateRule, IInv, TypeOK
  <2>3. ASSUME NEW d \in Directions, CreateEndpoint(d)
        PROVE  UNCHANGED <<sg, rule>> /\ \A e \in Directions : ep[c][e] # "none" => ep'[c][e] = ep[c][e]
    BY <1>1, <2>3 DEF CreateEndpoint, IInv, TypeOK
  <2>4. CASE \/ AddFinalizerCall \/ FindRules \/ (\E r \in Rules : AssociateRule(r))
             \/ AssociateDone \/ MarkConditionCall \/ AuthorizeIngress \/ LookupRule
             \/ ApplyResourceShare \/ AssociateDNS
    BY <2>4 DEF AddFinalizerCall, FindRules, AssociateRule, AssociateDone, MarkConditionCall,
       AuthorizeIngress, LookupRule, ApplyResourceShare, AssociateDNS
  <2> QED
    BY <1>3, <2>1, <2>2, <2>3, <2>4 DEF Normal
<1>4. CASE Delete
  <2>1. c # cur
    BY <1>1, <1>4 DEF Delete, FindRule, DisassociateDNS, DeleteRule, DeleteEndpoint,
       DeleteResourceShare, DeleteSecurityGroup, FindAssociations, DisassociateRule,
       DisassociateDone, RemoveFinalizerCall, DeleteSteps
  <2>2. CASE DeleteRule
    BY <1>1, <2>1, <2>2 DEF DeleteRule, IInv, TypeOK, DeleteInv
  <2>3. CASE DeleteSecurityGroup
    BY <1>1, <2>1, <2>3 DEF DeleteSecurityGroup, IInv, TypeOK
  <2>4. CASE \/ DeleteEndpoint("inbound", "deleteInbound")
             \/ DeleteEndpoint("outbound", "deleteOutbound")
    BY <1>1, <2>1, <2>4 DEF DeleteEndpoint, IInv, TypeOK
  <2>5. CASE \/ FindRule \/ DisassociateDNS \/ DeleteResourceShare \/ FindAssociations
             \/ (\E r \in Rules : DisassociateRule(r)) \/ DisassociateDone \/ RemoveFinalizerCall
    BY <2>5 DEF FindRule, DisassociateDNS, DeleteResourceShare, FindAssociations,
       DisassociateRule, DisassociateDone, RemoveFinalizerCall
  <2> QED
    BY <1>4, <2>2, <2>3, <2>4, <2>5 DEF Delete
<1>5. CASE Environment
  <2> PICK b \in Clusters :
         \/ \E d \in Directions : EndpointDeleted(b, d)
         \/ CacheSync(b) \/ UserDelete(b)
         \/ NetworkEdit(b) \/ FinalizerEdit(b) \/ AnnotationEdit(b)
    BY <1>5 DEF Environment
  <2>1. ASSUME NEW d \in Directions, EndpointDeleted(b, d)
        PROVE  UNCHANGED <<sg, rule>> /\ ep'[c] = ep[c]
    BY <1>1, <2>1 DEF EndpointDeleted, IInv, TypeOK
  <2>2. CASE CacheSync(b) \/ UserDelete(b)
    BY <2>2 DEF CacheSync, UserDelete
  <2>3. CASE NetworkEdit(b) \/ FinalizerEdit(b) \/ AnnotationEdit(b)
    BY <2>3 DEF NetworkEdit, FinalizerEdit, AnnotationEdit, Edit
  <2> QED
    BY <2>1, <2>2, <2>3
<1> QED
  BY <1>2, <1>3, <1>4, <1>5 DEF Next

\* Whatever the cache shows and however often a deletion fails and starts
\* again, no step of the system removes the security group, the rule or an
\* endpoint of a cluster that nobody asked to delete.
THEOREM LiveClustersAlwaysKeepResources == Spec => LiveClustersKeepResources
<1>1. IInv /\ [Next]_vars =>
        [\A c \in Clusters : api[c].phase = "live" =>
           /\ sg[c] => sg'[c]
           /\ rule[c] => rule'[c]
           /\ \A d \in Directions : ep[c][d] # "none" => ep'[c][d] = ep[c][d]]_vars
  BY LiveStep
<1> QED
  BY <1>1, Invariance, PTL DEF Spec, LiveClustersKeepResources
=============================================================================
