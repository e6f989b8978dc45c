------------------------ MODULE ClusterUnpauseProofs ------------------------
(***************************************************************************)
(* The hand-over to CAPA is safe for any number of clusters, rules,        *)
(* failures and edits: no cluster is unpaused before it is connected.      *)
(***************************************************************************)
EXTENDS ClusterUnpause, ResolverRulesProofs

\* A cluster that must be connected before CAPA may have it.
NeedsRules(c) == api[c].phase = "live" /\ Managed(api[c]) /\ api[c].owner

Associated(c) == \A r \in ForeignRules : <<r, c>> \in assoc
Connected(c)  == ResolverRulesFinalizer \in api[c].fins /\ Associated(c)

SameAnnotations(o, n) ==
  o.identity = n.identity /\ o.dnsMode = n.dnsMode /\ o.owner = n.owner

\* Every copy of an AWSCluster has the annotations of the stored one.
AnnotationsInv ==
  /\ \A c \in Clusters : SameAnnotations(cache[c], api[c])
  /\ SameAnnotations(copy, api[cur])

\* How far the loop over the rules has come.
LoopInv ==
  /\ pc = "associate" => \A r \in ForeignRules : r \in todo \/ <<r, cur>> \in assoc
  /\ (pc = "markCondition" /\ api[cur].owner) => Associated(cur)

\* Wherever the condition is seen, however old the copy, it is true.
ConditionInv ==
  /\ \A c \in Clusters :
       (NeedsRules(c) /\ ResolverRulesAssociated \in api[c].conds \cup cache[c].conds)
         => Connected(c)
  /\ (NeedsRules(cur) /\ ResolverRulesAssociated \in copy.conds) => Connected(cur)

PathInv == AnnotationsInv /\ LoopInv /\ ConditionInv

\* What the unpause worker may do next.
HandOverInv ==
  /\ paused \in [Clusters -> BOOLEAN]
  /\ upc \in {"idle", "patchCluster", "patchAWSCluster"}
  /\ ucur \in Clusters
  /\ (upc # "idle" /\ NeedsRules(ucur)) => Connected(ucur)
  /\ \A c \in Clusters : (~paused[c] /\ NeedsRules(c)) => Connected(c)

UnpauseInv == IInv /\ PathInv /\ HandOverInv

\* A step that disconnects no cluster that needs the rules.
KeepsConnected ==
  \A c \in Clusters :
    NeedsRules(c)' => NeedsRules(c) /\ (Connected(c) => Connected(c)')

-----------------------------------------------------------------------------
(* What the writes to an AWSCluster leave of its annotations and           *)
(* conditions.                                                             *)

LEMMA StoredKeeps ==
  ASSUME NEW o \in AWSClusters, NEW n \in AWSClusters, n.rv = o.rv, SameAnnotations(n, o)
  PROVE  SameAnnotations(Stored(o, n), o) /\ Stored(o, n).conds = n.conds
  BY StoredType DEF SameAnnotations

LEMMA WritesKeep ==
  ASSUME NEW o \in AWSClusters
  PROVE  /\ \A s \in SUBSET Finalizers :
              LET m == Stored(o, [o EXCEPT !.fins = s])
              IN  SameAnnotations(m, o) /\ m.conds = o.conds
         /\ \A s \in SUBSET Conditions :
              LET m == Stored(o, [o EXCEPT !.conds = s])
              IN  SameAnnotations(m, o) /\ m.conds = s
         /\ LET m == Stored(o, [o EXCEPT !.paused = FALSE])
            IN  SameAnnotations(m, o) /\ m.conds = o.conds
         /\ SameAnnotations(DeletionRequested(o), o)
         /\ DeletionRequested(o).conds = o.conds
<1>1. ASSUME NEW s \in SUBSET Finalizers
      PROVE  LET n == [o EXCEPT !.fins = s]
             IN  n \in AWSClusters /\ n.rv = o.rv /\ SameAnnotations(n, o) /\ n.conds = o.conds
  BY DEF AWSClusters, SameAnnotations
<1>2. ASSUME NEW s \in SUBSET Conditions
      PROVE  LET n == [o EXCEPT !.conds = s]
             IN  n \in AWSClusters /\ n.rv = o.rv /\ SameAnnotations(n, o) /\ n.conds = s
  BY DEF AWSClusters, SameAnnotations
<1>3. LET n == [o EXCEPT !.paused = FALSE]
      IN  n \in AWSClusters /\ n.rv = o.rv /\ SameAnnotations(n, o) /\ n.conds = o.conds
  BY DEF AWSClusters, SameAnnotations
<1>4. SameAnnotations(DeletionRequested(o), o) /\ DeletionRequested(o).conds = o.conds
  BY DEF DeletionRequested, AWSClusters, SameAnnotations
<1> QED
  BY <1>1, <1>2, <1>3, <1>4, StoredKeeps

-----------------------------------------------------------------------------
(* Steps that leave the objects alone.                                     *)

LEMMA QuietStep ==
  ASSUME IInv, PathInv, LoopInv', UNCHANGED <<api, cache, cur, copy>>,
         \A c \in Clusters, r \in ForeignRules :
           (api[c].phase = "live" /\ <<r, c>> \in assoc) => <<r, c>> \in assoc'
  PROVE  PathInv' /\ KeepsConnected
<1>1. cur \in Clusters
  BY DEF IInv, TypeOK
<1> QED
  BY <1>1 DEF PathInv, AnnotationsInv, ConditionInv, KeepsConnected, NeedsRules, Connected,
     Associated

\* The steps outside the loop over the rules of the account.
LEMMA OtherStep ==
  ASSUME IInv, PathInv, pc' \notin {"associate", "markCondition"},
         UNCHANGED <<api, cache, cur, copy>>,
         \A c \in Clusters, r \in ForeignRules :
           (api[c].phase = "live" /\ <<r, c>> \in assoc) => <<r, c>> \in assoc'
  PROVE  PathInv' /\ KeepsConnected
<1>1. LoopInv'
  BY DEF LoopInv
<1> QED
  BY <1>1, QuietStep

LEMMA SetUpKeeps ==
  ASSUME IInv, PathInv,
         \/ CreateSecurityGroup \/ AuthorizeIngress \/ LookupRule \/ CreateRule
         \/ \E d \in Directions : CreateEndpoint(d)
         \/ ApplyResourceShare \/ AssociateDNS
  PROVE  PathInv' /\ KeepsConnected
<1>1. /\ pc' \notin {"associate", "markCondition"}
      /\ UNCHANGED <<api, cache, cur, copy>>
      /\ assoc \subseteq assoc'
  BY DEF CreateSecurityGroup, AuthorizeIngress, LookupRule, CreateRule, CreateEndpoint,
     ApplyResourceShare, AssociateDNS, Goto, Return, objVars, awsVars
<1> QED
  BY <1>1, OtherStep

LEMMA TearDownKeeps ==
  ASSUME IInv, PathInv,
         \/ FindRule \/ DisassociateDNS \/ DeleteRule
         \/ DeleteEndpoint("inbound", "deleteInbound")
         \/ DeleteEndpoint("outbound", "deleteOutbound")
         \/ DeleteResourceShare \/ DeleteSecurityGroup \/ FindAssociations
         \/ DisassociateDone
  PROVE  PathInv' /\ KeepsConnected
<1>1. /\ pc' \notin {"associate", "markCondition"}
      /\ UNCHANGED <<api, cache, cur, copy>>
      /\ assoc' \in {assoc, assoc \ {<<found, DNSServerVPC>>}}
  BY DEF FindRule, DisassociateDNS, DeleteRule, DeleteEndpoint, DeleteResourceShare,
     DeleteSecurityGroup, FindAssociations, DisassociateDone, Goto, Return, ReturnError,
     objVars, awsVars
<1>2. \A c \in Clusters, r \in ForeignRules : <<r, c>> \in assoc => <<r, c>> \in assoc'
  BY <1>1, ConstantsAssumption
<1> QED
  BY <1>1, <1>2, OtherStep

\* Rules are taken away from a cluster only when its deletion was requested.
LEMMA DisassociateRuleKeeps ==
  ASSUME IInv, PathInv, NEW q \in Rules, DisassociateRule(q)
  PROVE  PathInv' /\ KeepsConnected
<1>1. /\ pc' = "disassociate" /\ pc = "disassociate"
      /\ UNCHANGED <<api, cache, cur, copy>>
      /\ assoc' \in {assoc, assoc \ {<<q, cur>>}}
  BY DEF DisassociateRule, Call, objVars
<1>2. api[cur].phase # "live"
  BY <1>1 DEF IInv, TypeOK, DeleteInv, VersionsInv, DeleteSteps
<1>3. \A c \in Clusters, r \in ForeignRules :
        (api[c].phase = "live" /\ <<r, c>> \in assoc) => <<r, c>> \in assoc'
  BY <1>1, <1>2
<1> QED
  BY <1>1, <1>3, OtherStep

LEMMA IdleKeeps ==
  ASSUME IInv, PathInv, Fail \/ \E c \in Clusters : Skip(c)
  PROVE  PathInv' /\ KeepsConnected
<1>1. /\ pc' \notin {"associate", "markCondition"}
      /\ UNCHANGED <<api, cache, cur, copy, assoc>>
  BY DEF Fail, Skip, Call, objVars, awsVars
<1> QED
  BY <1>1, OtherStep

\* The loop: no rule of the account is left out.
LEMMA AssociateKeeps ==
  ASSUME IInv, PathInv, HandOverAssumed,
         FindRules \/ AssociateDone \/ \E q \in Rules : AssociateRule(q)
  PROVE  PathInv' /\ KeepsConnected
<1> USE DEF Call, Goto, objVars, awsVars
<1>1. UNCHANGED <<api, cache, cur, copy>> /\ assoc \subseteq assoc'
  BY DEF FindRules, AssociateDone, AssociateRule
<1>2. LoopInv'
  <2>1. CASE FindRules
    BY <2>1, ConstantsAssumption DEF FindRules, AccountRules, ExistingRules, LoopInv, IInv, TypeOK
  <2>2. CASE AssociateDone
    BY <2>2 DEF AssociateDone, LoopInv, PathInv, Associated
  <2>3. ASSUME NEW q \in Rules, AssociateRule(q) PROVE LoopInv'
    <3>1. pc = "associate" /\ pc' = "associate" /\ todo' = todo \ {q} /\ cur' = cur
      BY <2>3 DEF AssociateRule
    <3>2. assoc' = IF q \in ExistingRules THEN assoc \cup {<<q, cur>>} ELSE assoc
      BY <2>3 DEF AssociateRule, HandOverAssumed
    <3> QED
      BY <3>1, <3>2 DEF ExistingRules, LoopInv, PathInv
  <2> QED
    BY <2>1, <2>2, <2>3
<1> QED
  BY <1>1, <1>2, QuietStep

LEMMA ReconcileKeeps ==
  ASSUME IInv, PathInv, NEW c \in Clusters, Reconcile(c)
  PROVE  PathInv' /\ KeepsConnected
<1>1. /\ pc' \in {"findRule", "addFinalizer"} /\ cur' = c /\ copy' = cache[c]
      /\ UNCHANGED <<api, cache, assoc>>
  BY DEF Reconcile, objVars, awsVars
<1> QED
  BY <1>1 DEF PathInv, AnnotationsInv, LoopInv, ConditionInv, KeepsConnected, NeedsRules,
     Connected, Associated

LEMMA EndpointDeletedKeeps ==
  ASSUME IInv, PathInv, NEW c \in Clusters, NEW d \in Directions, EndpointDeleted(c, d)
  PROVE  PathInv' /\ KeepsConnected
<1>1. UNCHANGED <<api, cache, workVars, assoc>>
  BY DEF EndpointDeleted, objVars
<1>2. LoopInv'
  BY <1>1 DEF PathInv, LoopInv, Associated, workVars
<1> QED
  BY <1>1, <1>2, QuietStep DEF workVars

\* The cache receives the stored object, whose condition is true.
LEMMA CacheSyncKeeps ==
  ASSUME IInv, PathInv, NEW c \in Clusters, CacheSync(c)
  PROVE  PathInv' /\ KeepsConnected
<1>1. /\ \A b \in Clusters : cache'[b] = IF b = c THEN api[b] ELSE cache[b]
      /\ UNCHANGED <<api, pc, cur, copy, todo, assoc>>
  BY DEF CacheSync, awsVars, IInv, TypeOK
<1>2. AnnotationsInv'
  BY <1>1 DEF PathInv, AnnotationsInv, SameAnnotations
<1>3. LoopInv'
  BY <1>1 DEF PathInv, LoopInv, Associated
<1>4. ConditionInv' /\ KeepsConnected
  BY <1>1 DEF PathInv, ConditionInv, KeepsConnected, NeedsRules, Connected, Associated
<1> QED
  BY <1>2, <1>3, <1>4 DEF PathInv

-----------------------------------------------------------------------------
(* Steps that write to an AWSCluster.                                      *)

\* What makes a write harmless to a connected cluster.
Harmless(o, n) ==
  /\ SameAnnotations(n, o)
  /\ n.phase = "live" =>
       /\ o.phase = "live"
       /\ ResolverRulesFinalizer \in o.fins => ResolverRulesFinalizer \in n.fins

LEMMA HarmlessWrite ==
  ASSUME IInv, NEW c \in Clusters, NEW n, Harmless(api[c], n),
         api' = [api EXCEPT ![c] = n], UNCHANGED assoc
  PROVE  /\ KeepsConnected
         /\ \A b \in Clusters : api'[b] = IF b = c THEN n ELSE api[b]
         /\ \A b \in Clusters : SameAnnotations(api'[b], api[b])
<1>1. \A b \in Clusters : api'[b] = IF b = c THEN n ELSE api[b]
  BY DEF IInv, TypeOK
<1> QED
  BY <1>1 DEF KeepsConnected, Harmless, SameAnnotations, NeedsRules, Managed, Connected, Associated

\* A write of somebody else, who does not set the condition.
LEMMA ForeignWriteKeeps ==
  ASSUME IInv, PathInv, NEW c \in Clusters, NEW n, Harmless(api[c], n),
         ResolverRulesAssociated \in n.conds => ResolverRulesAssociated \in api[c].conds,
         api' = [api EXCEPT ![c] = n], UNCHANGED <<cache, workVars, assoc>>
  PROVE  PathInv' /\ KeepsConnected
<1>1. /\ KeepsConnected
      /\ \A b \in Clusters : api'[b] = IF b = c THEN n ELSE api[b]
      /\ \A b \in Clusters : SameAnnotations(api'[b], api[b])
  BY HarmlessWrite
<1>2. cur \in Clusters /\ UNCHANGED <<pc, cur, copy, todo, cache, assoc>>
  BY DEF IInv, TypeOK, workVars
<1>3. AnnotationsInv'
  BY <1>1, <1>2 DEF PathInv, AnnotationsInv, SameAnnotations
<1>4. LoopInv'
  BY <1>1, <1>2 DEF PathInv, LoopInv, Associated, SameAnnotations
<1>5. ConditionInv'
  BY <1>1, <1>2 DEF PathInv, ConditionInv, KeepsConnected
<1> QED
  BY <1>1, <1>3, <1>4, <1>5 DEF PathInv

LEMMA UserDeleteKeeps ==
  ASSUME IInv, PathInv, NEW c \in Clusters, UserDelete(c)
  PROVE  PathInv' /\ KeepsConnected
<1>1. Sound(api[c]) /\ api[c].phase = "live" /\ api[c] \in AWSClusters
  BY DEF UserDelete, IInv, TypeOK, VersionsInv, Sound
<1>2. Harmless(api[c], DeletionRequested(api[c]))
  BY <1>1, WritesKeep, DeletionRequestedFacts DEF Harmless
<1>3. DeletionRequested(api[c]).conds = api[c].conds
  BY <1>1, WritesKeep
<1>4. /\ api' = [api EXCEPT ![c] = DeletionRequested(api[c])]
      /\ UNCHANGED <<cache, workVars, assoc>>
  BY DEF UserDelete, awsVars
<1> QED
  BY <1>2, <1>3, <1>4, ForeignWriteKeeps

LEMMA StoredHarmless ==
  ASSUME NEW o \in AWSClusters, NEW n \in AWSClusters, n.rv = o.rv, n.phase = o.phase,
         SameAnnotations(n, o),
         ResolverRulesFinalizer \in o.fins => ResolverRulesFinalizer \in n.fins
  PROVE  Harmless(o, Stored(o, n)) /\ Stored(o, n).conds = n.conds
  BY StoredType DEF Harmless, SameAnnotations

\* Others change the conditions of the network and their own finalizers.
LEMMA EditKeeps ==
  ASSUME IInv, PathInv, HandOverAssumed, NEW c \in Clusters,
         NetworkEdit(c) \/ FinalizerEdit(c) \/ AnnotationEdit(c)
  PROVE  PathInv' /\ KeepsConnected
<1>1. api[c] \in AWSClusters
  BY DEF IInv, TypeOK
<1>2. ~AnnotationEdit(c)
  BY DEF AnnotationEdit, HandOverAssumed
<1> DEFINE Minor(n) ==
             /\ n \in AWSClusters /\ n.rv = api[c].rv /\ n.phase = api[c].phase
             /\ SameAnnotations(n, api[c])
             /\ ResolverRulesFinalizer \in api[c].fins <=> ResolverRulesFinalizer \in n.fins
             /\ ResolverRulesAssociated \in api[c].conds <=> ResolverRulesAssociated \in n.conds
<1>3. PICK n : Edit(c, n) /\ Minor(n)
  <2>1. CASE NetworkEdit(c)
    <3>1. PICK k \in NetworkConditions :
            \/ Edit(c, [api[c] EXCEPT !.conds = @ \cup {k}])
            \/ Edit(c, [api[c] EXCEPT !.conds = @ \ {k}])
      BY <2>1 DEF NetworkEdit
    <3>2. /\ api[c].conds \cup {k} \in SUBSET Conditions
          /\ api[c].conds \ {k} \in SUBSET Conditions
          /\ k # ResolverRulesAssociated
      BY <1>1, <3>1 DEF AWSClusters, Conditions, NetworkConditions, ResolverRulesAssociated
    <3>3. ASSUME NEW s \in SUBSET Conditions,
                 ResolverRulesAssociated \in api[c].conds <=> ResolverRulesAssociated \in s
          PROVE  Minor([api[c] EXCEPT !.conds = s])
      BY <1>1, <3>3 DEF AWSClusters, SameAnnotations
    <3> HIDE DEF Minor
    <3> QED
      BY <3>1, <3>2, <3>3
  <2>2. CASE FinalizerEdit(c)
    <3>1. PICK f \in OtherFinalizers :
            \/ Edit(c, [api[c] EXCEPT !.fins = @ \cup {f}])
            \/ Edit(c, [api[c] EXCEPT !.fins = @ \ {f}])
      BY <2>2 DEF FinalizerEdit
    <3>2. /\ api[c].fins \cup {f} \in SUBSET Finalizers
          /\ api[c].fins \ {f} \in SUBSET Finalizers
          /\ f # ResolverRulesFinalizer
      BY <1>1, <3>1, OtherFinalizersAssumption DEF AWSClusters, Finalizers
    <3>3. ASSUME NEW s \in SUBSET Finalizers,
                 ResolverRulesFinalizer \in api[c].fins <=> ResolverRulesFinalizer \in s
          PROVE  Minor([api[c] EXCEPT !.fins = s])
      BY <1>1, <3>3 DEF AWSClusters, SameAnnotations
    <3> HIDE DEF Minor
    <3> QED
      BY <3>1, <3>2, <3>3
  <2> QED
    BY <1>2, <2>1, <2>2
<1>4. Harmless(api[c], Stored(api[c], n)) /\ Stored(api[c], n).conds = n.conds
  BY <1>1, <1>3, StoredHarmless
<1>5. /\ api' = [api EXCEPT ![c] = Stored(api[c], n)]
      /\ UNCHANGED <<cache, workVars, assoc>>
  BY <1>3 DEF Edit, awsVars
<1> QED
  BY <1>3, <1>4, <1>5, ForeignWriteKeeps

\* The worker begins the loop, or skips it for a cluster without an owner.
LEMMA AddFinalizerKeeps ==
  ASSUME IInv, PathInv, AddFinalizerCall
  PROVE  PathInv' /\ KeepsConnected
<1> USE DEF AddFinalizerCall, Call, ReturnError, awsVars
<1>1. CASE ~Unconflicted(api[cur], copy)
  <2>1. pc' = "idle" /\ UNCHANGED <<api, cache, cur, copy, assoc>>
    BY <1>1
  <2> QED
    BY <2>1, OtherStep
<1>2. CASE Unconflicted(api[cur], copy)
  <2> DEFINE n == AddFinalizer(api[cur], ResolverRulesFinalizer)
  <2>1. /\ cur \in Clusters /\ api[cur] \in AWSClusters
        /\ Sound(api[cur]) /\ api[cur].phase # "gone"
    BY <1>2 DEF IInv, TypeOK, VersionsInv, Sound, Unconflicted
  <2>2. /\ n.fins = api[cur].fins \cup {ResolverRulesFinalizer}
        /\ n.phase = api[cur].phase
    BY <2>1, AddFinalizerFacts DEF Finalizers
  <2>3. SameAnnotations(n, api[cur]) /\ n.conds = api[cur].conds
    <3>1. api[cur].fins \cup {ResolverRulesFinalizer} \in SUBSET Finalizers
      BY <2>1 DEF AWSClusters, Finalizers
    <3> QED
      BY <2>1, <3>1, WritesKeep DEF AddFinalizer
  <2>4. /\ api' = [api EXCEPT ![cur] = n]
        /\ copy' = n
        /\ pc' = IF copy.owner THEN "findRules" ELSE "markCondition"
        /\ UNCHANGED <<cache, cur, assoc>>
    BY <1>2, <2>1 DEF IInv, TypeOK
  <2> HIDE DEF n
  <2>5. Harmless(api[cur], n)
    BY <2>2, <2>3 DEF Harmless
  <2>6. /\ KeepsConnected
        /\ \A b \in Clusters : api'[b] = IF b = cur THEN n ELSE api[b]
        /\ \A b \in Clusters : SameAnnotations(api'[b], api[b])
    BY <2>1, <2>4, <2>5, HarmlessWrite
  <2>7. AnnotationsInv'
    BY <2>1, <2>4, <2>6 DEF PathInv, AnnotationsInv, SameAnnotations
  <2>8. LoopInv'
    BY <2>1, <2>3, <2>4, <2>6 DEF PathInv, AnnotationsInv, SameAnnotations, LoopInv
  <2>9. ConditionInv'
    BY <2>1, <2>3, <2>4, <2>6 DEF PathInv, ConditionInv, KeepsConnected
  <2> QED
    BY <2>6, <2>7, <2>8, <2>9 DEF PathInv
<1> QED
  BY <1>1, <1>2

\* The condition is set when the loop is done.
LEMMA MarkConditionKeeps ==
  ASSUME IInv, PathInv, MarkConditionCall
  PROVE  PathInv' /\ KeepsConnected
<1> USE DEF MarkConditionCall, Call, ReturnError, awsVars
<1>1. CASE api[cur].phase = "gone"
  <2>1. pc' = "idle" /\ UNCHANGED <<api, cache, cur, copy, assoc>>
    BY <1>1
  <2> QED
    BY <2>1, OtherStep
<1>2. CASE api[cur].phase # "gone"
  <2> DEFINE n == MarkConditionTrue(api[cur], copy, ResolverRulesAssociated)
  <2>1. /\ cur \in Clusters /\ copy \in AWSClusters /\ api[cur] \in AWSClusters
        /\ Sound(api[cur])
    BY DEF IInv, TypeOK, VersionsInv, Sound
  <2>2. Follows(api[cur], n) /\ n.fins = api[cur].fins
    BY <1>2, <2>1, MarkConditionTrueFacts DEF Conditions
  <2>3. SameAnnotations(n, api[cur])
    <3>1. copy.conds \cup {ResolverRulesAssociated} \in SUBSET Conditions
      BY <2>1 DEF AWSClusters, Conditions
    <3>2. SameAnnotations(api[cur], api[cur])
      BY DEF SameAnnotations
    <3> QED
      BY <2>1, <3>1, <3>2, WritesKeep DEF MarkConditionTrue
  <2>4. /\ api' = [api EXCEPT ![cur] = n]
        /\ copy' = n
        /\ pc' = "securityGroup"
        /\ pc = "markCondition"
        /\ UNCHANGED <<cache, cur, assoc>>
    BY <1>2, <2>1 DEF IInv, TypeOK
  <2> HIDE DEF n
  <2>5. Harmless(api[cur], n)
    <3>1. api[cur].phase \in {"live", "deleting", "gone"}
      BY <2>1 DEF AWSClusters
    <3> QED
      BY <2>2, <2>3, <3>1 DEF Harmless, Follows
  <2>6. /\ KeepsConnected
        /\ \A b \in Clusters : api'[b] = IF b = cur THEN n ELSE api[b]
        /\ \A b \in Clusters : SameAnnotations(api'[b], api[b])
    BY <2>1, <2>4, <2>5, HarmlessWrite
  <2>7. NeedsRules(cur) => Connected(cur)
    BY <2>4 DEF IInv, NormalInv, NormalSteps, PathInv, LoopInv, NeedsRules, Connected
  <2>8. AnnotationsInv' /\ LoopInv'
    BY <2>1, <2>4, <2>6 DEF PathInv, AnnotationsInv, SameAnnotations, LoopInv
  <2>9. ConditionInv'
    BY <2>1, <2>4, <2>6, <2>7 DEF PathInv, ConditionInv, KeepsConnected
  <2> QED
    BY <2>6, <2>8, <2>9 DEF PathInv
<1> QED
  BY <1>1, <1>2

\* The finalizer comes off an object whose deletion was requested.
LEMMA RemoveFinalizerKeeps ==
  ASSUME IInv, PathInv, RemoveFinalizerCall
  PROVE  PathInv' /\ KeepsConnected
<1> USE DEF RemoveFinalizerCall, Call, Goto, Return, ReturnError, awsVars
<1>1. CASE ~Unconflicted(api[cur], copy)
  <2>1. pc' = "idle" /\ UNCHANGED <<api, cache, cur, copy, assoc>>
    BY <1>1
  <2> QED
    BY <2>1, OtherStep
<1>2. CASE Unconflicted(api[cur], copy)
  <2> DEFINE n == RemoveFinalizer(api[cur], ResolverRulesFinalizer)
  <2>1. /\ cur \in Clusters /\ api[cur] \in AWSClusters
        /\ Sound(api[cur]) /\ api[cur].phase # "gone"
    BY <1>2 DEF IInv, TypeOK, VersionsInv, Sound, Unconflicted
  <2>2. api[cur].phase # "live"
    BY DEF IInv, TypeOK, DeleteInv, VersionsInv, DeleteSteps
  <2>3. n.phase # "live"
    BY <2>1, <2>2, RemoveFinalizerFacts DEF Finalizers, Follows
  <2>4. SameAnnotations(n, api[cur]) /\ n.conds = api[cur].conds
    <3>1. api[cur].fins \ {ResolverRulesFinalizer} \in SUBSET Finalizers
      BY <2>1 DEF AWSClusters, Finalizers
    <3> QED
      BY <2>1, <3>1, WritesKeep DEF RemoveFinalizer
  <2>5. /\ api' = [api EXCEPT ![cur] = n]
        /\ pc' = "idle"
        /\ UNCHANGED <<cache, cur, copy, assoc>>
    BY <1>2
  <2> HIDE DEF n
  <2>6. Harmless(api[cur], n)
    BY <2>3, <2>4 DEF Harmless
  <2>7. /\ KeepsConnected
        /\ \A b \in Clusters : api'[b] = IF b = cur THEN n ELSE api[b]
        /\ \A b \in Clusters : SameAnnotations(api'[b], api[b])
    BY <2>1, <2>5, <2>6, HarmlessWrite
  <2>8. AnnotationsInv' /\ LoopInv'
    BY <2>1, <2>5, <2>7 DEF PathInv, AnnotationsInv, SameAnnotations, LoopInv
  <2>9. ConditionInv'
    BY <2>1, <2>4, <2>5, <2>7 DEF PathInv, ConditionInv, KeepsConnected
  <2> QED
    BY <2>7, <2>8, <2>9 DEF PathInv
<1> QED
  BY <1>1, <1>2

LEMMA NextKeeps ==
  ASSUME IInv, PathInv, HandOverAssumed, Next
  PROVE  PathInv' /\ KeepsConnected
<1>1. CASE \E c \in Clusters : Reconcile(c) \/ Skip(c)
  BY <1>1, ReconcileKeeps, IdleKeeps
<1>2. CASE Normal
  BY <1>2, AddFinalizerKeeps, AssociateKeeps, MarkConditionKeeps, SetUpKeeps DEF Normal
<1>3. CASE Delete
  BY <1>3, TearDownKeeps, DisassociateRuleKeeps, RemoveFinalizerKeeps DEF Delete
<1>4. CASE Fail
  BY <1>4, IdleKeeps
<1>5. CASE Environment
  BY <1>5, EndpointDeletedKeeps, CacheSyncKeeps, UserDeleteKeeps, EditKeeps DEF Environment
<1> QED
  BY <1>1, <1>2, <1>3, <1>4, <1>5 DEF Next

-----------------------------------------------------------------------------
(* The unpause worker.                                                     *)

LEMMA UnpauseInitInv ==
  ASSUME UnpauseInit, HandOverAssumed PROVE UnpauseInv
<1>1. IInv
  BY InitInv DEF UnpauseInit
<1>2. \A c \in Clusters : api[c] \in InitialClusters /\ api[c].paused
                         /\ ResolverRulesAssociated \notin api[c].conds
  BY DEF UnpauseInit, Init, HandOverAssumed
<1>3. PathInv
  BY <1>2 DEF UnpauseInit, Init, PathInv, AnnotationsInv, SameAnnotations, LoopInv, ConditionInv
<1>4. HandOverInv
  <2>1. \A c \in Clusters : api[c].paused \in BOOLEAN
    BY <1>1 DEF IInv, TypeOK, AWSClusters
  <2> QED
    BY <1>2, <2>1 DEF UnpauseInit, Init, HandOverInv
<1> QED
  BY <1>1, <1>3, <1>4 DEF UnpauseInv

\* A step of the rest of the system disconnects no cluster handed over.
LEMMA HandOverKept ==
  ASSUME UnpauseInv, KeepsConnected, UNCHANGED unpauseVars PROVE HandOverInv'
  BY DEF UnpauseInv, HandOverInv, KeepsConnected, unpauseVars

LEMMA UnpauseReconcileInv ==
  ASSUME UnpauseInv, NEW c \in Clusters, UnpauseReconcile(c) PROVE UnpauseInv'
<1>1. UNCHANGED vars /\ UNCHANGED paused /\ upc' = "patchCluster" /\ ucur' = c
  BY DEF UnpauseReconcile
<1>2. IInv'
  BY <1>1, StutterInv DEF UnpauseInv
<1>3. PathInv'
  BY <1>1 DEF UnpauseInv, PathInv, AnnotationsInv, LoopInv, ConditionInv, NeedsRules, Connected,
     Associated, vars, objVars, workVars, awsVars
<1>4. NeedsRules(c) => Connected(c)
  BY DEF UnpauseReconcile, UnpauseAllowed, UnpauseInv, PathInv, AnnotationsInv, SameAnnotations,
     ConditionInv, NeedsRules, Managed
<1>5. HandOverInv'
  BY <1>1, <1>4 DEF UnpauseInv, HandOverInv, NeedsRules, Connected, Associated,
     vars, objVars, awsVars
<1> QED
  BY <1>2, <1>3, <1>5 DEF UnpauseInv

LEMMA PatchClusterInv ==
  ASSUME UnpauseInv, PatchCluster PROVE UnpauseInv'
<1>1. /\ UNCHANGED vars /\ paused' = [paused EXCEPT ![ucur] = FALSE]
      /\ upc = "patchCluster" /\ upc' = "patchAWSCluster" /\ ucur' = ucur
  BY DEF PatchCluster
<1>2. IInv'
  BY <1>1, StutterInv DEF UnpauseInv
<1>3. PathInv'
  BY <1>1 DEF UnpauseInv, PathInv, AnnotationsInv, LoopInv, ConditionInv, NeedsRules, Connected,
     Associated, vars, objVars, workVars, awsVars
<1>4. HandOverInv'
  BY <1>1 DEF UnpauseInv, HandOverInv, NeedsRules, Connected, Associated,
     vars, objVars, awsVars
<1> QED
  BY <1>2, <1>3, <1>4 DEF UnpauseInv

\* The second patch is made without a lock, but changes one annotation only.
LEMMA PatchAWSClusterInv ==
  ASSUME UnpauseInv, PatchAWSCluster PROVE UnpauseInv'
<1>1. /\ upc' = "idle"
      /\ UNCHANGED <<paused, ucur, cache, workVars, awsVars, boundVars>>
  BY DEF PatchAWSCluster
<1>2. IInv' /\ PathInv' /\ KeepsConnected
  <2> DEFINE n == [api[ucur] EXCEPT !.paused = FALSE]
  <2>1. CASE api[ucur].phase # "gone" /\ ucopy.paused
    <3>1. /\ ucur \in Clusters /\ api[ucur] \in AWSClusters /\ Sound(api[ucur])
      BY DEF UnpauseInv, HandOverInv, IInv, TypeOK, VersionsInv, Sound
    <3>2. /\ n \in AWSClusters /\ n.rv = api[ucur].rv /\ n.phase = api[ucur].phase
          /\ n.fins = api[ucur].fins /\ n.conds = api[ucur].conds /\ SameAnnotations(n, api[ucur])
      BY <3>1 DEF AWSClusters, SameAnnotations
    <3>3. api' = [api EXCEPT ![ucur] = Stored(api[ucur], n)]
      BY <2>1 DEF PatchAWSCluster
    <3> HIDE DEF n
    <3>4. Follows(api[ucur], Stored(api[ucur], n)) /\ Stored(api[ucur], n).fins = n.fins
      BY <2>1, <3>1, <3>2, StoredFollows
    <3>5. Harmless(api[ucur], Stored(api[ucur], n)) /\ Stored(api[ucur], n).conds = n.conds
      BY <3>1, <3>2, StoredHarmless
    <3>6. IInv'
      <4>1. failures' = failures /\ edits' \in 0..MaxEdits
        BY <1>1 DEF boundVars, UnpauseInv, IInv, TypeOK
      <4> QED
        BY <1>1, <3>1, <3>2, <3>3, <3>4, <4>1, ForeignWrite DEF UnpauseInv
    <3>7. PathInv' /\ KeepsConnected
      BY <1>1, <3>1, <3>2, <3>3, <3>5, ForeignWriteKeeps DEF UnpauseInv, awsVars
    <3> QED
      BY <3>6, <3>7
  <2>2. CASE ~(api[ucur].phase # "gone" /\ ucopy.paused)
    <3>1. UNCHANGED vars
      BY <1>1, <2>2 DEF PatchAWSCluster, vars, objVars
    <3>2. IInv'
      BY <3>1, StutterInv DEF UnpauseInv
    <3>3. PathInv' /\ KeepsConnected
      BY <3>1 DEF UnpauseInv, PathInv, AnnotationsInv, LoopInv, ConditionInv, NeedsRules,
         Connected, Associated, KeepsConnected, vars, objVars, workVars, awsVars
    <3> QED
      BY <3>2, <3>3
  <2> QED
    BY <2>1, <2>2
<1>3. HandOverInv'
  BY <1>1, <1>2 DEF UnpauseInv, HandOverInv, KeepsConnected
<1> QED
  BY <1>2, <1>3 DEF UnpauseInv

LEMMA UnpauseFailInv ==
  ASSUME UnpauseInv, UnpauseFail PROVE UnpauseInv'
<1>1. /\ upc' = "idle" /\ failures' = failures + 1 /\ failures < MaxFailures
      /\ UNCHANGED <<paused, ucur, objVars, workVars, awsVars, edits>>
  BY DEF UnpauseFail
<1>2. IInv'
  <2>1. failures' \in 0..MaxFailures /\ edits' \in 0..MaxEdits /\ queue' \subseteq Clusters
    BY <1>1, ConstantsAssumption DEF UnpauseInv, IInv, TypeOK, workVars
  <2> QED
    BY <1>1, <2>1, WorkerOnly DEF UnpauseInv, objVars, workVars
<1>3. PathInv' /\ HandOverInv'
  BY <1>1 DEF UnpauseInv, PathInv, AnnotationsInv, LoopInv, ConditionInv, HandOverInv, NeedsRules,
     Connected, Associated, objVars, workVars, awsVars
<1> QED
  BY <1>2, <1>3 DEF UnpauseInv

LEMMA UnpauseNextInv ==
  ASSUME HandOverAssumed, UnpauseInv, [UnpauseNext]_allVars PROVE UnpauseInv'
<1>1. CASE Next /\ UNCHANGED unpauseVars
  <2>1. IInv'
    BY <1>1, NextInv DEF UnpauseInv
  <2>2. PathInv' /\ KeepsConnected
    BY <1>1, NextKeeps DEF UnpauseInv
  <2> QED
    BY <1>1, <2>1, <2>2, HandOverKept DEF UnpauseInv
<1>2. CASE \E c \in Clusters : UnpauseReconcile(c)
  BY <1>2, UnpauseReconcileInv
<1>3. CASE Unpause
  BY <1>3, PatchClusterInv, PatchAWSClusterInv DEF Unpause
<1>4. CASE UnpauseFail
  BY <1>4, UnpauseFailInv
<1>5. CASE UNCHANGED allVars
  <2>1. UNCHANGED vars /\ UNCHANGED unpauseVars
    BY <1>5 DEF allVars
  <2>2. IInv'
    BY <2>1, StutterInv DEF UnpauseInv
  <2> QED
    BY <2>1, <2>2 DEF UnpauseInv, PathInv, AnnotationsInv, LoopInv, ConditionInv, HandOverInv,
       NeedsRules, Connected, Associated, vars, objVars, workVars, awsVars, unpauseVars
<1> QED
  BY <1>1, <1>2, <1>3, <1>4, <1>5 DEF UnpauseNext

-----------------------------------------------------------------------------
(***************************************************************************)
(* With the unpause controller beside it, the resolver rules controller    *)
(* keeps its invariant: the unlocked patch of the annotation, between any  *)
(* two of its calls, breaks nothing.                                       *)
(***************************************************************************)
THEOREM UnpauseInvariance ==
  ASSUME HandOverAssumed PROVE UnpauseSpec => []UnpauseInv
<1>1. UnpauseInit => UnpauseInv
  BY UnpauseInitInv
<1>2. UnpauseInv /\ [UnpauseNext]_allVars => UnpauseInv'
  BY UnpauseNextInv
<1> QED
  BY <1>1, <1>2, PTL DEF UnpauseSpec

(***************************************************************************)
(* A cluster in private mode is never handed to CAPA before the resolver   *)
(* rules controller has put its finalizer on it and associated the rules   *)
(* of the owner account with its VPC.                                      *)
(***************************************************************************)
THEOREM UnpausedAlwaysConnected ==
  ASSUME HandOverAssumed PROVE UnpauseSpec => []UnpausedMeansConnected
<1>1. UnpauseInv => UnpausedMeansConnected
  BY PrivateVPCAssumption DEF UnpauseInv, HandOverInv, UnpausedMeansConnected, NeedsRules,
     Connected, Associated
<1> QED
  BY <1>1, UnpauseInvariance, PTL
=============================================================================
