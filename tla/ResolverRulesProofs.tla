------------------------- MODULE ResolverRulesProofs -------------------------
(***************************************************************************)
(* Safety of ResolverRules for any number of clusters, rules, failures and *)
(* edits.                                                                  *)
(***************************************************************************)
EXTENDS ResolverRules, TLAPS

USE DEF Rules, VPCs, Directions, Protocols

\* What a write to an AWSCluster leaves: a well-typed object whose version
\* did not go back, and is the old one only if nothing changed.
LEMMA StoredType ==
  ASSUME NEW o \in AWSClusters, NEW n \in AWSClusters, n.rv = o.rv
  PROVE  /\ Stored(o, n) \in AWSClusters
         /\ Stored(o, n).rv >= o.rv
         /\ Stored(o, n).rv = o.rv => Stored(o, n) = o
         /\ Stored(o, n).fins = n.fins
         /\ Stored(o, n).conds = n.conds
         /\ Stored(o, n).identity = n.identity
         /\ Stored(o, n).dnsMode = n.dnsMode
         /\ Stored(o, n).owner = n.owner
         /\ Stored(o, n).phase \in {n.phase, "gone"}
         /\ n.phase = "live" => Stored(o, n).phase = "live"
         /\ (Stored(o, n).phase = "gone" /\ n.phase # "gone") => n.fins = {} /\ n.phase = "deleting"
<1>1. CASE n = o
  BY <1>1 DEF Stored, AWSClusters
<1>2. CASE n # o
  <2> DEFINE p == IF n.phase = "deleting" /\ n.fins = {} THEN "gone" ELSE n.phase
  <2>1. Stored(o, n) = [n EXCEPT !.rv = o.rv + 1, !.phase = p]
    BY <1>2 DEF Stored
  <2>2. /\ Stored(o, n).rv = o.rv + 1
        /\ Stored(o, n).phase = p
        /\ Stored(o, n).fins = n.fins
        /\ Stored(o, n).conds = n.conds
        /\ Stored(o, n).identity = n.identity
        /\ Stored(o, n).dnsMode = n.dnsMode
        /\ Stored(o, n).owner = n.owner
    BY <2>1 DEF AWSClusters
  <2>3. o.rv \in Nat /\ p \in {"live", "deleting", "gone"}
    BY DEF AWSClusters
  <2>4. ASSUME NEW k \in Nat, NEW q \in {"live", "deleting", "gone"}
        PROVE  [n EXCEPT !.rv = k, !.phase = q] \in AWSClusters
    BY DEF AWSClusters
  <2>5. Stored(o, n) \in AWSClusters
    <3>1. o.rv + 1 \in Nat
      BY <2>3
    <3> HIDE DEF p
    <3> QED
      BY <2>1, <2>3, <2>4, <3>1, Zenon
  <2> QED
    BY <2>2, <2>3, <2>5
<1> QED
  BY <1>1, <1>2


\* How an AWSCluster may follow from an earlier version of itself.
Follows(o, n) ==
  /\ n \in AWSClusters
  /\ n.rv >= o.rv
  /\ n.rv = o.rv => n = o
  /\ o.phase # "live" => n.phase # "live"
  /\ n.phase = "gone" => n.fins = {}

Sound(o) == o \in AWSClusters /\ (o.phase = "gone" => o.fins = {})

LEMMA StoredFollows ==
  ASSUME NEW o, Sound(o), NEW n \in AWSClusters, n.rv = o.rv, n.phase = o.phase,
         o.phase # "gone"
  PROVE  Follows(o, Stored(o, n)) /\ Stored(o, n).fins = n.fins
         /\ (n.fins # {} => Stored(o, n).phase = o.phase)
<1>1. o.rv \in Nat /\ o.phase \in {"live", "deleting", "gone"}
  BY DEF Sound, AWSClusters
<1> QED
  BY <1>1, StoredType DEF Sound, Follows

LEMMA AddFinalizerFacts ==
  ASSUME NEW o, Sound(o), NEW f \in Finalizers, o.phase # "gone"
  PROVE  /\ Follows(o, AddFinalizer(o, f))
         /\ AddFinalizer(o, f).fins = o.fins \cup {f}
         /\ AddFinalizer(o, f).phase = o.phase
<1> DEFINE n == [o EXCEPT !.fins = @ \cup {f}]
<1>1. n \in AWSClusters /\ n.rv = o.rv /\ n.phase = o.phase /\ n.fins = o.fins \cup {f}
  BY DEF Sound, AWSClusters
<1> HIDE DEF n
<1>2. AddFinalizer(o, f) = Stored(o, n)
  BY DEF AddFinalizer, n
<1> QED
  BY <1>1, <1>2, StoredFollows

LEMMA RemoveFinalizerFacts ==
  ASSUME NEW o, Sound(o), NEW f \in Finalizers, o.phase # "gone"
  PROVE  /\ Follows(o, RemoveFinalizer(o, f))
         /\ RemoveFinalizer(o, f).fins = o.fins \ {f}
<1> DEFINE n == [o EXCEPT !.fins = @ \ {f}]
<1>1. n \in AWSClusters /\ n.rv = o.rv /\ n.phase = o.phase /\ n.fins = o.fins \ {f}
  BY DEF Sound, AWSClusters
<1> HIDE DEF n
<1>2. RemoveFinalizer(o, f) = Stored(o, n)
  BY DEF RemoveFinalizer, n
<1> QED
  BY <1>1, <1>2, StoredFollows

LEMMA MarkConditionTrueFacts ==
  ASSUME NEW o, Sound(o), NEW d \in AWSClusters, NEW k \in Conditions, o.phase # "gone"
  PROVE  /\ Follows(o, MarkConditionTrue(o, d, k))
         /\ MarkConditionTrue(o, d, k).fins = o.fins
         /\ o.fins # {} => MarkConditionTrue(o, d, k).phase = o.phase
<1>1. CASE k \in d.conds
  <2>1. MarkConditionTrue(o, d, k) = o
    BY <1>1 DEF MarkConditionTrue
  <2>2. Follows(o, o)
    BY DEF Follows, Sound, AWSClusters
  <2> QED
    BY <2>1, <2>2
<1>2. CASE k \notin d.conds
  <2> DEFINE n == [o EXCEPT !.conds = d.conds \cup {k}]
  <2>1. n \in AWSClusters /\ n.rv = o.rv /\ n.phase = o.phase /\ n.fins = o.fins
    BY DEF Sound, AWSClusters
  <2> HIDE DEF n
  <2>2. MarkConditionTrue(o, d, k) = Stored(o, n)
    BY <1>2 DEF MarkConditionTrue, n
  <2> QED
    BY <2>1, <2>2, StoredFollows
<1> QED
  BY <1>1, <1>2

LEMMA DeletionRequestedFacts ==
  ASSUME NEW o, Sound(o), o.phase = "live"
  PROVE  /\ Follows(o, DeletionRequested(o))
         /\ DeletionRequested(o).fins = o.fins
         /\ DeletionRequested(o).phase = IF o.fins = {} THEN "gone" ELSE "deleting"
<1> DEFINE p == IF o.fins = {} THEN "gone" ELSE "deleting"
           n == DeletionRequested(o)
<1>1. /\ n.rv = o.rv + 1 /\ n.phase = p /\ n.fins = o.fins /\ o.rv \in Nat
  BY DEF DeletionRequested, Sound, AWSClusters
<1>2. ASSUME NEW r \in Nat, NEW q \in {"live", "deleting", "gone"}
      PROVE  [o EXCEPT !.rv = r, !.phase = q] \in AWSClusters
  BY DEF Sound, AWSClusters
<1>3. n \in AWSClusters
  <2>1. n = [o EXCEPT !.rv = o.rv + 1, !.phase = p]
    BY DEF DeletionRequested
  <2>2. o.rv + 1 \in Nat
    BY <1>1
  <2>3. p \in {"live", "deleting", "gone"}
    OBVIOUS
  <2> HIDE DEF p, n
  <2> QED
    BY <2>1, <2>2, <2>3, <1>2, Zenon
<1> QED
  BY <1>1, <1>3 DEF Follows
\* The inductive invariant holds initially.
LEMMA InitInv == Init => IInv
<1> SUFFICES ASSUME Init PROVE IInv
  OBVIOUS
<1>1. \A c \in Clusters : /\ api[c] \in AWSClusters /\ api[c].phase = "live"
                         /\ api[c].rv \in Nat
  BY InitialClustersAssumption DEF Init, AWSClusters
<1>2. TypeOK
  BY <1>1, ConstantsAssumption DEF Init, TypeOK, Steps
<1> QED
  BY <1>1, <1>2 DEF Init, IInv, VersionsInv, DependenciesInv, NormalInv, DeleteInv,
     ResourcesGuarded, HasResources, RuleServed, DNSPathComplete, NormalSteps, DeleteSteps

\* A write to an AWSCluster that keeps the finalizer, while nothing else
\* moves, preserves the invariant.
LEMMA ForeignWrite ==
  ASSUME IInv, NEW c \in Clusters, NEW n, Follows(api[c], n),
         ResolverRulesFinalizer \in api[c].fins => ResolverRulesFinalizer \in n.fins,
         api' = [api EXCEPT ![c] = n],
         failures' = failures, edits' \in 0..MaxEdits,
         UNCHANGED <<cache, workVars, awsVars>>
  PROVE  IInv'
<1>1. \A b \in Clusters : api'[b] = IF b = c THEN n ELSE api[b]
  BY DEF IInv, TypeOK
<1>2. /\ TypeOK'
  BY <1>1 DEF IInv, TypeOK, Follows, workVars, awsVars
<1>3. VersionsInv'
  <2>1. \A b \in Clusters : cache[b].rv \in Nat /\ api[b].rv \in Nat
    BY DEF IInv, TypeOK, AWSClusters
  <2>2. copy.rv \in Nat /\ n.rv \in Nat /\ cur \in Clusters
    BY DEF IInv, TypeOK, AWSClusters, Follows
  <2> QED
    BY <1>1, <2>1, <2>2 DEF IInv, VersionsInv, Follows, workVars
<1>4. DependenciesInv' /\ RuleServed' /\ DNSPathComplete' /\ DeleteInv'
  BY DEF IInv, DependenciesInv, RuleServed, DNSPathComplete, DeleteInv, workVars, awsVars
<1>5. NormalInv'
  BY <1>1 DEF IInv, TypeOK, NormalInv, workVars, awsVars
<1>6. ResourcesGuarded'
  BY <1>1 DEF IInv, ResourcesGuarded, HasResources, awsVars
<1> QED
  BY <1>2, <1>3, <1>4, <1>5, <1>6 DEF IInv

\* A reconciliation may end at any point.
LEMMA WorkerOnly ==
  ASSUME IInv, pc' \in {"idle", pc}, queue' \subseteq Clusters,
         failures' \in 0..MaxFailures, edits' \in 0..MaxEdits,
         UNCHANGED <<api, cache, cur, copy, found, todo, awsVars>>
  PROVE  IInv'
<1> USE DEF awsVars
<1>1. TypeOK'
  BY DEF IInv, TypeOK, Steps
<1>2. VersionsInv'
  BY DEF IInv, VersionsInv
<1>3. DependenciesInv'
  BY DEF IInv, DependenciesInv
<1>4. NormalInv'
  BY DEF IInv, NormalInv, NormalSteps
<1>5. DeleteInv'
  BY DEF IInv, DeleteInv, DeleteSteps
<1>6. ResourcesGuarded'
  BY DEF IInv, ResourcesGuarded, HasResources
<1>7. RuleServed' /\ DNSPathComplete'
  BY DEF IInv, RuleServed, DNSPathComplete
<1> QED
  BY <1>1, <1>2, <1>3, <1>4, <1>5, <1>6, <1>7 DEF IInv

LEMMA FindRulesInv ==
  ASSUME IInv, FindRules PROVE IInv'
<1> USE DEF FindRules, AccountRules, ExistingRules, Call, Goto, Return, objVars, awsVars, boundVars, workVars
<1>1. TypeOK'
  BY ConstantsAssumption DEF IInv, TypeOK, Steps, NormalSteps, DeleteSteps
<1>2. VersionsInv'
  BY DEF IInv, VersionsInv
<1>3. DependenciesInv'
  BY DEF IInv, TypeOK, DependenciesInv, NormalInv, DeleteInv
<1>4. NormalInv'
  BY DEF IInv, TypeOK, NormalInv, NormalSteps, DeleteSteps
<1>5. DeleteInv'
  BY DEF IInv, TypeOK, DeleteInv, DependenciesInv, NormalSteps, DeleteSteps
<1>6. ResourcesGuarded'
  BY DEF IInv, TypeOK, ResourcesGuarded, HasResources, DependenciesInv, NormalInv, NormalSteps
<1>7. RuleServed'
  BY DEF IInv, TypeOK, RuleServed, NormalInv, DeleteInv, DependenciesInv, NormalSteps
<1>8. DNSPathComplete'
  BY DEF IInv, TypeOK, DNSPathComplete, NormalInv, DeleteInv, DependenciesInv, NormalSteps
<1> QED
  BY <1>1, <1>2, <1>3, <1>4, <1>5, <1>6, <1>7, <1>8 DEF IInv

LEMMA AssociateRuleInv ==
  ASSUME IInv, NEW r \in Rules, AssociateRule(r) PROVE IInv'
<1> USE DEF AssociateRule, AccountRules, ExistingRules, Call, Goto, Return, objVars, awsVars, boundVars, workVars
<1>0. \A b \in Clusters, v \in VPCs :
        <<b, v>> \in assoc' => <<b, v>> \in assoc \/ (v = cur /\ rule[b])
  BY ConstantsAssumption DEF IInv, TypeOK
<1>1. TypeOK'
  BY ConstantsAssumption DEF IInv, TypeOK, Steps, NormalSteps, DeleteSteps
<1>2. VersionsInv'
  BY DEF IInv, VersionsInv
<1>3. DependenciesInv'
  BY <1>0 DEF IInv, TypeOK, DependenciesInv
<1>4. NormalInv'
  BY DEF IInv, TypeOK, NormalInv, NormalSteps, DeleteSteps
<1>5. DeleteInv'
  BY DEF IInv, TypeOK, DeleteInv, DependenciesInv, NormalSteps, DeleteSteps
<1>6. ResourcesGuarded'
  BY <1>0 DEF IInv, TypeOK, ResourcesGuarded, HasResources
<1>7. RuleServed'
  BY DEF IInv, TypeOK, RuleServed, NormalInv, DeleteInv, DependenciesInv, NormalSteps
<1>8. DNSPathComplete'
  BY <1>0, ConstantsAssumption DEF IInv, TypeOK, DNSPathComplete
<1> QED
  BY <1>1, <1>2, <1>3, <1>4, <1>5, <1>6, <1>7, <1>8 DEF IInv

LEMMA AssociateDoneInv ==
  ASSUME IInv, AssociateDone PROVE IInv'
<1> USE DEF AssociateDone, Call, Goto, Return, objVars, awsVars, boundVars, workVars
<1>1. TypeOK'
  BY ConstantsAssumption DEF IInv, TypeOK, Steps, NormalSteps, DeleteSteps
<1>2. VersionsInv'
  BY DEF IInv, VersionsInv
<1>3. DependenciesInv'
  BY DEF IInv, TypeOK, DependenciesInv, NormalInv, DeleteInv
<1>4. NormalInv'
  BY DEF IInv, TypeOK, NormalInv, NormalSteps, DeleteSteps
<1>5. DeleteInv'
  BY DEF IInv, TypeOK, DeleteInv, DependenciesInv, NormalSteps, DeleteSteps
<1>6. ResourcesGuarded'
  BY DEF IInv, TypeOK, ResourcesGuarded, HasResources, DependenciesInv, NormalInv, NormalSteps
<1>7. RuleServed'
  BY DEF IInv, TypeOK, RuleServed, NormalInv, DeleteInv, DependenciesInv, NormalSteps
<1>8. DNSPathComplete'
  BY DEF IInv, TypeOK, DNSPathComplete, NormalInv, DeleteInv, DependenciesInv, NormalSteps
<1> QED
  BY <1>1, <1>2, <1>3, <1>4, <1>5, <1>6, <1>7, <1>8 DEF IInv

LEMMA CreateSecurityGroupInv ==
  ASSUME IInv, CreateSecurityGroup PROVE IInv'
<1> USE DEF CreateSecurityGroup, Call, Goto, Return, objVars, awsVars, boundVars, workVars
<1>1. TypeOK'
  BY ConstantsAssumption DEF IInv, TypeOK, Steps, NormalSteps, DeleteSteps
<1>2. VersionsInv'
  BY DEF IInv, VersionsInv
<1>3. DependenciesInv'
  BY DEF IInv, TypeOK, DependenciesInv, NormalInv, DeleteInv
<1>4. NormalInv'
  BY DEF IInv, TypeOK, NormalInv, NormalSteps, DeleteSteps
<1>5. DeleteInv'
  BY DEF IInv, TypeOK, DeleteInv, DependenciesInv, NormalSteps, DeleteSteps
<1>6. ResourcesGuarded'
  BY DEF IInv, TypeOK, ResourcesGuarded, HasResources, DependenciesInv, NormalInv, NormalSteps
<1>7. RuleServed'
  BY DEF IInv, TypeOK, RuleServed, NormalInv, DeleteInv, DependenciesInv, NormalSteps
<1>8. DNSPathComplete'
  BY DEF IInv, TypeOK, DNSPathComplete, NormalInv, DeleteInv, DependenciesInv, NormalSteps
<1> QED
  BY <1>1, <1>2, <1>3, <1>4, <1>5, <1>6, <1>7, <1>8 DEF IInv

LEMMA AuthorizeIngressInv ==
  ASSUME IInv, AuthorizeIngress PROVE IInv'
<1> USE DEF AuthorizeIngress, Call, Goto, Return, objVars, awsVars, boundVars, workVars
<1>1. TypeOK'
  BY ConstantsAssumption DEF IInv, TypeOK, Steps, NormalSteps, DeleteSteps
<1>2. VersionsInv'
  BY DEF IInv, VersionsInv
<1>3. DependenciesInv'
  BY DEF IInv, TypeOK, DependenciesInv, NormalInv, DeleteInv
<1>4. NormalInv'
  BY DEF IInv, TypeOK, NormalInv, NormalSteps, DeleteSteps
<1>5. DeleteInv'
  BY DEF IInv, TypeOK, DeleteInv, DependenciesInv, NormalSteps, DeleteSteps
<1>6. ResourcesGuarded'
  BY DEF IInv, TypeOK, ResourcesGuarded, HasResources, DependenciesInv, NormalInv, NormalSteps
<1>7. RuleServed'
  BY DEF IInv, TypeOK, RuleServed, NormalInv, DeleteInv, DependenciesInv, NormalSteps
<1>8. DNSPathComplete'
  BY DEF IInv, TypeOK, DNSPathComplete, NormalInv, DeleteInv, DependenciesInv, NormalSteps
<1> QED
  BY <1>1, <1>2, <1>3, <1>4, <1>5, <1>6, <1>7, <1>8 DEF IInv

LEMMA LookupRuleInv ==
  ASSUME IInv, LookupRule PROVE IInv'
<1> USE DEF LookupRule, Call, Goto, Return, objVars, awsVars, boundVars, workVars
<1>1. TypeOK'
  BY ConstantsAssumption DEF IInv, TypeOK, Steps, NormalSteps, DeleteSteps
<1>2. VersionsInv'
  BY DEF IInv, VersionsInv
<1>3. DependenciesInv'
  BY DEF IInv, TypeOK, DependenciesInv, NormalInv, DeleteInv
<1>4. NormalInv'
  BY DEF IInv, TypeOK, NormalInv, NormalSteps, DeleteSteps
<1>5. DeleteInv'
  BY DEF IInv, TypeOK, DeleteInv, DependenciesInv, NormalSteps, DeleteSteps
<1>6. ResourcesGuarded'
  BY DEF IInv, TypeOK, ResourcesGuarded, HasResources, DependenciesInv, NormalInv, NormalSteps
<1>7. RuleServed'
  BY DEF IInv, TypeOK, RuleServed, NormalInv, DeleteInv, DependenciesInv, NormalSteps
<1>8. DNSPathComplete'
  BY DEF IInv, TypeOK, DNSPathComplete, NormalInv, DeleteInv, DependenciesInv, NormalSteps
<1> QED
  BY <1>1, <1>2, <1>3, <1>4, <1>5, <1>6, <1>7, <1>8 DEF IInv

LEMMA CreateEndpointInv ==
  ASSUME IInv, NEW d \in Directions, CreateEndpoint(d) PROVE IInv'
<1> USE DEF CreateEndpoint, Call, Goto, Return, objVars, awsVars, boundVars, workVars
<1>1. TypeOK'
  BY ConstantsAssumption DEF IInv, TypeOK, Steps, NormalSteps, DeleteSteps
<1>2. VersionsInv'
  BY DEF IInv, VersionsInv
<1>3. DependenciesInv'
  BY DEF IInv, TypeOK, DependenciesInv, NormalInv, DeleteInv
<1>4. NormalInv'
  BY DEF IInv, TypeOK, NormalInv, NormalSteps, DeleteSteps
<1>5. DeleteInv'
  BY DEF IInv, TypeOK, DeleteInv, DependenciesInv, NormalSteps, DeleteSteps
<1>6. ResourcesGuarded'
  BY DEF IInv, TypeOK, ResourcesGuarded, HasResources, DependenciesInv, NormalInv, NormalSteps
<1>7. RuleServed'
  BY DEF IInv, TypeOK, RuleServed, NormalInv, DeleteInv, DependenciesInv, NormalSteps
<1>8. DNSPathComplete'
  BY DEF IInv, TypeOK, DNSPathComplete, NormalInv, DeleteInv, DependenciesInv, NormalSteps
<1> QED
  BY <1>1, <1>2, <1>3, <1>4, <1>5, <1>6, <1>7, <1>8 DEF IInv

LEMMA CreateRuleInv ==
  ASSUME IInv, CreateRule PROVE IInv'
<1> USE DEF CreateRule, Call, Goto, Return, objVars, awsVars, boundVars, workVars
<1>1. TypeOK'
  BY ConstantsAssumption DEF IInv, TypeOK, Steps, NormalSteps, DeleteSteps
<1>2. VersionsInv'
  BY DEF IInv, VersionsInv
<1>3. DependenciesInv'
  BY DEF IInv, TypeOK, DependenciesInv, NormalInv, DeleteInv
<1>4. NormalInv'
  BY DEF IInv, TypeOK, NormalInv, NormalSteps, DeleteSteps
<1>5. DeleteInv'
  BY DEF IInv, TypeOK, DeleteInv, DependenciesInv, NormalSteps, DeleteSteps
<1>6. ResourcesGuarded'
  BY DEF IInv, TypeOK, ResourcesGuarded, HasResources, DependenciesInv, NormalInv, NormalSteps
<1>7. RuleServed'
  BY DEF IInv, TypeOK, RuleServed, NormalInv, DeleteInv, DependenciesInv, NormalSteps
<1>8. DNSPathComplete'
  BY DEF IInv, TypeOK, DNSPathComplete, NormalInv, DeleteInv, DependenciesInv, NormalSteps
<1> QED
  BY <1>1, <1>2, <1>3, <1>4, <1>5, <1>6, <1>7, <1>8 DEF IInv

LEMMA ApplyResourceShareInv ==
  ASSUME IInv, ApplyResourceShare PROVE IInv'
<1> USE DEF ApplyResourceShare, Call, Goto, Return, objVars, awsVars, boundVars, workVars
<1>1. TypeOK'
  BY ConstantsAssumption DEF IInv, TypeOK, Steps, NormalSteps, DeleteSteps
<1>2. VersionsInv'
  BY DEF IInv, VersionsInv
<1>3. DependenciesInv'
  BY DEF IInv, TypeOK, DependenciesInv, NormalInv, DeleteInv
<1>4. NormalInv'
  BY DEF IInv, TypeOK, NormalInv, NormalSteps, DeleteSteps
<1>5. DeleteInv'
  BY DEF IInv, TypeOK, DeleteInv, DependenciesInv, NormalSteps, DeleteSteps
<1>6. ResourcesGuarded'
  BY DEF IInv, TypeOK, ResourcesGuarded, HasResources, DependenciesInv, NormalInv, NormalSteps
<1>7. RuleServed'
  BY DEF IInv, TypeOK, RuleServed, NormalInv, DeleteInv, DependenciesInv, NormalSteps
<1>8. DNSPathComplete'
  BY DEF IInv, TypeOK, DNSPathComplete, NormalInv, DeleteInv, DependenciesInv, NormalSteps
<1> QED
  BY <1>1, <1>2, <1>3, <1>4, <1>5, <1>6, <1>7, <1>8 DEF IInv

LEMMA AssociateDNSInv ==
  ASSUME IInv, AssociateDNS PROVE IInv'
<1> USE DEF AssociateDNS, Call, Goto, Return, objVars, awsVars, boundVars, workVars
<1>1. TypeOK'
  BY ConstantsAssumption DEF IInv, TypeOK, NormalInv, Steps
<1>2. VersionsInv'
  BY DEF IInv, VersionsInv
<1>3. DependenciesInv'
  BY DEF IInv, TypeOK, DependenciesInv, NormalInv, DeleteInv
<1>4. NormalInv'
  BY DEF IInv, TypeOK, NormalInv, NormalSteps, DeleteSteps
<1>5. DeleteInv'
  BY DEF IInv, TypeOK, DeleteInv, DependenciesInv, NormalSteps, DeleteSteps
<1>6. ResourcesGuarded'
  BY DEF IInv, TypeOK, ResourcesGuarded, HasResources, DependenciesInv, NormalInv, NormalSteps
<1>7. RuleServed'
  BY DEF IInv, TypeOK, RuleServed, NormalInv, DeleteInv, DependenciesInv, NormalSteps
<1>8. DNSPathComplete'
  BY DEF IInv, TypeOK, DNSPathComplete, NormalInv, DeleteInv, DependenciesInv, NormalSteps
<1> QED
  BY <1>1, <1>2, <1>3, <1>4, <1>5, <1>6, <1>7, <1>8 DEF IInv

LEMMA FindRuleInv ==
  ASSUME IInv, FindRule PROVE IInv'
<1> USE DEF FindRule, Call, Goto, Return, objVars, awsVars, boundVars, workVars
<1>1. TypeOK'
  BY ConstantsAssumption DEF IInv, TypeOK, Steps, NormalSteps, DeleteSteps
<1>2. VersionsInv'
  BY DEF IInv, VersionsInv
<1>3. DependenciesInv'
  BY DEF IInv, TypeOK, DependenciesInv, NormalInv, DeleteInv
<1>4. NormalInv'
  BY DEF IInv, TypeOK, NormalInv, NormalSteps, DeleteSteps
<1>5. DeleteInv'
  BY DEF IInv, TypeOK, DeleteInv, DependenciesInv, NormalSteps, DeleteSteps
<1>6. ResourcesGuarded'
  BY DEF IInv, TypeOK, ResourcesGuarded, HasResources, DependenciesInv, NormalInv, NormalSteps
<1>7. RuleServed'
  BY DEF IInv, TypeOK, RuleServed, NormalInv, DeleteInv, DependenciesInv, NormalSteps
<1>8. DNSPathComplete'
  BY DEF IInv, TypeOK, DNSPathComplete, NormalInv, DeleteInv, DependenciesInv, NormalSteps
<1> QED
  BY <1>1, <1>2, <1>3, <1>4, <1>5, <1>6, <1>7, <1>8 DEF IInv

LEMMA DisassociateDNSInv ==
  ASSUME IInv, DisassociateDNS PROVE IInv'
<1> USE DEF DisassociateDNS, Call, Goto, Return, objVars, awsVars, boundVars, workVars
<1>1. TypeOK'
  BY ConstantsAssumption DEF IInv, TypeOK, Steps, NormalSteps, DeleteSteps
<1>2. VersionsInv'
  BY DEF IInv, VersionsInv
<1>3. DependenciesInv'
  BY DEF IInv, TypeOK, DependenciesInv, NormalInv, DeleteInv
<1>4. NormalInv'
  BY DEF IInv, TypeOK, NormalInv, NormalSteps, DeleteSteps
<1>5. DeleteInv'
  BY DEF IInv, TypeOK, DeleteInv, DependenciesInv, NormalSteps, DeleteSteps
<1>6. ResourcesGuarded'
  BY DEF IInv, TypeOK, ResourcesGuarded, HasResources, DependenciesInv, NormalInv, NormalSteps
<1>7. RuleServed'
  BY DEF IInv, TypeOK, RuleServed, NormalInv, DeleteInv, DependenciesInv, NormalSteps
<1>8. DNSPathComplete'
  BY DEF IInv, TypeOK, DNSPathComplete, NormalInv, DeleteInv, DependenciesInv, NormalSteps
<1> QED
  BY <1>1, <1>2, <1>3, <1>4, <1>5, <1>6, <1>7, <1>8 DEF IInv

LEMMA DeleteRuleInv ==
  ASSUME IInv, DeleteRule PROVE IInv'
<1> USE DEF DeleteRule, Call, Goto, ReturnError, objVars, awsVars, boundVars, workVars
<1>1. TypeOK'
  BY ConstantsAssumption DEF IInv, TypeOK, Steps, NormalSteps, DeleteSteps
<1>2. VersionsInv'
  BY DEF IInv, VersionsInv
<1>3. DependenciesInv'
  BY DEF IInv, TypeOK, DependenciesInv, NormalInv, DeleteInv
<1>4. NormalInv'
  BY DEF IInv, TypeOK, NormalInv, NormalSteps, DeleteSteps
<1>5. DeleteInv'
  BY DEF IInv, TypeOK, DeleteInv, DependenciesInv, NormalSteps, DeleteSteps
<1>6. ResourcesGuarded'
  BY DEF IInv, TypeOK, ResourcesGuarded, HasResources, DependenciesInv, NormalInv, NormalSteps
<1>7. RuleServed'
  <2>1. \A c \in Clusters : rule'[c] => rule[c]
    BY DEF IInv, TypeOK
  <2>2. UNCHANGED <<sg, ingress, ep>>
    OBVIOUS
  <2> QED
    BY <2>1, <2>2 DEF IInv, RuleServed
<1>8. DNSPathComplete'
  BY DEF IInv, TypeOK, DNSPathComplete, NormalInv, DeleteInv, DependenciesInv, NormalSteps
<1> QED
  BY <1>1, <1>2, <1>3, <1>4, <1>5, <1>6, <1>7, <1>8 DEF IInv

LEMMA DeleteEndpointInInv ==
  ASSUME IInv, DeleteEndpoint("inbound", "deleteInbound") PROVE IInv'
<1> USE DEF DeleteEndpoint, Call, Goto, Return, objVars, awsVars, boundVars, workVars
<1>1. TypeOK'
  BY ConstantsAssumption DEF IInv, TypeOK, Steps, NormalSteps, DeleteSteps
<1>2. VersionsInv'
  BY DEF IInv, VersionsInv
<1>3. DependenciesInv'
  BY DEF IInv, TypeOK, DependenciesInv, DeleteInv, DeleteSteps
<1>4. NormalInv'
  BY DEF IInv, TypeOK, NormalInv, NormalSteps, DeleteSteps
<1>5. DeleteInv'
  BY DEF IInv, TypeOK, DeleteInv, DependenciesInv, NormalSteps, DeleteSteps
<1>6. ResourcesGuarded'
  BY DEF IInv, TypeOK, ResourcesGuarded, HasResources, DependenciesInv, NormalInv, NormalSteps
<1>7. RuleServed'
  BY DEF IInv, TypeOK, RuleServed, NormalInv, DeleteInv, DependenciesInv, NormalSteps
<1>8. DNSPathComplete'
  BY DEF IInv, TypeOK, DNSPathComplete, NormalInv, DeleteInv, DependenciesInv, NormalSteps
<1> QED
  BY <1>1, <1>2, <1>3, <1>4, <1>5, <1>6, <1>7, <1>8 DEF IInv

LEMMA DeleteEndpointOutInv ==
  ASSUME IInv, DeleteEndpoint("outbound", "deleteOutbound") PROVE IInv'
<1> USE DEF DeleteEndpoint, Call, Goto, Return, objVars, awsVars, boundVars, workVars
<1>1. TypeOK'
  BY ConstantsAssumption DEF IInv, TypeOK, Steps, NormalSteps, DeleteSteps
<1>2. VersionsInv'
  BY DEF IInv, VersionsInv
<1>3. DependenciesInv'
  BY DEF IInv, TypeOK, DependenciesInv, DeleteInv, DeleteSteps
<1>4. NormalInv'
  BY DEF IInv, TypeOK, NormalInv, NormalSteps, DeleteSteps
<1>5. DeleteInv'
  BY DEF IInv, TypeOK, DeleteInv, DependenciesInv, NormalSteps, DeleteSteps
<1>6. ResourcesGuarded'
  BY DEF IInv, TypeOK, ResourcesGuarded, HasResources, DependenciesInv, NormalInv, NormalSteps
<1>7. RuleServed'
  BY DEF IInv, TypeOK, RuleServed, NormalInv, DeleteInv, DependenciesInv, NormalSteps
<1>8. DNSPathComplete'
  BY DEF IInv, TypeOK, DNSPathComplete, NormalInv, DeleteInv, DependenciesInv, NormalSteps
<1> QED
  BY <1>1, <1>2, <1>3, <1>4, <1>5, <1>6, <1>7, <1>8 DEF IInv

LEMMA DeleteResourceShareInv ==
  ASSUME IInv, DeleteResourceShare PROVE IInv'
<1> USE DEF DeleteResourceShare, Call, Goto, Return, objVars, awsVars, boundVars, workVars
<1>1. TypeOK'
  BY ConstantsAssumption DEF IInv, TypeOK, Steps, NormalSteps, DeleteSteps
<1>2. VersionsInv'
  BY DEF IInv, VersionsInv
<1>3. DependenciesInv'
  BY DEF IInv, TypeOK, DependenciesInv, NormalInv, DeleteInv
<1>4. NormalInv'
  BY DEF IInv, TypeOK, NormalInv, NormalSteps, DeleteSteps
<1>5. DeleteInv'
  BY DEF IInv, TypeOK, DeleteInv, DependenciesInv, NormalSteps, DeleteSteps
<1>6. ResourcesGuarded'
  BY DEF IInv, TypeOK, ResourcesGuarded, HasResources, DependenciesInv, NormalInv, NormalSteps
<1>7. RuleServed'
  BY DEF IInv, TypeOK, RuleServed, NormalInv, DeleteInv, DependenciesInv, NormalSteps
<1>8. DNSPathComplete'
  BY DEF IInv, TypeOK, DNSPathComplete, NormalInv, DeleteInv, DependenciesInv, NormalSteps
<1> QED
  BY <1>1, <1>2, <1>3, <1>4, <1>5, <1>6, <1>7, <1>8 DEF IInv

LEMMA DeleteSecurityGroupInv ==
  ASSUME IInv, DeleteSecurityGroup PROVE IInv'
<1> USE DEF DeleteSecurityGroup, Call, Goto, ReturnError, objVars, awsVars, boundVars, workVars
<1>1. TypeOK'
  BY ConstantsAssumption DEF IInv, TypeOK, Steps, NormalSteps, DeleteSteps
<1>2. VersionsInv'
  BY DEF IInv, VersionsInv
<1>3. DependenciesInv'
  BY DEF IInv, TypeOK, DependenciesInv, NormalInv, DeleteInv
<1>4. NormalInv'
  BY DEF IInv, TypeOK, NormalInv, NormalSteps, DeleteSteps
<1>5. DeleteInv'
  BY DEF IInv, TypeOK, DeleteInv, DependenciesInv, NormalSteps, DeleteSteps
<1>6. ResourcesGuarded'
  BY DEF IInv, TypeOK, ResourcesGuarded, HasResources, DependenciesInv, NormalInv, NormalSteps
<1>7. RuleServed'
  BY DEF IInv, TypeOK, RuleServed, NormalInv, DeleteInv, DependenciesInv, NormalSteps
<1>8. DNSPathComplete'
  BY DEF IInv, TypeOK, DNSPathComplete, NormalInv, DeleteInv, DependenciesInv, NormalSteps
<1> QED
  BY <1>1, <1>2, <1>3, <1>4, <1>5, <1>6, <1>7, <1>8 DEF IInv

LEMMA FindAssociationsInv ==
  ASSUME IInv, FindAssociations PROVE IInv'
<1> USE DEF FindAssociations, Call, Goto, Return, objVars, awsVars, boundVars, workVars
<1>1. TypeOK'
  BY ConstantsAssumption DEF IInv, TypeOK, Steps, NormalSteps, DeleteSteps
<1>2. VersionsInv'
  BY DEF IInv, VersionsInv
<1>3. DependenciesInv'
  BY DEF IInv, TypeOK, DependenciesInv, NormalInv, DeleteInv
<1>4. NormalInv'
  BY DEF IInv, TypeOK, NormalInv, NormalSteps, DeleteSteps
<1>5. DeleteInv'
  BY DEF IInv, TypeOK, DeleteInv, DependenciesInv, NormalSteps, DeleteSteps
<1>6. ResourcesGuarded'
  BY DEF IInv, TypeOK, ResourcesGuarded, HasResources, DependenciesInv, NormalInv, NormalSteps
<1>7. RuleServed'
  BY DEF IInv, TypeOK, RuleServed, NormalInv, DeleteInv, DependenciesInv, NormalSteps
<1>8. DNSPathComplete'
  BY DEF IInv, TypeOK, DNSPathComplete, NormalInv, DeleteInv, DependenciesInv, NormalSteps
<1> QED
  BY <1>1, <1>2, <1>3, <1>4, <1>5, <1>6, <1>7, <1>8 DEF IInv

LEMMA DisassociateRuleInv ==
  ASSUME IInv, NEW r \in Rules, DisassociateRule(r) PROVE IInv'
<1> USE DEF DisassociateRule, Call, Goto, Return, objVars, awsVars, boundVars, workVars
<1>1. TypeOK'
  BY ConstantsAssumption DEF IInv, TypeOK, Steps, NormalSteps, DeleteSteps
<1>2. VersionsInv'
  BY DEF IInv, VersionsInv
<1>3. DependenciesInv'
  BY DEF IInv, TypeOK, DependenciesInv, NormalInv, DeleteInv
<1>4. NormalInv'
  BY DEF IInv, TypeOK, NormalInv, NormalSteps, DeleteSteps
<1>5. DeleteInv'
  BY DEF IInv, TypeOK, DeleteInv, DependenciesInv, NormalSteps, DeleteSteps
<1>6. ResourcesGuarded'
  BY DEF IInv, TypeOK, ResourcesGuarded, HasResources, DependenciesInv, NormalInv, NormalSteps
<1>7. RuleServed'
  BY DEF IInv, TypeOK, RuleServed, NormalInv, DeleteInv, DependenciesInv, NormalSteps
<1>8. DNSPathComplete'
  BY DEF IInv, TypeOK, DNSPathComplete, NormalInv, DeleteInv, DependenciesInv, NormalSteps
<1> QED
  BY <1>1, <1>2, <1>3, <1>4, <1>5, <1>6, <1>7, <1>8 DEF IInv

LEMMA DisassociateDoneInv ==
  ASSUME IInv, DisassociateDone PROVE IInv'
<1> USE DEF DisassociateDone, Call, Goto, Return, objVars, awsVars, boundVars, workVars
<1>1. TypeOK'
  BY ConstantsAssumption DEF IInv, TypeOK, Steps, NormalSteps, DeleteSteps
<1>2. VersionsInv'
  BY DEF IInv, VersionsInv
<1>3. DependenciesInv'
  BY DEF IInv, TypeOK, DependenciesInv, NormalInv, DeleteInv
<1>4. NormalInv'
  BY DEF IInv, TypeOK, NormalInv, NormalSteps, DeleteSteps
<1>5. DeleteInv'
  BY DEF IInv, TypeOK, DeleteInv, DependenciesInv, NormalSteps, DeleteSteps
<1>6. ResourcesGuarded'
  BY DEF IInv, TypeOK, ResourcesGuarded, HasResources, DependenciesInv, NormalInv, NormalSteps
<1>7. RuleServed'
  BY DEF IInv, TypeOK, RuleServed, NormalInv, DeleteInv, DependenciesInv, NormalSteps
<1>8. DNSPathComplete'
  BY DEF IInv, TypeOK, DNSPathComplete, NormalInv, DeleteInv, DependenciesInv, NormalSteps
<1> QED
  BY <1>1, <1>2, <1>3, <1>4, <1>5, <1>6, <1>7, <1>8 DEF IInv

LEMMA EndpointDeletedInv ==
  ASSUME IInv, NEW c \in Clusters, NEW d \in Directions, EndpointDeleted(c, d) PROVE IInv'
<1> USE DEF EndpointDeleted, Call, Goto, Return, objVars, awsVars, boundVars, workVars
<1>1. TypeOK'
  BY ConstantsAssumption DEF IInv, TypeOK, Steps, NormalSteps, DeleteSteps
<1>2. VersionsInv'
  BY DEF IInv, VersionsInv
<1>3. DependenciesInv'
  BY DEF IInv, TypeOK, DependenciesInv, NormalInv, DeleteInv
<1>4. NormalInv'
  BY DEF IInv, TypeOK, NormalInv, NormalSteps, DeleteSteps
<1>5. DeleteInv'
  BY DEF IInv, TypeOK, DeleteInv, DependenciesInv, NormalSteps, DeleteSteps
<1>6. ResourcesGuarded'
  BY DEF IInv, TypeOK, ResourcesGuarded, HasResources, DependenciesInv, NormalInv, NormalSteps
<1>7. RuleServed'
  BY DEF IInv, TypeOK, RuleServed, NormalInv, DeleteInv, DependenciesInv, NormalSteps
<1>8. DNSPathComplete'
  BY DEF IInv, TypeOK, DNSPathComplete, NormalInv, DeleteInv, DependenciesInv, NormalSteps
<1> QED
  BY <1>1, <1>2, <1>3, <1>4, <1>5, <1>6, <1>7, <1>8 DEF IInv

LEMMA FailInv ==
  ASSUME IInv, Fail PROVE IInv'
<1>1. queue' \subseteq Clusters
  BY DEF Fail, IInv, TypeOK
<1>2. failures' \in 0..MaxFailures
  BY ConstantsAssumption DEF Fail, IInv, TypeOK
<1> QED
  BY <1>1, <1>2, WorkerOnly DEF Fail, objVars, IInv, TypeOK

\* An event for which nothing is done.
LEMMA SkipInv ==
  ASSUME IInv, NEW c \in Clusters, Skip(c) PROVE IInv'
<1>1. queue' \subseteq Clusters
  BY DEF Skip, IInv, TypeOK
<1> QED
  BY <1>1, WorkerOnly DEF Skip, objVars, boundVars, IInv, TypeOK

\* AddFinalizer either puts the finalizer on the version the worker has seen,
\* or the reconciliation ends.
LEMMA AddFinalizerCallInv ==
  ASSUME IInv, AddFinalizerCall PROVE IInv'
<1> USE DEF AddFinalizerCall, Call, ReturnError, awsVars, boundVars
<1>1. CASE ~Unconflicted(api[cur], copy)
  <2>1. /\ pc' = "idle" /\ queue' = queue \cup {cur}
        /\ UNCHANGED <<api, cache, cur, copy, found, todo, awsVars, boundVars>>
    BY <1>1
  <2> QED
    BY <2>1, WorkerOnly DEF IInv, TypeOK
<1>2. CASE Unconflicted(api[cur], copy)
  <2> DEFINE n == AddFinalizer(api[cur], ResolverRulesFinalizer)
  <2>1. cur \in Clusters /\ Sound(api[cur]) /\ api[cur].phase # "gone"
    BY <1>2 DEF IInv, TypeOK, VersionsInv, Sound, Unconflicted
  <2>2. /\ Follows(api[cur], n)
        /\ ResolverRulesFinalizer \in n.fins
    BY <2>1, AddFinalizerFacts DEF Finalizers
  <2>3. /\ api' = [api EXCEPT ![cur] = n]
        /\ copy' = n
        /\ pc' \in {"findRules", "markCondition"}
        /\ UNCHANGED <<cache, cur, found, todo, queue, awsVars, boundVars>>
    BY <1>2, <2>1 DEF IInv, TypeOK
  <2> HIDE DEF n
  <2>4. \A b \in Clusters : api'[b] = IF b = cur THEN n ELSE api[b]
    BY <2>3 DEF IInv, TypeOK
  <2>5. TypeOK'
    BY <2>2, <2>3, <2>4 DEF IInv, TypeOK, Follows, Steps, NormalSteps
  <2>6. VersionsInv'
    <3>1. \A b \in Clusters : cache[b].rv \in Nat /\ api[b].rv \in Nat
      BY DEF IInv, TypeOK, AWSClusters
    <3>2. n.rv \in Nat
      BY <2>2 DEF AWSClusters, Follows
    <3> QED
      BY <2>1, <2>2, <2>3, <2>4, <3>1, <3>2 DEF IInv, VersionsInv, Follows
  <2>7. DependenciesInv' /\ RuleServed' /\ DNSPathComplete'
    BY <2>3 DEF IInv, DependenciesInv, RuleServed, DNSPathComplete
  <2>8. NormalInv'
    BY <2>1, <2>2, <2>3, <2>4 DEF IInv, NormalInv, NormalSteps
  <2>9. DeleteInv'
    BY <2>3 DEF DeleteInv, DeleteSteps
  <2>10. ResourcesGuarded'
    BY <2>2, <2>3, <2>4 DEF IInv, ResourcesGuarded, HasResources
  <2> QED
    BY <2>5, <2>6, <2>7, <2>8, <2>9, <2>10 DEF IInv
<1> QED
  BY <1>1, <1>2

\* The status patch is made without a lock; it leaves the finalizers alone.
LEMMA MarkConditionCallInv ==
  ASSUME IInv, MarkConditionCall PROVE IInv'
<1> USE DEF MarkConditionCall, Call, ReturnError, awsVars, boundVars
<1>1. CASE api[cur].phase = "gone"
  <2>1. /\ pc' = "idle" /\ queue' = queue \cup {cur}
        /\ UNCHANGED <<api, cache, cur, copy, found, todo, awsVars, boundVars>>
    BY <1>1
  <2> QED
    BY <2>1, WorkerOnly DEF IInv, TypeOK
<1>2. CASE api[cur].phase # "gone"
  <2> DEFINE n == MarkConditionTrue(api[cur], copy, ResolverRulesAssociated)
  <2>1. cur \in Clusters /\ copy \in AWSClusters /\ Sound(api[cur])
    BY DEF IInv, TypeOK, VersionsInv, Sound
  <2>2. Follows(api[cur], n) /\ n.fins = api[cur].fins
    BY <1>2, <2>1, MarkConditionTrueFacts DEF Conditions
  <2>3. /\ api' = [api EXCEPT ![cur] = n]
        /\ copy' = n
        /\ pc' = "securityGroup"
        /\ UNCHANGED <<cache, cur, found, todo, queue, awsVars, boundVars>>
    BY <1>2, <2>1 DEF IInv, TypeOK
  <2> HIDE DEF n
  <2>4. \A b \in Clusters : api'[b] = IF b = cur THEN n ELSE api[b]
    BY <2>3 DEF IInv, TypeOK
  <2>5. TypeOK'
    BY <2>2, <2>3, <2>4 DEF IInv, TypeOK, Follows, Steps, NormalSteps
  <2>6. VersionsInv'
    <3>1. \A b \in Clusters : cache[b].rv \in Nat /\ api[b].rv \in Nat
      BY DEF IInv, TypeOK, AWSClusters
    <3>2. n.rv \in Nat
      BY <2>2 DEF AWSClusters, Follows
    <3> QED
      BY <2>1, <2>2, <2>3, <2>4, <3>1, <3>2 DEF IInv, VersionsInv, Follows
  <2>7. DependenciesInv' /\ RuleServed' /\ DNSPathComplete'
    BY <2>3 DEF IInv, DependenciesInv, RuleServed, DNSPathComplete
  <2>8. NormalInv'
    BY <2>1, <2>2, <2>3, <2>4 DEF IInv, NormalInv, NormalSteps
  <2>9. DeleteInv'
    BY <2>3 DEF DeleteInv, DeleteSteps
  <2>10. ResourcesGuarded'
    BY <2>2, <2>3, <2>4 DEF IInv, ResourcesGuarded, HasResources
  <2> QED
    BY <2>5, <2>6, <2>7, <2>8, <2>9, <2>10 DEF IInv
<1> QED
  BY <1>1, <1>2

\* The finalizer comes off only when nothing HasResources names is left.
LEMMA RemoveFinalizerCallInv ==
  ASSUME IInv, RemoveFinalizerCall PROVE IInv'
<1> USE DEF RemoveFinalizerCall, Call, Goto, Return, ReturnError, awsVars, boundVars
<1>1. ~HasResources(cur)
  BY DEF IInv, TypeOK, DeleteInv, DependenciesInv, HasResources
<1>2. cur \in Clusters /\ Sound(api[cur])
  BY DEF IInv, TypeOK, VersionsInv, Sound
<1>3. PICK n : /\ Follows(api[cur], n)
               /\ api' = [api EXCEPT ![cur] = n]
  <2>1. CASE Unconflicted(api[cur], copy)
    <3>1. api[cur].phase # "gone"
      BY <2>1 DEF Unconflicted
    <3> QED
      BY <1>2, <2>1, <3>1, RemoveFinalizerFacts DEF Finalizers
  <2>2. CASE ~Unconflicted(api[cur], copy)
    <3>1. api' = [api EXCEPT ![cur] = api[cur]]
      BY <2>2 DEF IInv, TypeOK
    <3>2. Follows(api[cur], api[cur])
      BY <1>2 DEF Follows, Sound, AWSClusters
    <3> QED
      BY <3>1, <3>2
  <2> QED
    BY <2>1, <2>2
<1>4. /\ pc' = "idle" /\ queue' \subseteq queue \cup {cur}
      /\ UNCHANGED <<cache, cur, copy, found, todo, awsVars, boundVars>>
  OBVIOUS
<1>5. \A b \in Clusters : api'[b] = IF b = cur THEN n ELSE api[b]
  BY <1>3 DEF IInv, TypeOK
<1>6. TypeOK'
  BY <1>3, <1>4, <1>5 DEF IInv, TypeOK, Follows, Steps
<1>7. VersionsInv'
  <2>1. \A b \in Clusters : cache[b].rv \in Nat /\ api[b].rv \in Nat
    BY DEF IInv, TypeOK, AWSClusters
  <2>2. n.rv \in Nat /\ copy.rv \in Nat
    BY <1>3 DEF AWSClusters, Follows, IInv, TypeOK
  <2> QED
    BY <1>2, <1>3, <1>4, <1>5, <2>1, <2>2 DEF IInv, VersionsInv, Follows
<1>8. DependenciesInv' /\ RuleServed' /\ DNSPathComplete'
  BY <1>4 DEF IInv, DependenciesInv, RuleServed, DNSPathComplete
<1>9. NormalInv' /\ DeleteInv'
  BY <1>4 DEF NormalInv, DeleteInv, NormalSteps, DeleteSteps
<1>10. ResourcesGuarded'
  BY <1>1, <1>4, <1>5 DEF IInv, ResourcesGuarded, HasResources
<1> QED
  BY <1>6, <1>7, <1>8, <1>9, <1>10 DEF IInv

\* A reconciliation starts from what the cache holds.
LEMMA ReconcileInv ==
  ASSUME IInv, NEW c \in Clusters, Reconcile(c) PROVE IInv'
<1> USE DEF Reconcile, Deletes, Serves, Call, objVars, awsVars, boundVars
<1>1. TypeOK'
  BY DEF IInv, TypeOK, Steps, NormalSteps, DeleteSteps
<1>2. VersionsInv'
  BY DEF IInv, VersionsInv
<1>3. DependenciesInv' /\ RuleServed' /\ DNSPathComplete' /\ ResourcesGuarded'
  BY DEF IInv, DependenciesInv, RuleServed, DNSPathComplete, ResourcesGuarded, HasResources
<1>4. NormalInv'
  BY DEF IInv, TypeOK, NormalInv, DependenciesInv, NormalSteps
<1>5. DeleteInv'
  BY DEF DeleteInv, DeleteSteps
<1> QED
  BY <1>1, <1>2, <1>3, <1>4, <1>5 DEF IInv

\* A synchronised cache agrees with the API server.
LEMMA CacheSyncInv ==
  ASSUME IInv, NEW c \in Clusters, CacheSync(c) PROVE IInv'
<1> USE DEF CacheSync, workVars, awsVars, boundVars
<1>1. \A b \in Clusters : cache'[b] = IF b = c THEN api[b] ELSE cache[b]
  BY DEF IInv, TypeOK
<1>2. TypeOK'
  BY <1>1 DEF IInv, TypeOK
<1>3. VersionsInv'
  <2>1. \A b \in Clusters : api[b].rv \in Nat
    BY DEF IInv, TypeOK, AWSClusters
  <2> QED
    BY <1>1, <2>1 DEF IInv, VersionsInv
<1>4. DependenciesInv' /\ DeleteInv'
  BY <1>1 DEF IInv, TypeOK, DependenciesInv, DeleteInv, VersionsInv
<1>5. RuleServed' /\ DNSPathComplete' /\ ResourcesGuarded' /\ NormalInv'
  BY DEF IInv, RuleServed, DNSPathComplete, ResourcesGuarded, HasResources, NormalInv
<1> QED
  BY <1>2, <1>3, <1>4, <1>5 DEF IInv

LEMMA UserDeleteInv ==
  ASSUME IInv, NEW c \in Clusters, UserDelete(c) PROVE IInv'
<1>1. Sound(api[c]) /\ api[c].phase = "live"
  BY DEF UserDelete, IInv, TypeOK, VersionsInv, Sound
<1>2. /\ api' = [api EXCEPT ![c] = DeletionRequested(api[c])]
      /\ failures' = failures /\ edits' \in 0..MaxEdits
      /\ UNCHANGED <<cache, workVars, awsVars>>
  BY DEF UserDelete, boundVars, IInv, TypeOK
<1> QED
  BY <1>1, <1>2, DeletionRequestedFacts, ForeignWrite

\* An edit that keeps version, phase and the finalizer of this controller.
LEMMA EditInv ==
  ASSUME IInv, NEW c \in Clusters, NEW n \in AWSClusters, Edit(c, n),
         n.rv = api[c].rv, n.phase = api[c].phase,
         ResolverRulesFinalizer \in api[c].fins => ResolverRulesFinalizer \in n.fins
  PROVE  IInv'
<1>1. Sound(api[c]) /\ api[c].phase # "gone"
  BY DEF Edit, IInv, TypeOK, VersionsInv, Sound
<1>2. Follows(api[c], Stored(api[c], n)) /\ Stored(api[c], n).fins = n.fins
  BY <1>1, StoredFollows
<1>3. /\ api' = [api EXCEPT ![c] = Stored(api[c], n)]
      /\ failures' = failures
      /\ UNCHANGED <<cache, workVars, awsVars>>
  BY DEF Edit
<1>4. edits' \in 0..MaxEdits
  BY ConstantsAssumption DEF Edit, IInv, TypeOK
<1> QED
  BY <1>2, <1>3, <1>4, ForeignWrite

LEMMA EnvironmentEditsInv ==
  ASSUME IInv, NEW c \in Clusters, NetworkEdit(c) \/ FinalizerEdit(c) \/ AnnotationEdit(c)
  PROVE  IInv'
<1>1. api[c] \in AWSClusters
  BY DEF IInv, TypeOK
<1>2. CASE NetworkEdit(c)
  <2>1. PICK k \in NetworkConditions :
          \/ Edit(c, [api[c] EXCEPT !.conds = @ \cup {k}])
          \/ Edit(c, [api[c] EXCEPT !.conds = @ \ {k}])
    BY <1>2 DEF NetworkEdit
  <2>2. \A s \in SUBSET Conditions :
          LET n == [api[c] EXCEPT !.conds = s]
          IN  n \in AWSClusters /\ n.rv = api[c].rv /\ n.phase = api[c].phase
              /\ n.fins = api[c].fins
    BY <1>1 DEF AWSClusters
  <2>3. /\ api[c].conds \cup {k} \in SUBSET Conditions
        /\ api[c].conds \ {k} \in SUBSET Conditions
    BY <1>1, <2>1 DEF AWSClusters, Conditions
  <2> QED
    BY <2>1, <2>2, <2>3, EditInv
<1>3. CASE FinalizerEdit(c)
  <2>1. PICK f \in OtherFinalizers :
          \/ Edit(c, [api[c] EXCEPT !.fins = @ \cup {f}])
          \/ Edit(c, [api[c] EXCEPT !.fins = @ \ {f}])
    BY <1>3 DEF FinalizerEdit
  <2>2. \A s \in SUBSET Finalizers :
          LET n == [api[c] EXCEPT !.fins = s]
          IN  n \in AWSClusters /\ n.rv = api[c].rv /\ n.phase = api[c].phase
              /\ n.fins = s
    BY <1>1 DEF AWSClusters
  <2>3. /\ api[c].fins \cup {f} \in SUBSET Finalizers
        /\ api[c].fins \ {f} \in SUBSET Finalizers
        /\ f # ResolverRulesFinalizer
    BY <1>1, <2>1, OtherFinalizersAssumption DEF AWSClusters, Finalizers
  <2> QED
    BY <2>1, <2>2, <2>3, EditInv
<1>4. CASE AnnotationEdit(c)
  <2>1. \/ Edit(c, [api[c] EXCEPT !.owner = ~@])
        \/ Edit(c, [api[c] EXCEPT !.dnsMode = IF @ = "private" THEN "public" ELSE "private"])
    BY <1>4 DEF AnnotationEdit
  <2>2. LET n == [api[c] EXCEPT !.owner = ~@]
        IN  n \in AWSClusters /\ n.rv = api[c].rv /\ n.phase = api[c].phase
            /\ n.fins = api[c].fins
    BY <1>1 DEF AWSClusters
  <2>3. LET n == [api[c] EXCEPT !.dnsMode = IF @ = "private" THEN "public" ELSE "private"]
        IN  n \in AWSClusters /\ n.rv = api[c].rv /\ n.phase = api[c].phase
            /\ n.fins = api[c].fins
    BY <1>1 DEF AWSClusters
  <2> QED
    BY <2>1, <2>2, <2>3, EditInv
<1> QED
  BY <1>2, <1>3, <1>4

LEMMA StutterInv ==
  ASSUME IInv, UNCHANGED vars PROVE IInv'
  BY WorkerOnly DEF vars, objVars, workVars, boundVars, IInv, TypeOK

LEMMA NextInv == IInv /\ [Next]_vars => IInv'
<1> SUFFICES ASSUME IInv, [Next]_vars PROVE IInv'
  OBVIOUS
<1>1. ASSUME NEW c \in Clusters, Reconcile(c) \/ Skip(c) PROVE IInv'
  BY <1>1, ReconcileInv, SkipInv
<1>2. CASE Normal
  BY <1>2, AddFinalizerCallInv, FindRulesInv, AssociateRuleInv, AssociateDoneInv,
     MarkConditionCallInv, CreateSecurityGroupInv, AuthorizeIngressInv, LookupRuleInv,
     CreateEndpointInv, CreateRuleInv, ApplyResourceShareInv, AssociateDNSInv
     DEF Normal
<1>3. CASE Delete
  BY <1>3, FindRuleInv, DisassociateDNSInv, DeleteRuleInv, DeleteEndpointInInv,
     DeleteEndpointOutInv, DeleteResourceShareInv, DeleteSecurityGroupInv,
     FindAssociationsInv, DisassociateRuleInv, DisassociateDoneInv, RemoveFinalizerCallInv
     DEF Delete
<1>4. CASE Fail
  BY <1>4, FailInv
<1>5. CASE Environment
  BY <1>5, EndpointDeletedInv, CacheSyncInv, UserDeleteInv, EnvironmentEditsInv
     DEF Environment
<1>6. CASE UNCHANGED vars
  BY <1>6, StutterInv
<1> QED
  BY <1>1, <1>2, <1>3, <1>4, <1>5, <1>6 DEF Next

\* The inductive invariant is an invariant of the specification.
THEOREM Invariance == Spec => []IInv
  BY InitInv, NextInv, PTL DEF Spec

\* The state of the controller, the cache and AWS is always well typed.
THEOREM TypeCorrect == Spec => []TypeOK
<1>1. IInv => TypeOK
  BY DEF IInv
<1> QED
  BY <1>1, Invariance, PTL

\* Whatever fails and however stale the cache is, no AWSCluster is let go
\* while its security group, an endpoint, its rule or an association of that
\* rule exists.  Nothing is said of the RAM share.
THEOREM ResourcesAlwaysGuarded == Spec => []ResourcesGuarded
<1>1. IInv => ResourcesGuarded
  BY DEF IInv
<1> QED
  BY <1>1, Invariance, PTL

\* A forwarding rule always points at working endpoints.
THEOREM RuleAlwaysServed == Spec => []RuleServed
<1>1. IInv => RuleServed
  BY DEF IInv
<1> QED
  BY <1>1, Invariance, PTL

\* A rule is associated with the DNS server VPC only while it exists and is
\* shared.
THEOREM DNSPathAlwaysComplete == Spec => []DNSPathComplete
<1>1. IInv => DNSPathComplete
  BY DEF IInv
<1> QED
  BY <1>1, Invariance, PTL
=============================================================================
