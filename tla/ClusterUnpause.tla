--------------------------- MODULE ClusterUnpause ---------------------------
(***************************************************************************)
(* The unpause controller (controllers/unpause.go) next to the resolver    *)
(* rules controller: two workers on the same AWSClusters.  The first waits *)
(* for a condition the second sets, and its patches change the resource    *)
(* version the second locks on.                                            *)
(***************************************************************************)
EXTENDS ResolverRules

CONSTANT PrivateVPC     \* clusters with the vpc-mode annotation set to private

ASSUME PrivateVPCAssumption == PrivateVPC \subseteq Clusters

VARIABLES
  paused,    \* paused[c]: spec.paused of the Cluster c
  upc,       \* the call the unpause worker makes next
  ucur,      \* the cluster it reconciles
  ucopy      \* its copy of the AWSCluster

unpauseVars == <<paused, upc, ucur, ucopy>>
allVars == <<vars, unpauseVars>>

UnpauseInit ==
  /\ Init
  /\ paused = [c \in Clusters |-> api[c].paused]
  /\ upc = "idle"
  /\ ucur = cur
  /\ ucopy = copy

\* Fault: the condition of the resolver rules is not waited for.
FaultUnpauseAllowed(o) == NetworkConditions \subseteq o.conds

\* The conditions reconcileNormal asks for.
UnpauseAllowed(o) ==
  /\ NetworkConditions \subseteq o.conds
  /\ o.dnsMode # "private" \/ ResolverRulesAssociated \in o.conds

\* Fault: nothing is done when the Cluster is unpaused already.
FaultUnpauseReconcile(c) ==
  /\ upc = "idle"
  /\ paused[c]
  /\ c \in PrivateVPC
  /\ cache[c].phase = "live"
  /\ UnpauseAllowed(cache[c])
  /\ upc' = "patchCluster"
  /\ ucur' = c
  /\ ucopy' = cache[c]
  /\ UNCHANGED <<vars, paused>>

\* Reconcile and reconcileNormal up to the call of Unpause.
UnpauseReconcile(c) ==
  /\ upc = "idle"
  /\ c \in PrivateVPC
  /\ cache[c].phase = "live"
  /\ UnpauseAllowed(cache[c])
  /\ upc' = "patchCluster"
  /\ ucur' = c
  /\ ucopy' = cache[c]
  /\ UNCHANGED <<vars, paused>>

\* Unpause, first patch: the Cluster.
PatchCluster ==
  /\ upc = "patchCluster"
  /\ paused' = [paused EXCEPT ![ucur] = FALSE]
  /\ upc' = "patchAWSCluster"
  /\ UNCHANGED <<ucur, ucopy, vars>>

\* Unpause, second patch: the annotation of the AWSCluster, without a lock.
\* The patch is empty when the copy does not have the annotation; of an
\* object that is gone it is an error, and the retry finds no object.
PatchAWSCluster ==
  /\ upc = "patchAWSCluster"
  /\ api' = IF api[ucur].phase # "gone" /\ ucopy.paused
            THEN [api EXCEPT ![ucur] = Stored(@, [@ EXCEPT !.paused = FALSE])]
            ELSE api
  /\ upc' = "idle"
  /\ UNCHANGED <<paused, ucur, ucopy, cache, workVars, awsVars, boundVars>>

\* A patch fails, or the operator stops before it.
UnpauseFail ==
  /\ upc # "idle"
  /\ failures < MaxFailures
  /\ failures' = failures + 1
  /\ upc' = "idle"
  /\ UNCHANGED <<paused, ucur, ucopy, objVars, workVars, awsVars, edits>>

Unpause == PatchCluster \/ PatchAWSCluster

UnpauseNext ==
  \/ Next /\ UNCHANGED unpauseVars
  \/ \E c \in Clusters : UnpauseReconcile(c)
  \/ Unpause
  \/ UnpauseFail

\* The unpause controller has a work queue and a worker of its own.
UnpauseFairness ==
  /\ Fairness
  /\ WF_allVars(Unpause)
  /\ \A c \in Clusters : SF_allVars(UnpauseReconcile(c))

UnpauseSpec == UnpauseInit /\ [][UnpauseNext]_allVars
FairUnpauseSpec == UnpauseSpec /\ UnpauseFairness

-----------------------------------------------------------------------------
(***************************************************************************)
(* What the hand-over rests on.  The error of a single association, which  *)
(* AssociateResolverRulesInAccountWithClusterVPC only logs, does not       *)
(* happen; the annotations of a cluster are not changed; and the clusters  *)
(* are created paused, before any controller has set a condition on them.  *)
(***************************************************************************)
HandOverAssumed ==
  /\ "oneAssociation" \notin FailingCalls
  /\ EditedFields \subseteq {"conditions"}
  /\ \A o \in InitialClusters : o.paused /\ ResolverRulesAssociated \notin o.conds

(***************************************************************************)
(* A live cluster in private VPC and private DNS mode is not handed to     *)
(* CAPA before it is connected: the resolver rules finalizer is on it and  *)
(* the rules of the owner account are associated with its VPC.             *)
(***************************************************************************)
UnpausedMeansConnected ==
  \A c \in PrivateVPC :
    (~paused[c] /\ api[c].phase = "live" /\ Managed(api[c]) /\ api[c].owner)
      => /\ ResolverRulesFinalizer \in api[c].fins
         /\ \A r \in ForeignRules : <<r, c>> \in assoc

\* The live cluster has its network conditions, and the resolver rules
\* controller is through with it, has it queued and sees it ready, or has
\* no part in it.
UnpauseDue(c) ==
  /\ api[c].phase = "live" /\ NetworkConditions \subseteq api[c].conds
  /\ \/ api[c].dnsMode # "private"
     \/ ResolverRulesAssociated \in api[c].conds
     \/ c \in queue /\ Serves(cache[c])

(***************************************************************************)
(* Both objects of a cluster that is due are unpaused, unless a network    *)
(* condition is taken back first: a failed or conflicting reconciliation   *)
(* is repeated until ResolverRulesAssociated is set, and a failure between *)
(* the two patches of Unpause, which leaves one object unpaused, is        *)
(* repaired.  Readiness alone does not make a cluster due: the event of a  *)
(* condition that is set after the first reconciliation changes the status *)
(* only, and the filter of the resolver rules controller may drop it.      *)
(***************************************************************************)
EventuallyUnpaused ==
  \A c \in PrivateVPC :
    UnpauseDue(c) ~> \/ ~paused[c] /\ ~api[c].paused
                     \/ api[c].phase # "live"
                     \/ ~(NetworkConditions \subseteq api[c].conds)
=============================================================================
