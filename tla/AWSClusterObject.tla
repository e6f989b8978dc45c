-------------------------- MODULE AWSClusterObject --------------------------
(***************************************************************************)
(* The AWSCluster custom resource as the API server keeps it, and the      *)
(* writes the operator makes to it (pkg/k8sclient/awsclusterclient.go).    *)
(*                                                                         *)
(* Only what the controllers read or write is kept: the life cycle phase,  *)
(* the resource version, the finalizers, the conditions that are True, the *)
(* identity reference, two annotations and the paused annotation.  The     *)
(* resource version grows with every write that changes the object; a      *)
(* write that changes nothing leaves it alone.                             *)
(***************************************************************************)
EXTENDS Naturals

CONSTANT OtherFinalizers    \* finalizers of other controllers (CAPA, ...)

\* The finalizer of the resolver rules controller.
ResolverRulesFinalizer == "resolver-rules"

ASSUME OtherFinalizersAssumption == ResolverRulesFinalizer \notin OtherFinalizers

Finalizers == OtherFinalizers \cup {ResolverRulesFinalizer}

\* The conditions the controllers test; the first two belong to the
\* aws-vpc-operator, the third to the resolver rules controller.
NetworkConditions == {"VpcReady", "SubnetsReady"}
ResolverRulesAssociated == "ResolverRulesAssociated"
Conditions == NetworkConditions \cup {ResolverRulesAssociated}

AWSClusters ==
  [ phase    : {"live", "deleting", "gone"},
    rv       : Nat,
    fins     : SUBSET Finalizers,
    conds    : SUBSET Conditions,
    identity : BOOLEAN,      \* spec.identityRef is set
    dnsMode  : {"private", "public"},
    owner    : BOOLEAN,      \* the resolver-rules-owner-account annotation is set
    paused   : BOOLEAN ]     \* the paused annotation is set

(***************************************************************************)
(* What the API server makes of a write that turns old into new: a new     *)
(* resource version when something changed, and the object is removed when *)
(* it is being deleted and its last finalizer goes.                        *)
(***************************************************************************)
Stored(old, new) ==
  IF new = old THEN old
  ELSE [new EXCEPT !.rv = old.rv + 1,
                   !.phase = IF new.phase = "deleting" /\ new.fins = {}
                             THEN "gone" ELSE new.phase]

\* A patch made with MergeFromWithOptimisticLock from the copy is accepted.
Unconflicted(stored, copy) == stored.phase # "gone" /\ stored.rv = copy.rv

AddFinalizer(o, f) == Stored(o, [o EXCEPT !.fins = @ \cup {f}])

RemoveFinalizer(o, f) == Stored(o, [o EXCEPT !.fins = @ \ {f}])

(***************************************************************************)
(* MarkConditionTrue: a JSON merge patch of the status, without the lock,  *)
(* computed from the caller's copy.  A merge patch replaces a list as a    *)
(* whole, so the conditions of the copy overwrite the stored ones; when    *)
(* the copy has the condition already, the patch is empty.                 *)
(***************************************************************************)
MarkConditionTrue(o, copy, k) ==
  IF k \in copy.conds THEN o ELSE Stored(o, [o EXCEPT !.conds = copy.conds \cup {k}])

\* Deletion requested by a user: immediate when no finalizer holds the object.
DeletionRequested(o) ==
  [o EXCEPT !.rv = @ + 1, !.phase = IF o.fins = {} THEN "gone" ELSE "deleting"]
=============================================================================
