---------------------- MODULE ManagementClusterNetwork ----------------------
(***************************************************************************)
(* The controller that makes the transit gateway and the prefix list of    *)
(* the management cluster and writes their ARNs to annotations of its      *)
(* AWSCluster, where the other controllers find them                       *)
(* (controllers/management_cluster_network.go, with the clients of         *)
(* pkg/aws/transitgateways.go and pkg/aws/prefixlist.go).                  *)
(***************************************************************************)
EXTENDS NetworkWorkers

\* The controller, named after its finalizer.
MCN == FinalizerManagementCluster

\* The condition that says the work has started.
Started(o) == [o EXCEPT !.conds = @ \cup {InProgress}]

BeginInProgress(c, l) ==
  /\ w' = [w EXCEPT ![MCN] = [Idle EXCEPT !.pc = l, !.cl = c, !.copy = Started(cache[c])]]
  /\ queue' = [queue EXCEPT ![MCN] = @ \ {c}]

ManagementReconcile(c) ==
  /\ Takes(MCN, c)
  /\ LET o == cache[c]
         serves == /\ c = MC /\ o.phase # "gone"
                   /\ o.mode = "GiantSwarmManaged" /\ ~o.paused
     IN \/ ~serves /\ Skip(MCN, c)
        \/ serves /\ o.phase = "live" /\ BeginInProgress(c, "addFinalizer")
        \/ /\ serves /\ o.phase = "deleting"
           /\ BeginInProgress(c, IF MCN \in o.fins THEN "deleteGateway" ELSE "status")
  /\ UNCHANGED <<objVars, awsVars, boundVars>>

\* TransitGateways.get: a gateway that is deleted does not count.
GatewayFound == gateway \in {"pending", "available"}

\* TransitGateways.Apply
ApplyGateway ==
  /\ Call(MCN, "gateway")
  /\ gateway' = IF GatewayFound THEN gateway ELSE "pending"
  /\ Goto(MCN, "annotateGateway")
  /\ UNCHANGED <<objVars, plist, att, entryVars, routes, shares, boundVars>>

\* The copy after the patch, with the condition set.
Annotated(o, copy) == [Decoded(o, copy) EXCEPT !.conds = @ \cup {TransitGatewayCreated}]

\* PatchCluster: a merge patch of one annotation, without the lock, that is
\* empty when the copy has the annotation.
Annotate(arn, next) ==
  LET c == Cl(MCN)
      o == IF arn \in Copy(MCN).arns THEN obj[c] ELSE Stored(obj[c], [obj[c] EXCEPT !.arns = @ \cup {arn}])
  IN IF obj[c].phase = "gone"
     THEN Error(MCN) /\ UNCHANGED obj
     ELSE /\ obj' = [obj EXCEPT ![c] = o]
          /\ w' = [w EXCEPT ![MCN].pc = next, ![MCN].copy = Annotated(o, @)]
          /\ UNCHANGED queue

AnnotateGateway ==
  /\ Call(MCN, "annotateGateway")
  /\ Annotate("tgw", "list")
  /\ UNCHANGED <<cache, awsVars, boundVars>>

\* PrefixLists.Apply
ApplyPrefixList ==
  /\ Call(MCN, "list")
  /\ plist' = TRUE
  /\ Goto(MCN, "annotateList")
  /\ UNCHANGED <<objVars, gateway, att, entryVars, routes, shares, boundVars>>

AnnotateList ==
  /\ Call(MCN, "annotateList")
  /\ Annotate("pl", "status")
  /\ UNCHANGED <<cache, awsVars, boundVars>>

\* The clusters on the management cluster's gateway.
Attached == {c \in Clusters : (c = MC \/ "tgw" \notin obj[c].arns) /\ att[c] \in {"available", "deleting"}}

\* Fault: the error of the deletion is ignored.
FaultDeleteGateway ==
  /\ Call(MCN, "deleteGateway")
  /\ gateway' = IF gateway = "available" /\ Attached = {} THEN "deleted" ELSE gateway
  /\ Goto(MCN, "deleteList")
  /\ UNCHANGED <<objVars, plist, att, entryVars, routes, shares, boundVars>>

\* TransitGateways.Delete: IncorrectState while something is attached or the
\* gateway is not ready.
DeleteGateway ==
  /\ Call(MCN, "deleteGateway")
  /\ \/ ~GatewayFound /\ Goto(MCN, "deleteList") /\ UNCHANGED gateway
     \/ /\ gateway = "available" /\ Attached = {}
        /\ gateway' = "deleted" /\ Goto(MCN, "deleteList")
     \/ /\ GatewayFound /\ ~(gateway = "available" /\ Attached = {})
        /\ Error(MCN) /\ UNCHANGED gateway
  /\ UNCHANGED <<objVars, plist, att, entryVars, routes, shares, boundVars>>

\* PrefixLists.Delete, with whatever entries are left in the list.  EC2 refuses
\* it while routes name the list.
DeletePrefixList ==
  /\ Call(MCN, "deleteList")
  /\ IF \E c \in Clusters : routes[c] # {} /\ (c = MC \/ "pl" \notin obj[c].arns)
     THEN Error(MCN) /\ UNCHANGED <<plist, entries>>
     ELSE /\ plist' = FALSE
          /\ entries' = {e \in entries : e.list # MC}
          /\ Goto(MCN, "removeFinalizer")
  /\ UNCHANGED <<objVars, gateway, att, version, routes, shares, boundVars>>

\* EC2 makes the gateway ready in the background.
GatewayReady ==
  /\ gateway = "pending" /\ gateway' = "available"
  /\ UNCHANGED <<objVars, workVars, plist, att, entryVars, routes, shares, boundVars>>

ManagementWorker ==
  \/ \E c \in Clusters : ManagementReconcile(c)
  \/ ApplyGateway \/ AnnotateGateway \/ ApplyPrefixList \/ AnnotateList
  \/ DeleteGateway \/ DeletePrefixList
=============================================================================
