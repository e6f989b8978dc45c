---------------------- MODULE TransitGatewayAttachment ----------------------
(***************************************************************************)
(* The controller that attaches the VPC of a cluster to the transit        *)
(* gateway (controllers/transit_gateway_attachment.go) and the part of the *)
(* EC2 client it uses (pkg/aws/transitgateways.go).                        *)
(***************************************************************************)
EXTENDS NetworkWorkers

\* The controller, named after its finalizer.
TGA == FinalizerTransitGatewayAttachment

\* getSubnets: every subnet has its id.
SubnetsCreated(o) == o.network = "ready"

\* reconcileNormal waits for the VPC without a requeue, and for the subnets
\* with an error; both arrive in the spec and raise an event.
AttachmentReconcile(c) ==
  /\ Takes(TGA, c)
  /\ LET o == cache[c]
         serves == /\ o.phase # "gone" /\ ManagementClusterFound
                   /\ o.mode = "GiantSwarmManaged" /\ ~o.paused
         found  == serves /\ "tgw" \in KnownArns(c)
     IN \/ /\ \/ ~serves
              \/ found /\ o.phase = "live" /\ o.network = "none"
              \/ found /\ o.phase = "deleting" /\ TGA \notin o.fins
           /\ Skip(TGA, c)
        \/ found /\ o.phase = "live" /\ SubnetsCreated(o) /\ Begin(TGA, c, "addFinalizer")
        \/ found /\ o.phase = "deleting" /\ TGA \in o.fins /\ Begin(TGA, c, "detach")
  /\ UNCHANGED <<objVars, awsVars, boundVars>>

\* getAttachment: EC2 lists an attachment of the VPC, in whatever state.
AttachmentFound(c) == att[c] # "none"

\* attach, as far as EC2 accepts it: the account sees the gateway, and it is ready
\* (IncorrectState otherwise).
Attachable(c) ==
  /\ c \in SameAccount \/ "tgw" \in shares[c]
  /\ gateway = "available" \/ (c # MC /\ "tgw" \in obj[c].arns)

\* Fault: the condition is set whatever EC2 answers.
FaultApplyAttachment ==
  /\ Call(TGA, "attach")
  /\ LET c == Cl(TGA)
     IN att' = IF ~AttachmentFound(c) /\ Attachable(c) THEN [att EXCEPT ![c] = "available"] ELSE att
  /\ MarkReady(TGA, TransitGatewayAttached)
  /\ UNCHANGED <<objVars, mcVars, entryVars, routes, shares, boundVars>>

\* ApplyAttachment takes any attachment of gateway and VPC that EC2 still
\* lists, in whatever state, for the cluster's.
ApplyAttachment ==
  /\ Call(TGA, "attach")
  /\ LET c == Cl(TGA)
     IN \/ AttachmentFound(c) /\ MarkReady(TGA, TransitGatewayAttached) /\ UNCHANGED att
        \/ /\ ~AttachmentFound(c) /\ Attachable(c)
           /\ att' = [att EXCEPT ![c] = "available"]
           /\ MarkReady(TGA, TransitGatewayAttached)
        \/ ~AttachmentFound(c) /\ ~Attachable(c) /\ Error(TGA) /\ UNCHANGED att
  /\ UNCHANGED <<objVars, mcVars, entryVars, routes, shares, boundVars>>

\* Detach finds attachments in any state too, and EC2 refuses to delete one
\* that is deleted or on its way out.
Detach ==
  /\ Call(TGA, "detach")
  /\ LET c == Cl(TGA)
     IN \/ ~AttachmentFound(c) /\ Goto(TGA, "removeFinalizer") /\ UNCHANGED att
        \/ /\ att[c] = "available"
           /\ att' = [att EXCEPT ![c] = "deleting"]
           /\ Goto(TGA, "removeFinalizer")
        \/ att[c] \in {"deleting", "deleted"} /\ Error(TGA) /\ UNCHANGED att
  /\ UNCHANGED <<objVars, mcVars, entryVars, routes, shares, boundVars>>

\* EC2 deletes an attachment in the background and lists it for some time after.
AttachmentFades(c) ==
  /\ \/ att[c] = "deleting" /\ att' = [att EXCEPT ![c] = "deleted"]
     \/ att[c] = "deleted" /\ att' = [att EXCEPT ![c] = "none"]
  /\ UNCHANGED <<objVars, workVars, mcVars, entryVars, routes, shares, boundVars>>

AttachmentWorker == (\E c \in Clusters : AttachmentReconcile(c)) \/ ApplyAttachment \/ Detach
=============================================================================
