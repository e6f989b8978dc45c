----------------------------- MODULE RouteTables -----------------------------
(***************************************************************************)
(* The controller that leads the prefix list to the transit gateway in the *)
(* route tables of a cluster's subnets (controllers/route_controller.go),  *)
(* and its EC2 client (pkg/aws/routetable.go).                             *)
(***************************************************************************)
EXTENDS NetworkWorkers

\* The controller, named after its finalizer.
RTC == RouteFinalizer

\* A pause does not stop this controller, and it serves UserManaged clusters.
RouteReconcile(c) ==
  /\ Takes(RTC, c)
  /\ LET o == cache[c]
         serves == /\ o.phase # "gone" /\ ManagementClusterFound
                   /\ o.mode \in {"GiantSwarmManaged", "UserManaged"}
         found  == serves /\ KnownArns(c) = Arns
     IN \/ /\ ~serves \/ (found /\ o.phase = "deleting" /\ RTC \notin o.fins)
           /\ Skip(RTC, c)
        \/ found /\ o.phase = "live" /\ Begin(RTC, c, "addFinalizer")
        \/ found /\ o.phase = "deleting" /\ RTC \in o.fins /\ Begin(RTC, c, "removeRoutes")
  /\ UNCHANGED <<objVars, awsVars, boundVars>>

\* getRouteTables: those of the subnets that have an id.
RouteTablesOf(copy) == IF copy.network = "ready" THEN Tables ELSE {}

\* EC2 accepts a route: the VPC is attached, and its account sees the prefix list.
Routable(c) == att[c] = "available" /\ (c \in SameAccount \/ "pl" \in shares[c])

\* AddRoutes, one route table after the other.
AddRoutes ==
  /\ Call(RTC, "addRoutes")
  /\ LET c == Cl(RTC)
         missing == RouteTablesOf(Copy(RTC)) \ routes[c]
     IN \/ missing = {} /\ Return(RTC) /\ UNCHANGED routes
        \/ /\ Routable(c)
           /\ \E t \in missing : routes' = [routes EXCEPT ![c] = @ \cup {t}]
           /\ Goto(RTC, "addRoutes")
        \/ missing # {} /\ ~Routable(c) /\ Error(RTC) /\ UNCHANGED routes
  /\ UNCHANGED <<objVars, mcVars, att, entryVars, shares, boundVars>>

\* RemoveRoutes; a route that is not there is no error.
RemoveRoutes ==
  /\ Call(RTC, "removeRoutes")
  /\ LET c == Cl(RTC)
         present == RouteTablesOf(Copy(RTC)) \cap routes[c]
     IN \/ present = {} /\ Goto(RTC, "removeFinalizer") /\ UNCHANGED routes
        \/ /\ \E t \in present : routes' = [routes EXCEPT ![c] = @ \ {t}]
           /\ Goto(RTC, "removeRoutes")
  /\ UNCHANGED <<objVars, mcVars, att, entryVars, shares, boundVars>>

RouteWorker == (\E c \in Clusters : RouteReconcile(c)) \/ AddRoutes \/ RemoveRoutes
=============================================================================
