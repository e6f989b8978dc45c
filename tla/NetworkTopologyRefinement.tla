---------------------- MODULE NetworkTopologyRefinement ----------------------
(***************************************************************************)
(* Each of the five network controllers implements GuardedResource with    *)
(* its own finalizer and its own resource, while all of them write to the  *)
(* same AWSClusters: from the inductive invariant of NetworkTopologyProofs,*)
(* step by step.                                                           *)
(***************************************************************************)
EXTENDS NetworkTopologyProofs

USE DEF AllControllers, Arns

(* One step of GuardedResource, as a relation of what is before (phase,    *)
(* guarded, resource) and after it.                                        *)
GuardNext(P, G, R, P1, G1, R1) ==
  \E o \in Clusters :
    \/ P[o] = "live" /\ G1 = [G EXCEPT ![o] = TRUE] /\ P1 = P /\ R1 = R
    \/ G[o] /\ R1 = [R EXCEPT ![o] = TRUE] /\ P1 = P /\ G1 = G
    \/ G[o] /\ P[o] = "deleting" /\ R1 = [R EXCEPT ![o] = FALSE] /\ P1 = P /\ G1 = G
    \/ /\ P[o] = "deleting" /\ ~R[o] /\ G1 = [G EXCEPT ![o] = FALSE] /\ R1 = R
       /\ \E p \in {"deleting", "gone"} : P1 = [P EXCEPT ![o] = p]
    \/ /\ P[o] = "live" /\ G1 = G /\ R1 = R
       /\ \E p \in {"deleting", "gone"} : (G[o] => p = "deleting") /\ P1 = [P EXCEPT ![o] = p]
    \/ P[o] = "deleting" /\ ~G[o] /\ P1 = [P EXCEPT ![o] = "gone"] /\ G1 = G /\ R1 = R

GuardStep(k) ==
  \/ GuardNext(phases, Guarded(k), Kept(k), phases', Guarded(k)', Kept(k)')
  \/ phases' = phases /\ Guarded(k)' = Guarded(k) /\ Kept(k)' = Kept(k)

LEMMA StepMCN ==
  ASSUME GuardStep(MCN) PROVE [GuardMCN!Next]_(GuardMCN!vars)
  BY DEF GuardStep, GuardNext, GuardMCN!Next, GuardMCN!vars, GuardMCN!PutGuard, GuardMCN!Acquire,
     GuardMCN!Release, GuardMCN!DropGuard, GuardMCN!RequestDeletion, GuardMCN!Vanish

LEMMA StepTGA ==
  ASSUME GuardStep(TGA) PROVE [GuardTGA!Next]_(GuardTGA!vars)
  BY DEF GuardStep, GuardNext, GuardTGA!Next, GuardTGA!vars, GuardTGA!PutGuard, GuardTGA!Acquire,
     GuardTGA!Release, GuardTGA!DropGuard, GuardTGA!RequestDeletion, GuardTGA!Vanish

LEMMA StepPLE ==
  ASSUME GuardStep(PLE) PROVE [GuardPLE!Next]_(GuardPLE!vars)
  BY DEF GuardStep, GuardNext, GuardPLE!Next, GuardPLE!vars, GuardPLE!PutGuard, GuardPLE!Acquire,
     GuardPLE!Release, GuardPLE!DropGuard, GuardPLE!RequestDeletion, GuardPLE!Vanish

LEMMA StepRTC ==
  ASSUME GuardStep(RTC) PROVE [GuardRTC!Next]_(GuardRTC!vars)
  BY DEF GuardStep, GuardNext, GuardRTC!Next, GuardRTC!vars, GuardRTC!PutGuard, GuardRTC!Acquire,
     GuardRTC!Release, GuardRTC!DropGuard, GuardRTC!RequestDeletion, GuardRTC!Vanish

LEMMA StepSHR ==
  ASSUME GuardStep(SHR) PROVE [GuardSHR!Next]_(GuardSHR!vars)
  BY DEF GuardStep, GuardNext, GuardSHR!Next, GuardSHR!vars, GuardSHR!PutGuard, GuardSHR!Acquire,
     GuardSHR!Release, GuardSHR!DropGuard, GuardSHR!RequestDeletion, GuardSHR!Vanish

-----------------------------------------------------------------------------
(* Functions that differ at one place.                                     *)

LEMMA SameFlags ==
  ASSUME NEW F, NEW F1, F \in [Clusters -> BOOLEAN], F1 \in [Clusters -> BOOLEAN],
         \A b \in Clusters : F1[b] <=> F[b]
  PROVE  F1 = F
<1>1. \A b \in Clusters : F1[b] = F[b]
  OBVIOUS
<1> QED
  BY <1>1

LEMMA OneFlag ==
  ASSUME NEW F, NEW F1, F \in [Clusters -> BOOLEAN], F1 \in [Clusters -> BOOLEAN],
         NEW x \in Clusters, \A b \in Clusters : b # x => (F1[b] <=> F[b]),
         NEW v \in BOOLEAN, F1[x] <=> v
  PROVE  F1 = [F EXCEPT ![x] = v]
<1>1. \A b \in Clusters : F1[b] = [F EXCEPT ![x] = v][b]
  OBVIOUS
<1>2. [F EXCEPT ![x] = v] \in [Clusters -> BOOLEAN]
  OBVIOUS
<1> QED
  BY <1>1, <1>2, Zenon

\* One object makes a step of GuardedResource, the others none.
LEMMA PointStep ==
  ASSUME NEW P, NEW G, NEW R, NEW P1, NEW G1, NEW R1,
         P = [c \in Clusters |-> P[c]], P1 = [c \in Clusters |-> P1[c]],
         G \in [Clusters -> BOOLEAN], G1 \in [Clusters -> BOOLEAN],
         R \in [Clusters -> BOOLEAN], R1 \in [Clusters -> BOOLEAN],
         NEW x \in Clusters,
         \A b \in Clusters : b # x => P1[b] = P[b] /\ (G1[b] <=> G[b]) /\ (R1[b] <=> R[b]),
         \/ P1[x] = P[x] /\ (G1[x] <=> G[x]) /\ (R1[x] <=> R[x])
         \/ P[x] = "live" /\ P1[x] = P[x] /\ G1[x] /\ (R1[x] <=> R[x])
         \/ P1[x] = P[x] /\ G[x] /\ G1[x] /\ R1[x]
         \/ P[x] = "deleting" /\ P1[x] = P[x] /\ G[x] /\ G1[x] /\ ~R1[x]
         \/ P[x] = "deleting" /\ P1[x] \in {"deleting", "gone"} /\ ~G1[x] /\ ~R[x] /\ ~R1[x]
         \/ /\ P[x] = "live" /\ P1[x] \in {"deleting", "gone"} /\ (G[x] => P1[x] = "deleting")
            /\ (G1[x] <=> G[x]) /\ (R1[x] <=> R[x])
         \/ P[x] = "deleting" /\ P1[x] = "gone" /\ ~G[x] /\ ~G1[x] /\ (R1[x] <=> R[x])
  PROVE  GuardNext(P, G, R, P1, G1, R1) \/ (P1 = P /\ G1 = G /\ R1 = R)
<1>1. (G1[x] <=> G[x]) => G1 = G
  BY SameFlags
<1>2. (R1[x] <=> R[x]) => R1 = R
  BY SameFlags
<1>3. P1[x] = P[x] => P1 = P
  OBVIOUS
<1>4. P1 = [P EXCEPT ![x] = P1[x]]
  OBVIOUS
<1>5. CASE P1[x] = P[x] /\ (G1[x] <=> G[x]) /\ (R1[x] <=> R[x])
  BY <1>1, <1>2, <1>3, <1>5
<1>6. CASE P[x] = "live" /\ P1[x] = P[x] /\ G1[x] /\ (R1[x] <=> R[x])
  <2>1. G1 = [G EXCEPT ![x] = TRUE]
    BY <1>6, OneFlag
  <2> QED
    BY <1>2, <1>3, <1>6, <2>1 DEF GuardNext
<1>7. CASE P1[x] = P[x] /\ G[x] /\ G1[x] /\ R1[x]
  <2>1. R1 = [R EXCEPT ![x] = TRUE]
    BY <1>7, OneFlag
  <2> QED
    BY <1>1, <1>3, <1>7, <2>1 DEF GuardNext
<1>8. CASE P[x] = "deleting" /\ P1[x] = P[x] /\ G[x] /\ G1[x] /\ ~R1[x]
  <2>1. R1 = [R EXCEPT ![x] = FALSE]
    BY <1>8, OneFlag
  <2> QED
    BY <1>1, <1>3, <1>8, <2>1 DEF GuardNext
<1>9. CASE P[x] = "deleting" /\ P1[x] \in {"deleting", "gone"} /\ ~G1[x] /\ ~R[x] /\ ~R1[x]
  <2>1. G1 = [G EXCEPT ![x] = FALSE]
    BY <1>9, OneFlag
  <2> QED
    BY <1>2, <1>4, <1>9, <2>1 DEF GuardNext
<1>10. CASE /\ P[x] = "live" /\ P1[x] \in {"deleting", "gone"} /\ (G[x] => P1[x] = "deleting")
            /\ (G1[x] <=> G[x]) /\ (R1[x] <=> R[x])
  BY <1>1, <1>2, <1>4, <1>10 DEF GuardNext
<1>11. CASE P[x] = "deleting" /\ P1[x] = "gone" /\ ~G[x] /\ ~G1[x] /\ (R1[x] <=> R[x])
  BY <1>1, <1>2, <1>4, <1>11 DEF GuardNext
<1> QED
  BY <1>5, <1>6, <1>7, <1>8, <1>9, <1>10, <1>11

FlagsOK ==
  \A k \in AllControllers :
    /\ Guarded(k) \in [Clusters -> BOOLEAN] /\ Kept(k) \in [Clusters -> BOOLEAN]
    /\ \A b \in Clusters : (Guarded(k)[b] <=> k \in obj[b].fins) /\ (Kept(k)[b] <=> Keeps(k, b))
    /\ phases = [b \in Clusters |-> phases[b]]
    /\ \A b \in Clusters : phases[b] = obj[b].phase

LEMMA Flags == FlagsOK
<1> SUFFICES ASSUME NEW k \in AllControllers
             PROVE  /\ Guarded(k) \in [Clusters -> BOOLEAN] /\ Kept(k) \in [Clusters -> BOOLEAN]
                    /\ \A b \in Clusters : (Guarded(k)[b] <=> k \in obj[b].fins)
                                           /\ (Kept(k)[b] <=> Keeps(k, b))
                    /\ phases = [b \in Clusters |-> phases[b]]
                    /\ \A b \in Clusters : phases[b] = obj[b].phase
  BY DEF FlagsOK
<1>1. \A b \in Clusters : Keeps(k, b) \in BOOLEAN
  <2> SUFFICES ASSUME NEW b \in Clusters PROVE Keeps(k, b) \in BOOLEAN
    OBVIOUS
  <2>1. CASE k = MCN
    BY <2>1, ControllerNames DEF Keeps
  <2>2. CASE k = TGA
    BY <2>2, ControllerNames DEF Keeps
  <2>3. CASE k = PLE
    BY <2>3, ControllerNames DEF Keeps
  <2>4. CASE k = RTC
    BY <2>4, ControllerNames DEF Keeps
  <2>5. CASE k = SHR
    BY <2>5, ControllerNames DEF Keeps
  <2> QED
    BY <2>1, <2>2, <2>3, <2>4, <2>5, ControllerNames
<1>2. /\ Kept(k) \in [Clusters -> BOOLEAN]
      /\ \A b \in Clusters : Kept(k)[b] <=> Keeps(k, b)
  BY <1>1 DEF Kept
<1>3. /\ Guarded(k) \in [Clusters -> BOOLEAN]
      /\ \A b \in Clusters : Guarded(k)[b] <=> k \in obj[b].fins
  <2>1. \A b \in Clusters : (k \in obj[b].fins) \in BOOLEAN
    OBVIOUS
  <2>2. Guarded(k) = [b \in Clusters |-> k \in obj[b].fins]
    BY DEF Guarded
  <2> QED
    BY <2>1, <2>2
<1>4. /\ phases = [b \in Clusters |-> phases[b]]
      /\ \A b \in Clusters : phases[b] = obj[b].phase
  BY DEF phases
<1> QED
  BY <1>2, <1>3, <1>4

LEMMA FlagsAfter == FlagsOK'
  BY Flags, PTL

\* The same for the AWSCluster and what the controller k keeps for it.
LEMMA GuardPoint ==
  ASSUME NEW k \in AllControllers, NEW x \in Clusters,
         \A b \in Clusters : b # x =>
           /\ obj'[b].phase = obj[b].phase
           /\ k \in obj'[b].fins <=> k \in obj[b].fins
           /\ Keeps(k, b)' <=> Keeps(k, b),
         LET P == obj[x].phase        P1 == obj'[x].phase
             G == k \in obj[x].fins   G1 == k \in obj'[x].fins
             R == Keeps(k, x)         R1 == Keeps(k, x)'
         IN  \/ P1 = P /\ (G1 <=> G) /\ (R1 <=> R)
             \/ P = "live" /\ P1 = P /\ G1 /\ (R1 <=> R)
             \/ P1 = P /\ G /\ G1 /\ R1
             \/ P = "deleting" /\ P1 = P /\ G /\ G1 /\ ~R1
             \/ P = "deleting" /\ P1 \in {"deleting", "gone"} /\ ~G1 /\ ~R /\ ~R1
             \/ /\ P = "live" /\ P1 \in {"deleting", "gone"} /\ (G => P1 = "deleting")
                /\ (G1 <=> G) /\ (R1 <=> R)
             \/ P = "deleting" /\ P1 = "gone" /\ ~G /\ ~G1 /\ (R1 <=> R)
  PROVE  GuardStep(k)
<1>1. /\ Guarded(k) \in [Clusters -> BOOLEAN] /\ Kept(k) \in [Clusters -> BOOLEAN]
      /\ \A b \in Clusters : (Guarded(k)[b] <=> k \in obj[b].fins) /\ (Kept(k)[b] <=> Keeps(k, b))
      /\ phases = [b \in Clusters |-> phases[b]]
      /\ \A b \in Clusters : phases[b] = obj[b].phase
  BY Flags DEF FlagsOK
<1>2. /\ Guarded(k)' \in [Clusters -> BOOLEAN] /\ Kept(k)' \in [Clusters -> BOOLEAN]
      /\ \A b \in Clusters : (Guarded(k)'[b] <=> k \in obj'[b].fins) /\ (Kept(k)'[b] <=> Keeps(k, b)')
      /\ phases' = [b \in Clusters |-> phases'[b]]
      /\ \A b \in Clusters : phases'[b] = obj'[b].phase
  BY FlagsAfter DEF FlagsOK
<1>3. PICK P, G, R, P1, G1, R1 :
        /\ P = phases /\ G = Guarded(k) /\ R = Kept(k)
        /\ P1 = phases' /\ G1 = Guarded(k)' /\ R1 = Kept(k)'
  OBVIOUS
<1>4. GuardNext(P, G, R, P1, G1, R1) \/ (P1 = P /\ G1 = G /\ R1 = R)
  BY <1>1, <1>2, <1>3, PointStep
<1> QED
  BY <1>3, <1>4 DEF GuardStep

-----------------------------------------------------------------------------
(* Writes to an AWSCluster.                                                *)

\* The finalizers stay when the deletion is requested.
Written ==
  \E c \in Clusters : \E n :
    /\ ObjectWritten(c, n)
    /\ (obj[c].phase = "live" /\ n.phase # "live") => n.fins = obj[c].fins

LEMMA WrittenGuards ==
  ASSUME IInv, Written, NEW k \in AllControllers PROVE GuardStep(k)
<1>1. PICK c \in Clusters : \E n :
        /\ ObjectWritten(c, n)
        /\ (obj[c].phase = "live" /\ n.phase # "live") => n.fins = obj[c].fins
  BY DEF Written
<1>2. PICK n :
        /\ ObjectWritten(c, n)
        /\ (obj[c].phase = "live" /\ n.phase # "live") => n.fins = obj[c].fins
  BY <1>1
<1>3. /\ \A b \in Clusters : obj'[b] = IF b = c THEN n ELSE obj[b]
      /\ \A b \in Clusters : Keeps(k, b)' = Keeps(k, b)
  BY <1>2, ObjectWrite
<1>4. /\ Evolves(c, obj[c], n)
      /\ (k \in obj[c].fins /\ k \notin n.fins) => cache[c].phase # "live" /\ ~Keeps(k, c)
  BY <1>2 DEF ObjectWritten
<1>5. /\ n.phase \in {"live", "deleting", "gone"} /\ obj[c].phase \in {"live", "deleting", "gone"}
      /\ obj[c].phase = "gone" => obj[c].fins = {}
      /\ cache[c].phase # "live" => obj[c].phase # "live"
  BY <1>4, ObjectFacts DEF Evolves, NetClusters, IInv, VersionsInv
<1>6. PICK P, P1 : P = obj[c].phase /\ P1 = n.phase
  OBVIOUS
<1>7. LET G == k \in obj[c].fins   G1 == k \in n.fins   R == Keeps(k, c)
      IN  \/ P1 = P /\ (G1 <=> G)
          \/ P = "live" /\ P1 = P /\ G1
          \/ P = "deleting" /\ P1 \in {"deleting", "gone"} /\ ~G1 /\ ~R
          \/ /\ P = "live" /\ P1 \in {"deleting", "gone"} /\ (G => P1 = "deleting")
             /\ (G1 <=> G)
          \/ P = "deleting" /\ P1 = "gone" /\ ~G /\ ~G1
  BY <1>2, <1>4, <1>5, <1>6 DEF Evolves
<1>8. /\ obj'[c].phase = P1 /\ (k \in obj'[c].fins <=> k \in n.fins)
      /\ Keeps(k, c)' <=> Keeps(k, c)
  BY <1>3, <1>6
<1>9. \A b \in Clusters : b # c =>
        /\ obj'[b].phase = obj[b].phase
        /\ k \in obj'[b].fins <=> k \in obj[b].fins
        /\ Keeps(k, b)' <=> Keeps(k, b)
  BY <1>3
<1> QED
  BY <1>6, <1>7, <1>8, <1>9, GuardPoint

LEMMA AddFinalizerWrites ==
  ASSUME IInv, NEW k, AddFinalizerCall(k)
  PROVE  (obj' = obj /\ UNCHANGED awsVars) \/ Written
<1>1. /\ k \in Controllers /\ k \in AllControllers /\ w[k].pc = "addFinalizer"
      /\ WorkerOK(k) /\ UNCHANGED <<cache, awsVars>>
  BY Caller DEF AddFinalizerCall
<1>2. PICK c \in Clusters : c = Cl(k)
  BY <1>1 DEF WorkerOK
<1>3. CASE obj' = obj
  BY <1>1, <1>3
<1>4. CASE Unconflicted(obj[c], Copy(k)) /\ obj' = [obj EXCEPT ![c] = AddFinalizer(obj[c], k)]
  <2>1. obj[c].phase = "live"
    BY <1>1, <1>2, <1>4 DEF WorkerOK, Unconflicted
  <2>2. PICK o : o = AddFinalizer(obj[c], k)
    OBVIOUS
  <2>3. /\ Evolves(c, obj[c], o) /\ o.phase = "live" /\ o.fins = obj[c].fins \cup {k}
        /\ o.conds = obj[c].conds /\ o.arns = obj[c].arns
    BY <1>1, <2>1, <2>2, AddFinalizerStored
  <2>4. ObjectWritten(c, o)
    BY <1>1, <1>4, <2>1, <2>2, <2>3, ObjectFacts DEF ObjectWritten
  <2> QED
    BY <2>3, <2>4 DEF Written
<1> QED
  BY <1>2, <1>3, <1>4 DEF AddFinalizerCall

LEMMA RemoveFinalizerWrites ==
  ASSUME IInv, NEW k, RemoveFinalizerCall(k)
  PROVE  (obj' = obj /\ UNCHANGED awsVars) \/ Written
<1>1. /\ k \in Controllers /\ k \in AllControllers /\ w[k].pc = "removeFinalizer"
      /\ WorkerOK(k) /\ UNCHANGED <<cache, awsVars>>
  BY Caller DEF RemoveFinalizerCall
<1>2. PICK c \in Clusters : c = Cl(k)
  BY <1>1 DEF WorkerOK
<1>3. CASE obj' = obj
  BY <1>1, <1>3
<1>4. CASE Unconflicted(obj[c], Copy(k)) /\ obj' = [obj EXCEPT ![c] = RemoveFinalizer(obj[c], k)]
  <2>1. cache[c].phase # "live" /\ ~Keeps(k, c)
    BY <1>1, <1>2 DEF WorkerOK, Releasing
  <2>2. obj[c].phase = "deleting"
    BY <1>4, <2>1, ObjectFacts DEF IInv, VersionsInv, Unconflicted
  <2>3. PICK o : o = RemoveFinalizer(obj[c], k)
    OBVIOUS
  <2>4. /\ Evolves(c, obj[c], o) /\ o.phase # "live"
        /\ o.fins = obj[c].fins \ {k} /\ o.arns = obj[c].arns
    BY <1>1, <2>2, <2>3, RemoveFinalizerStored
  <2>5. ObjectWritten(c, o)
    BY <1>1, <1>4, <2>1, <2>2, <2>3, <2>4, ObjectFacts DEF ObjectWritten
  <2> QED
    BY <2>2, <2>5 DEF Written
<1> QED
  BY <1>2, <1>3, <1>4 DEF RemoveFinalizerCall

\* A write that changes neither finalizers nor phase, but for the removal of
\* an object that is deleted and has no finalizer.
LEMMA PlainWrite ==
  ASSUME IInv, NEW c \in Clusters, NEW n \in NetClusters, obj[c].phase # "gone",
         n.rv = obj[c].rv, n.phase = obj[c].phase,
         obj[c].network = "ready" => n.network = "ready",
         obj[c].arns \subseteq n.arns, c # MC => n.arns = obj[c].arns,
         obj[c].phase = "live" => Truthful(c, n.conds),
         (c = MC \/ NoLoneList) => Paired(n.arns),
         n.fins \subseteq obj[c].fins, \A k \in AllControllers : k \in obj[c].fins => k \in n.fins,
         obj' = [obj EXCEPT ![c] = Stored(obj[c], n)], UNCHANGED <<cache, awsVars>>
  PROVE  Written
<1>1. PICK m : m = Stored(obj[c], n)
  OBVIOUS
<1>2. /\ m \in NetClusters
      /\ m.rv >= obj[c].rv /\ (m.rv = obj[c].rv => m = obj[c])
      /\ m.phase = "live" <=> obj[c].phase = "live"
      /\ m.phase = "gone" => n.fins = {} /\ obj[c].phase = "deleting"
      /\ m.fins = n.fins /\ m.conds = n.conds /\ m.network = n.network /\ m.arns = n.arns
  BY <1>1, ObjectFacts, NetStored
<1>3. Evolves(c, obj[c], m)
  BY <1>2 DEF Evolves
<1>4. ObjectWritten(c, m)
  BY <1>1, <1>2, <1>3 DEF ObjectWritten
<1> QED
  BY <1>2, <1>4 DEF Written

LEMMA UpdateStatusWrites ==
  ASSUME IInv, NEW k, UpdateStatus(k)
  PROVE  (obj' = obj /\ UNCHANGED awsVars) \/ Written
<1>1. /\ k \in Controllers /\ w[k].pc = "status" /\ WorkerOK(k) /\ Copy(k) \in NetClusters
      /\ UNCHANGED <<cache, awsVars>>
  BY Caller DEF UpdateStatus
<1>2. PICK c \in Clusters : c = Cl(k)
  BY <1>1 DEF WorkerOK
<1> DEFINE n == [obj[c] EXCEPT !.conds = Copy(k).conds]
<1>3. CASE ~Unconflicted(obj[c], Copy(k))
  <2>1. obj' = [obj EXCEPT ![c] = obj[c]]
    BY <1>2, <1>3 DEF UpdateStatus
  <2> QED
    BY <1>1, <2>1 DEF IInv, TypeOK
<1>4. CASE Unconflicted(obj[c], Copy(k))
  <2>1. obj' = [obj EXCEPT ![c] = Stored(obj[c], n)] /\ obj[c].phase # "gone"
    BY <1>2, <1>4 DEF UpdateStatus, Unconflicted
  <2>2. obj[c] \in NetClusters
    BY ObjectFacts
  <2>3. /\ n \in NetClusters /\ n.rv = obj[c].rv /\ n.phase = obj[c].phase
        /\ n.fins = obj[c].fins /\ n.conds = Copy(k).conds
        /\ n.network = obj[c].network /\ n.arns = obj[c].arns
    BY <1>1, <2>2 DEF NetClusters
  <2> HIDE DEF n
  <2>4. obj[c].phase = "live" => Truthful(c, n.conds)
    BY <1>1, <1>2, <2>3 DEF WorkerOK
  <2> QED
    BY <1>1, <2>1, <2>3, <2>4, ObjectFacts, PlainWrite
<1> QED
  BY <1>3, <1>4

LEMMA AnnotateWrites ==
  ASSUME IInv, AnnotateGateway \/ AnnotateList
  PROVE  (obj' = obj /\ UNCHANGED awsVars) \/ Written
<1>1. PICK l \in {"annotateGateway", "annotateList"}, arn \in Arns, next \in {"list", "status"} :
        /\ Call(MCN, l) /\ Annotate(arn, next) /\ UNCHANGED <<cache, awsVars>>
        /\ arn = "pl" => l = "annotateList"
  BY DEF AnnotateGateway, AnnotateList
<1>2. /\ w[MCN].pc = l /\ WorkerOK(MCN) /\ Cl(MCN) = MC /\ MC \in Clusters
      /\ Copy(MCN).arns \subseteq obj[MC].arns
      /\ l = "annotateList" => "tgw" \in obj[MC].arns
  BY <1>1, Caller DEF WorkerOK
<1>3. CASE obj' = obj
  BY <1>1, <1>3
<1>4. CASE /\ obj[MC].phase # "gone"
           /\ obj' = [obj EXCEPT ![MC] = Patched(obj[MC], arn, Copy(MCN).arns)]
  <2>1. PICK o : o = Patched(obj[MC], arn, Copy(MCN).arns)
    OBVIOUS
  <2>2. /\ Evolves(MC, obj[MC], o)
        /\ o.phase = "live" <=> obj[MC].phase = "live"
        /\ o.fins = obj[MC].fins /\ o.conds = obj[MC].conds /\ o.arns = obj[MC].arns \cup {arn}
    BY <1>2, <1>4, <2>1, AnnotationStored
  <2>3. ObjectWritten(MC, o)
    BY <1>1, <1>2, <1>4, <2>1, <2>2, ObjectFacts DEF ObjectWritten, Paired
  <2> QED
    BY <1>2, <2>2, <2>3 DEF Written
<1> QED
  BY <1>1, <1>2, <1>3, <1>4 DEF Annotate, Patched

LEMMA RequestDeletionWrites ==
  ASSUME IInv, NEW c \in Clusters, RequestDeletion(c) PROVE Written
<1>1. PICK n : n = DeletionRequested(obj[c])
  OBVIOUS
<1>2. /\ obj[c].phase = "live" /\ obj' = [obj EXCEPT ![c] = n]
      /\ c = MC => \A d \in Clusters \ {MC} : obj[d].phase = "gone"
      /\ UNCHANGED <<cache, awsVars>>
  BY <1>1 DEF RequestDeletion
<1>3. /\ n \in NetClusters /\ n.rv > obj[c].rv
      /\ n.phase = IF obj[c].fins = {} THEN "gone" ELSE "deleting"
      /\ n.fins = obj[c].fins /\ n.conds = obj[c].conds /\ n.network = obj[c].network
      /\ n.arns = obj[c].arns
  BY <1>1, <1>2, NetDeletionRequested, ObjectFacts
<1>4. n.rv \in Nat /\ obj[c].rv \in Nat
  BY <1>3, ObjectFacts DEF NetClusters
<1>5. Evolves(c, obj[c], n)
  BY <1>2, <1>3, <1>4 DEF Evolves
<1>6. ObjectWritten(c, n)
  BY <1>2, <1>3, <1>5, ObjectFacts DEF ObjectWritten
<1> QED
  BY <1>3, <1>6 DEF Written

LEMMA ReleaseOtherWrites ==
  ASSUME IInv, NEW c \in Clusters, ReleaseOther(c) PROVE Written
<1> DEFINE n == [obj[c] EXCEPT !.fins = obj[c].fins \ OtherFinalizers]
<1>1. /\ obj[c].phase = "deleting" /\ obj' = [obj EXCEPT ![c] = Stored(obj[c], n)]
      /\ UNCHANGED <<cache, awsVars>>
  BY DEF ReleaseOther, Write
<1>2. obj[c] \in NetClusters
  BY ObjectFacts
<1>3. obj[c].fins \ OtherFinalizers \in SUBSET (OtherFinalizers \cup Controllers)
  BY <1>2 DEF NetClusters
<1>4. /\ n \in NetClusters /\ n.rv = obj[c].rv /\ n.phase = obj[c].phase
      /\ n.fins = obj[c].fins \ OtherFinalizers
      /\ n.conds = obj[c].conds /\ n.network = obj[c].network /\ n.arns = obj[c].arns
  BY <1>2, <1>3 DEF NetClusters
<1> HIDE DEF n
<1>5. \A j \in AllControllers : j \in obj[c].fins => j \in n.fins
  BY <1>4, NetworkConstantsAssumption
<1> QED
  BY <1>1, <1>4, <1>5, ObjectFacts, PlainWrite

LEMMA EditWrites ==
  ASSUME IInv, NEW c \in Clusters, Edit(c) PROVE Written
<1>1. obj[c].phase # "gone" /\ UNCHANGED <<cache, awsVars>> /\ obj[c] \in NetClusters
  BY ObjectFacts DEF Edit
<1>2. CASE /\ obj[c].network # "ready"
           /\ Write(c, [obj[c] EXCEPT !.network = IF @ = "none" THEN "vpc" ELSE "ready"])
  <2> DEFINE x == IF obj[c].network = "none" THEN "vpc" ELSE "ready"
             n == [obj[c] EXCEPT !.network = x]
  <2>1. x \in {"none", "vpc", "ready"}
    OBVIOUS
  <2>2. obj' = [obj EXCEPT ![c] = Stored(obj[c], n)]
    BY <1>2 DEF Write
  <2> HIDE DEF x
  <2>3. /\ n \in NetClusters /\ n.rv = obj[c].rv /\ n.phase = obj[c].phase /\ n.fins = obj[c].fins
        /\ n.conds = obj[c].conds /\ n.arns = obj[c].arns
    BY <1>1, <2>1 DEF NetClusters
  <2> HIDE DEF n
  <2> QED
    BY <1>1, <1>2, <2>2, <2>3, ObjectFacts, PlainWrite
<1>3. CASE Write(c, [obj[c] EXCEPT !.paused = ~@])
  <2> DEFINE x == ~obj[c].paused
             n == [obj[c] EXCEPT !.paused = x]
  <2>1. x \in BOOLEAN
    OBVIOUS
  <2>2. obj' = [obj EXCEPT ![c] = Stored(obj[c], n)]
    BY <1>3 DEF Write
  <2> HIDE DEF x
  <2>3. /\ n \in NetClusters /\ n.rv = obj[c].rv /\ n.phase = obj[c].phase /\ n.fins = obj[c].fins
        /\ n.conds = obj[c].conds /\ n.arns = obj[c].arns /\ n.network = obj[c].network
    BY <1>1, <2>1 DEF NetClusters
  <2> HIDE DEF n
  <2> QED
    BY <1>1, <2>2, <2>3, ObjectFacts, PlainWrite
<1> QED
  BY <1>2, <1>3 DEF Edit

-----------------------------------------------------------------------------
(* Steps in AWS.                                                           *)

\* What the controller k keeps changes for one cluster at most, and is not lost
\* while that is live.
KeptStep(k) ==
  /\ obj' = obj
  /\ \A b \in Clusters : Keeps(k, b) => Keeps(k, b)' \/ obj[b].phase # "live"
  /\ \/ \A b \in Clusters : Keeps(k, b)' <=> Keeps(k, b)
     \/ \E x \in Clusters : \A b \in Clusters : b # x => (Keeps(k, b)' <=> Keeps(k, b))

LEMMA KeptGuards ==
  ASSUME IInv, IInv', NEW k \in AllControllers, Covered(k), KeptStep(k) PROVE GuardStep(k)
<1>1. obj' = obj
  BY DEF KeptStep
<1>2. CASE \A b \in Clusters : Keeps(k, b)' <=> Keeps(k, b)
  <2>1. /\ Guarded(k) \in [Clusters -> BOOLEAN] /\ Kept(k) \in [Clusters -> BOOLEAN]
        /\ \A b \in Clusters : Kept(k)[b] <=> Keeps(k, b)
    BY Flags DEF FlagsOK
  <2>2. /\ Kept(k)' \in [Clusters -> BOOLEAN]
        /\ \A b \in Clusters : Kept(k)'[b] <=> Keeps(k, b)'
    BY FlagsAfter DEF FlagsOK
  <2>3. PICK R, R1 : R = Kept(k) /\ R1 = Kept(k)'
    OBVIOUS
  <2>4. R1 = R
    BY <1>2, <2>1, <2>2, <2>3, SameFlags
  <2> QED
    BY <1>1, <2>3, <2>4 DEF GuardStep, phases, Guarded
<1>3. ASSUME NEW x \in Clusters, \A b \in Clusters : b # x => (Keeps(k, b)' <=> Keeps(k, b))
      PROVE  GuardStep(k)
  <2>1. Keeps(k, x) \/ Keeps(k, x)' => k \in obj[x].fins
    BY <1>1 DEF IInv, GuardedInv, Covered
  <2>2. (Keeps(k, x) /\ ~Keeps(k, x)') => obj[x].phase = "deleting"
    BY <2>1, ObjectFacts DEF KeptStep
  <2> QED
    BY <1>1, <1>3, <2>1, <2>2, GuardPoint
<1> QED
  BY <1>2, <1>3 DEF KeptStep

\* Nobody's resource changes.
LEMMA AllKept ==
  ASSUME obj' = obj, \A b \in Clusters : (att'[b] = "available") <=> (att[b] = "available"),
         GatewayFound' <=> GatewayFound, plist' <=> plist, routes' = routes, shares' = shares,
         \A b \in Clusters : OwnEntry(b) \in entries' <=> OwnEntry(b) \in entries,
         NEW k \in AllControllers
  PROVE  KeptStep(k)
<1>1. \A b \in Clusters : OwnEntry(b)' = OwnEntry(b)
  BY DEF OwnEntry, ListOf
<1>2. \A b \in Clusters : Keeps(k, b)' <=> Keeps(k, b)
  BY <1>1, ControllerNames DEF Keeps, GatewayFound
<1> QED
  BY <1>2 DEF KeptStep

LEMMA QuietKept ==
  ASSUME obj' = obj, UNCHANGED awsVars, NEW k \in AllControllers PROVE KeptStep(k)
<1>1. /\ att' = att /\ gateway' = gateway /\ plist' = plist /\ routes' = routes
      /\ shares' = shares /\ entries' = entries
  BY DEF awsVars, mcVars, entryVars
<1> QED
  BY <1>1, AllKept DEF GatewayFound

\* The controller j works for the cluster c.
LEMMA OwnKept ==
  ASSUME NEW j \in AllControllers, NEW c \in Clusters, obj' = obj,
         j # MCN => gateway' = gateway /\ plist' = plist,
         j # TGA => att' = att,
         j # PLE => entries' = entries,
         j # RTC => routes' = routes,
         j # SHR => shares' = shares,
         \A b \in Clusters : b # c => (Keeps(j, b)' <=> Keeps(j, b)),
         Keeps(j, c) => Keeps(j, c)' \/ obj[c].phase # "live",
         NEW k \in AllControllers
  PROVE  KeptStep(k)
<1>1. CASE k = j
  BY <1>1 DEF KeptStep
<1>2. CASE k # j
  <2>1. \A b \in Clusters : OwnEntry(b)' = OwnEntry(b)
    BY DEF OwnEntry, ListOf
  <2>2. \A b \in Clusters : Keeps(k, b)' <=> Keeps(k, b)
    BY <1>2, <2>1, ControllerNames DEF Keeps
  <2> QED
    BY <2>2 DEF KeptStep
<1> QED
  BY <1>1, <1>2

LEMMA ApplyKept ==
  ASSUME IInv, ApplyGateway \/ ApplyPrefixList, NEW k \in AllControllers PROVE KeptStep(k)
<1>1. /\ Cl(MCN) = MC /\ MC \in Clusters /\ obj' = obj
      /\ att' = att /\ entries' = entries /\ routes' = routes /\ shares' = shares
  BY Caller, ControllerNames DEF ApplyGateway, ApplyPrefixList, WorkerOK, objVars, entryVars
<1>2. Keeps(MCN, MC)' /\ \A b \in Clusters : b # MC => (Keeps(MCN, b)' <=> Keeps(MCN, b))
  BY ControllerNames DEF Keeps, ApplyGateway, ApplyPrefixList, GatewayFound
<1> QED
  BY <1>1, <1>2, ControllerNames, OwnKept

LEMMA DeleteGatewayKept ==
  ASSUME IInv, DeleteGateway, NEW k \in AllControllers PROVE KeptStep(k)
<1>1. /\ w[MCN].pc = "deleteGateway" /\ WorkerOK(MCN) /\ obj' = obj
      /\ att' = att /\ entries' = entries /\ routes' = routes /\ shares' = shares
  BY Caller DEF DeleteGateway, objVars, entryVars
<1>2. Cl(MCN) = MC /\ MC \in Clusters /\ obj[MC].phase # "live"
  BY <1>1, ControllerNames DEF WorkerOK, Releasing, IInv, VersionsInv
<1>3. \A b \in Clusters : b # MC => (Keeps(MCN, b)' <=> Keeps(MCN, b))
  BY ControllerNames DEF Keeps
<1> QED
  BY <1>1, <1>2, <1>3, ControllerNames, OwnKept

\* The entries that go with the list: all clusters but the management cluster
\* are gone and have none.
LEMMA DeletePrefixListKept ==
  ASSUME IInv, DeletePrefixList, NEW k \in AllControllers PROVE KeptStep(k)
<1>1. /\ w[MCN].pc = "deleteList" /\ WorkerOK(MCN) /\ obj' = obj
      /\ gateway' = gateway /\ att' = att /\ routes' = routes /\ shares' = shares
      /\ entries' \subseteq entries
  BY Caller DEF DeletePrefixList, objVars, entryVars
<1>2. /\ Cl(MCN) = MC /\ MC \in Clusters /\ obj[MC].phase # "live"
  BY <1>1, ControllerNames DEF WorkerOK, Releasing, IInv, VersionsInv
<1>3. \A b \in Clusters : OwnEntry(b)' = OwnEntry(b)
  BY <1>1 DEF OwnEntry, ListOf
<1>4. ASSUME NEW b \in Clusters, b # MC PROVE OwnEntry(b) \notin entries
  <2>1. obj[b].fins = {}
    BY <1>2, <1>4 DEF IInv, VersionsInv
  <2>2. ~Keeps(PLE, b)
    BY <2>1, ControllerNames DEF IInv, GuardedInv, Covered
  <2> QED
    BY <2>2, KeepsCases
<1>5. \A b \in Clusters : b # MC => (Keeps(k, b)' <=> Keeps(k, b))
  BY <1>1, <1>3, <1>4, ControllerNames DEF Keeps
<1> QED
  BY <1>1, <1>2, <1>5 DEF KeptStep

LEMMA ApplyAttachmentKept ==
  ASSUME IInv, ApplyAttachment, NEW k \in AllControllers PROVE KeptStep(k)
<1>1. /\ WorkerOK(TGA) /\ obj' = obj /\ gateway' = gateway /\ plist' = plist
      /\ entries' = entries /\ routes' = routes /\ shares' = shares
  BY Caller DEF ApplyAttachment, objVars, mcVars, entryVars
<1>2. PICK c \in Clusters : c = Cl(TGA)
  BY <1>1 DEF WorkerOK
<1>3. att' = att \/ att' = [att EXCEPT ![c] = "available"]
  BY <1>2 DEF ApplyAttachment
<1>4. (att[c] = "available" => att'[c] = "available") /\ \A b \in Clusters : b # c => att'[b] = att[b]
  BY <1>3 DEF IInv, TypeOK
<1>5. /\ Keeps(TGA, c) => Keeps(TGA, c)'
      /\ \A b \in Clusters : b # c => (Keeps(TGA, b)' <=> Keeps(TGA, b))
  BY <1>4, ControllerNames DEF Keeps
<1> QED
  BY <1>1, <1>5, ControllerNames, OwnKept

LEMMA DetachKept ==
  ASSUME IInv, Detach, NEW k \in AllControllers PROVE KeptStep(k)
<1>1. /\ w[TGA].pc = "detach" /\ WorkerOK(TGA) /\ obj' = obj /\ gateway' = gateway /\ plist' = plist
      /\ entries' = entries /\ routes' = routes /\ shares' = shares
  BY Caller DEF Detach, objVars, mcVars, entryVars
<1>2. PICK c \in Clusters : c = Cl(TGA)
  BY <1>1 DEF WorkerOK
<1>3. obj[c].phase # "live"
  BY <1>1, <1>2 DEF WorkerOK, Releasing, IInv, VersionsInv
<1>4. \A b \in Clusters : b # c => att'[b] = att[b]
  BY <1>2 DEF Detach, IInv, TypeOK
<1>5. \A b \in Clusters : b # c => (Keeps(TGA, b)' <=> Keeps(TGA, b))
  BY <1>4, ControllerNames DEF Keeps
<1> QED
  BY <1>1, <1>3, <1>5, ControllerNames, OwnKept

LEMMA AttachmentFadesKept ==
  ASSUME IInv, NEW c \in Clusters, AttachmentFades(c), NEW k \in AllControllers PROVE KeptStep(k)
<1>1. /\ obj' = obj /\ gateway' = gateway /\ plist' = plist
      /\ entries' = entries /\ routes' = routes /\ shares' = shares
  BY DEF AttachmentFades, objVars, mcVars, entryVars
<1>2. \A b \in Clusters : (att'[b] = "available") <=> (att[b] = "available")
  BY DEF AttachmentFades, IInv, TypeOK
<1> QED
  BY <1>1, <1>2, AllKept DEF GatewayFound

LEMMA CreateEntryKept ==
  ASSUME IInv, CreateEntry, NEW k \in AllControllers PROVE KeptStep(k)
<1>1. /\ WorkerOK(PLE) /\ obj' = obj /\ gateway' = gateway /\ plist' = plist /\ att' = att
      /\ routes' = routes /\ shares' = shares
  BY Caller DEF CreateEntry, objVars, mcVars
<1>2. PICK c \in Clusters : c = Cl(PLE)
  BY <1>1 DEF WorkerOK
<1>3. PICK e : e = OwnEntry(c)
  OBVIOUS
<1>4. entries' = entries \/ entries' = entries \cup {e}
  BY <1>2, <1>3 DEF CreateEntry, entryVars
<1>5. \A b \in Clusters : OwnEntry(b)' = OwnEntry(b) /\ (b # c => OwnEntry(b) # e)
  BY <1>1, <1>3, OwnEntryFacts DEF OwnEntry, ListOf
<1>6. /\ Keeps(PLE, c) => Keeps(PLE, c)'
      /\ \A b \in Clusters : b # c => (Keeps(PLE, b)' <=> Keeps(PLE, b))
  BY <1>4, <1>5, ControllerNames DEF Keeps
<1> QED
  BY <1>1, <1>6, ControllerNames, OwnKept

\* deleteEntry names the entry by its CIDR; it is the cluster's own.
LEMMA DeleteEntryKept ==
  ASSUME IInv, DeleteEntry, NEW k \in AllControllers PROVE KeptStep(k)
<1>1. /\ w[PLE].pc = "modify" /\ WorkerOK(PLE) /\ Copy(PLE).phase = "deleting"
      /\ obj' = obj /\ gateway' = gateway /\ plist' = plist /\ att' = att
      /\ routes' = routes /\ shares' = shares
  BY Caller DEF DeleteEntry, objVars, mcVars
<1>2. PICK c \in Clusters : c = Cl(PLE)
  BY <1>1 DEF WorkerOK
<1>3. obj[c].phase # "live"
  BY <1>1, <1>2, ControllerNames DEF WorkerOK, Releasing, EntrySteps, IInv, VersionsInv
<1>4. entries' \subseteq entries /\ \A e \in entries : e \in entries' \/ e = OwnEntry(c)
  <2>1. CASE UNCHANGED entryVars
    BY <2>1 DEF entryVars
  <2>2. CASE ListExists(ListOf(c)) /\ entries' = entries \ AtCidr(c)
    <3>1. OwnEntry(c) \in entries
      BY <1>1, <1>2, <2>2 DEF WorkerOK, ListExists, ListOf
    <3>2. \A e \in AtCidr(c) : e = OwnEntry(c)
      BY <3>1, OwnEntryFacts DEF AtCidr, IInv, ResourcesInv
    <3> QED
      BY <2>2, <3>2
  <2> QED
    BY <1>2, <2>1, <2>2 DEF DeleteEntry
<1>5. \A b \in Clusters : OwnEntry(b)' = OwnEntry(b) /\ (b # c => OwnEntry(b) # OwnEntry(c))
  BY <1>1, OwnEntryFacts DEF OwnEntry, ListOf
<1>6. \A b \in Clusters : b # c => (Keeps(PLE, b)' <=> Keeps(PLE, b))
  BY <1>4, <1>5, ControllerNames DEF Keeps
<1> QED
  BY <1>1, <1>3, <1>6, ControllerNames, OwnKept

LEMMA OthersModifyKept ==
  ASSUME IInv, OthersModify, NEW k \in AllControllers PROVE KeptStep(k)
<1>1. /\ obj' = obj /\ gateway' = gateway /\ plist' = plist /\ att' = att
      /\ routes' = routes /\ shares' = shares
  BY DEF OthersModify, objVars, mcVars
<1>2. PICK e : e.by = Other /\ (entries' = entries \cup {e} \/ entries' = entries \ {e})
  BY DEF OthersModify
<1>3. \A b \in Clusters : OwnEntry(b) # e
  BY <1>2, OwnEntryFacts, NetworkConstantsAssumption
<1> QED
  BY <1>1, <1>2, <1>3, AllKept DEF GatewayFound

LEMMA GatewayReadyKept ==
  ASSUME GatewayReady, NEW k \in AllControllers PROVE KeptStep(k)
<1>1. /\ obj' = obj /\ plist' = plist /\ att' = att /\ entries' = entries
      /\ routes' = routes /\ shares' = shares /\ GatewayFound' /\ GatewayFound
  BY DEF GatewayReady, objVars, entryVars, GatewayFound
<1> QED
  BY <1>1, AllKept

LEMMA RoutesKept ==
  ASSUME IInv, AddRoutes \/ RemoveRoutes, NEW k \in AllControllers PROVE KeptStep(k)
<1>1. /\ WorkerOK(RTC) /\ obj' = obj /\ gateway' = gateway /\ plist' = plist /\ att' = att
      /\ entries' = entries /\ shares' = shares
      /\ routes \in [Clusters -> SUBSET Tables]
  BY Caller DEF AddRoutes, RemoveRoutes, objVars, mcVars, entryVars, IInv, TypeOK
<1>2. PICK c \in Clusters : c = Cl(RTC)
  BY <1>1 DEF WorkerOK
<1>3. /\ \A b \in Clusters : b # c => routes'[b] = routes[b]
      /\ routes[c] \subseteq routes'[c] \/ obj[c].phase # "live"
  <2>1. CASE AddRoutes
    BY <1>1, <1>2, <2>1 DEF AddRoutes
  <2>2. CASE RemoveRoutes
    <3>1. obj[c].phase # "live"
      BY <1>1, <1>2, <2>2 DEF RemoveRoutes, Call, WorkerOK, Releasing, IInv, VersionsInv
    <3> QED
      BY <1>1, <1>2, <2>2, <3>1 DEF RemoveRoutes
  <2> QED
    BY <2>1, <2>2
<1>4. /\ Keeps(RTC, c) => Keeps(RTC, c)' \/ obj[c].phase # "live"
      /\ \A b \in Clusters : b # c => (Keeps(RTC, b)' <=> Keeps(RTC, b))
  BY <1>3, ControllerNames DEF Keeps
<1> QED
  BY <1>1, <1>4, ControllerNames, OwnKept

SharesApplied == ShareTransitGateway \/ SharePrefixList
SharesDeleted == UnshareTransitGateway \/ UnsharePrefixList

LEMMA SharesKept ==
  ASSUME IInv, SharesApplied \/ SharesDeleted, NEW k \in AllControllers PROVE KeptStep(k)
<1>1. /\ WorkerOK(SHR) /\ obj' = obj /\ gateway' = gateway /\ plist' = plist /\ att' = att
      /\ entries' = entries /\ routes' = routes /\ shares \in [Clusters -> SUBSET Arns]
  BY Caller DEF SharesApplied, SharesDeleted, ShareTransitGateway, SharePrefixList,
     UnshareTransitGateway, UnsharePrefixList, shareFrame, objVars, mcVars, entryVars, IInv, TypeOK
<1>2. PICK c \in Clusters : c = Cl(SHR)
  BY <1>1 DEF WorkerOK
<1>3. /\ \A b \in Clusters : b # c => shares'[b] = shares[b]
      /\ shares[c] \subseteq shares'[c] \/ obj[c].phase # "live"
  <2>1. CASE SharesApplied
    BY <1>1, <1>2, <2>1 DEF SharesApplied, ShareTransitGateway, SharePrefixList, ApplyResourceShare
  <2>2. CASE SharesDeleted
    <3>1. obj[c].phase # "live"
      BY <1>1, <1>2, <2>2 DEF SharesDeleted, UnshareTransitGateway, UnsharePrefixList, Call,
         WorkerOK, Releasing, IInv, VersionsInv
    <3> QED
      BY <1>1, <1>2, <2>2, <3>1 DEF SharesDeleted, UnshareTransitGateway, UnsharePrefixList,
         DeleteResourceShare
  <2> QED
    BY <2>1, <2>2
<1>4. /\ Keeps(SHR, c) => Keeps(SHR, c)' \/ obj[c].phase # "live"
      /\ \A b \in Clusters : b # c => (Keeps(SHR, b)' <=> Keeps(SHR, b))
  BY <1>3, ControllerNames DEF Keeps
<1> QED
  BY <1>1, <1>4, ControllerNames, OwnKept

-----------------------------------------------------------------------------
(* The theorems.                                                           *)

LEMMA GuardNextHolds ==
  ASSUME IInv, IInv', [Next]_vars, NEW k \in AllControllers, Covered(k) PROVE GuardStep(k)
<1>1. (obj' = obj /\ UNCHANGED awsVars) => GuardStep(k)
  BY QuietKept, KeptGuards
<1>2. Written => GuardStep(k)
  BY WrittenGuards
<1>3. KeptStep(k) => GuardStep(k)
  BY KeptGuards
<1>4. ASSUME NEW j \in Controllers,
             AddFinalizerCall(j) \/ RemoveFinalizerCall(j) \/ UpdateStatus(j) \/ Fail(j)
      PROVE  GuardStep(k)
  <2>1. Fail(j) => obj' = obj /\ UNCHANGED awsVars
    BY DEF Fail, objVars
  <2> QED
    BY <1>1, <1>2, <1>4, <2>1, AddFinalizerWrites, RemoveFinalizerWrites, UpdateStatusWrites
<1>5. CASE ManagementWorker
  <2>1. (\E c \in Clusters : ManagementReconcile(c)) => obj' = obj /\ UNCHANGED awsVars
    BY DEF ManagementReconcile, objVars
  <2> QED
    BY <1>1, <1>2, <1>3, <1>5, <2>1, ApplyKept, AnnotateWrites, DeleteGatewayKept,
       DeletePrefixListKept DEF ManagementWorker
<1>6. CASE AttachmentWorker
  <2>1. (\E c \in Clusters : AttachmentReconcile(c)) => obj' = obj /\ UNCHANGED awsVars
    BY DEF AttachmentReconcile, objVars
  <2> QED
    BY <1>1, <1>3, <1>6, <2>1, ApplyAttachmentKept, DetachKept DEF AttachmentWorker
<1>7. CASE EntryWorker
  <2>1. (\E c \in Clusters : EntryReconcile(c)) \/ EntryExists \/ ReadVersion
          => obj' = obj /\ UNCHANGED awsVars
    BY DEF EntryReconcile, EntryExists, ReadVersion, objVars
  <2> QED
    BY <1>1, <1>3, <1>7, <2>1, CreateEntryKept, DeleteEntryKept DEF EntryWorker
<1>8. CASE RouteWorker
  <2>1. (\E c \in Clusters : RouteReconcile(c)) => obj' = obj /\ UNCHANGED awsVars
    BY DEF RouteReconcile, objVars
  <2> QED
    BY <1>1, <1>3, <1>8, <2>1, RoutesKept DEF RouteWorker
<1>9. CASE ShareWorker
  <2>1. (\E c \in Clusters : ShareReconcile(c)) => obj' = obj /\ UNCHANGED awsVars
    BY DEF ShareReconcile, objVars
  <2> QED
    BY <1>1, <1>3, <1>9, <2>1, SharesKept DEF ShareWorker, SharesApplied, SharesDeleted
<1>10. CASE Restart \/ OthersModify \/ GatewayReady \/ UNCHANGED vars
  <2>1. Restart \/ UNCHANGED vars => obj' = obj /\ UNCHANGED awsVars
    BY DEF Restart, vars, objVars
  <2> QED
    BY <1>1, <1>3, <1>10, <2>1, OthersModifyKept, GatewayReadyKept
<1>11. ASSUME NEW c \in Clusters,
              Observe(c) \/ RequestDeletion(c) \/ ReleaseOther(c) \/ Edit(c) \/ AttachmentFades(c)
       PROVE  GuardStep(k)
  <2>1. Observe(c) => obj' = obj /\ UNCHANGED awsVars
    BY DEF Observe
  <2> QED
    BY <1>1, <1>2, <1>3, <1>11, <2>1, RequestDeletionWrites, ReleaseOtherWrites, EditWrites,
       AttachmentFadesKept
<1> QED
  BY <1>4, <1>5, <1>6, <1>7, <1>8, <1>9, <1>10, <1>11 DEF Next

\* At first no cluster has a finalizer or a resource of these controllers.
LEMMA GuardInit ==
  ASSUME Init, NEW k \in AllControllers
  PROVE  /\ phases = [c \in Clusters |-> "live"]
         /\ Guarded(k) = [c \in Clusters |-> FALSE]
         /\ Kept(k) = [c \in Clusters |-> FALSE]
<1>1. /\ MC \in Clusters => gateway = "none" /\ plist = FALSE
      /\ att = [c \in Clusters |-> "none"] /\ entries = {}
      /\ routes = [c \in Clusters |-> {}] /\ shares = [c \in Clusters |-> {}]
      /\ \A c \in Clusters : obj[c].phase = "live" /\ obj[c].fins = OtherFinalizers
  BY DEF Init
<1>2. \A c \in Clusters : ~Keeps(k, c)
  BY <1>1, ControllerNames, KeepsCases
<1>3. \A c \in Clusters : k \notin obj[c].fins
  BY <1>1, NetworkConstantsAssumption
<1>4. phases = [c \in Clusters |-> "live"]
  BY <1>1 DEF phases
<1>5. /\ Guarded(k) \in [Clusters -> BOOLEAN] /\ Kept(k) \in [Clusters -> BOOLEAN]
      /\ \A b \in Clusters : (Guarded(k)[b] <=> k \in obj[b].fins) /\ (Kept(k)[b] <=> Keeps(k, b))
  BY Flags DEF FlagsOK
<1>6. \A F \in [Clusters -> BOOLEAN] :
        (\A b \in Clusters : ~F[b]) => F = [c \in Clusters |-> FALSE]
  <2> SUFFICES ASSUME NEW F \in [Clusters -> BOOLEAN], \A b \in Clusters : ~F[b]
               PROVE  F = [c \in Clusters |-> FALSE]
    OBVIOUS
  <2>1. \A b \in Clusters : F[b] = FALSE
    BY Zenon
  <2> QED
    BY <2>1
<1>7. Guarded(k) = [c \in Clusters |-> FALSE]
  BY <1>3, <1>5, <1>6
<1>8. Kept(k) = [c \in Clusters |-> FALSE]
  BY <1>2, <1>5, <1>6
<1> QED
  BY <1>4, <1>7, <1>8

\* For any set of clusters, lists and annotations, and whatever the share
\* controller does: gateway and prefix list (management_cluster_network.go),
\* attachments (transit_gateway_attachment.go), entries (prefix_list_entry.go)
\* and routes (route.go) are made under the finalizer of their controller,
\* leave AWS after the deletion was requested, and the finalizer goes last.
THEOREM FourControllersGuarded ==
  Spec => GuardMCN!Spec /\ GuardTGA!Spec /\ GuardPLE!Spec /\ GuardRTC!Spec
<1>1. \A k \in {MCN, TGA, PLE, RTC} : k \in AllControllers /\ Covered(k)
  BY ControllerNames DEF Covered
<1>2. Init => GuardMCN!Init /\ GuardTGA!Init /\ GuardPLE!Init /\ GuardRTC!Init
  BY <1>1, GuardInit DEF GuardMCN!Init, GuardTGA!Init, GuardPLE!Init, GuardRTC!Init
<1>3. IInv /\ IInv' /\ [Next]_vars =>
        /\ [GuardMCN!Next]_(GuardMCN!vars) /\ [GuardTGA!Next]_(GuardTGA!vars)
        /\ [GuardPLE!Next]_(GuardPLE!vars) /\ [GuardRTC!Next]_(GuardRTC!vars)
  <2> SUFFICES ASSUME IInv, IInv', [Next]_vars
               PROVE  /\ [GuardMCN!Next]_(GuardMCN!vars) /\ [GuardTGA!Next]_(GuardTGA!vars)
                      /\ [GuardPLE!Next]_(GuardPLE!vars) /\ [GuardRTC!Next]_(GuardRTC!vars)
    OBVIOUS
  <2>1. GuardStep(MCN) /\ GuardStep(TGA) /\ GuardStep(PLE) /\ GuardStep(RTC)
    BY <1>1, GuardNextHolds
  <2> QED
    BY <2>1, StepMCN, StepTGA, StepPLE, StepRTC
<1> QED
  BY <1>2, <1>3, NetworkInvariance, PTL
     DEF Spec, GuardMCN!Spec, GuardTGA!Spec, GuardPLE!Spec, GuardRTC!Spec

\* The share controller (share.go) as well, when no user annotates a cluster
\* with a prefix list alone: reconcileNormal shares such a list before it has
\* put the finalizer on.
THEOREM NetworkGuarded ==
  ASSUME NoLoneList PROVE Spec => GuardsNetwork
<1>1. SHR \in AllControllers /\ Covered(SHR)
  BY ControllerNames DEF Covered
<1>2. Init => GuardSHR!Init
  BY <1>1, GuardInit DEF GuardSHR!Init
<1>3. IInv /\ IInv' /\ [Next]_vars => [GuardSHR!Next]_(GuardSHR!vars)
  BY <1>1, GuardNextHolds, StepSHR
<1>4. Spec => GuardSHR!Spec
  BY <1>2, <1>3, NetworkInvariance, PTL DEF Spec, GuardSHR!Spec
<1> QED
  BY <1>4, FourControllersGuarded, PTL DEF GuardsNetwork
=============================================================================
