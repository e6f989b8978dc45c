-------------------------- MODULE GuardedResource --------------------------
(***************************************************************************)
(* What a controller that owns something outside the cluster promises of   *)
(* the Kubernetes objects it serves: an object carries the controller's    *)
(* finalizer (is guarded) whenever its resource exists, the guard is put   *)
(* on before the resource is made, the resource is taken away only once    *)
(* the deletion of the object was requested, and the guard comes off only  *)
(* when nothing is left.                                                   *)
(***************************************************************************)
CONSTANT Objects

VARIABLES
  phase,       \* phase[o]: "live", "deleting" or "gone"
  guarded,     \* guarded[o]: the finalizer is on the object
  resource     \* resource[o]: something is left outside

vars == <<phase, guarded, resource>>

Init ==
  /\ phase = [o \in Objects |-> "live"]
  /\ guarded = [o \in Objects |-> FALSE]
  /\ resource = [o \in Objects |-> FALSE]

PutGuard(o) ==
  /\ phase[o] = "live"
  /\ guarded' = [guarded EXCEPT ![o] = TRUE]
  /\ UNCHANGED <<phase, resource>>

Acquire(o) ==
  /\ guarded[o]
  /\ resource' = [resource EXCEPT ![o] = TRUE]
  /\ UNCHANGED <<phase, guarded>>

Release(o) ==
  /\ guarded[o] /\ phase[o] = "deleting"
  /\ resource' = [resource EXCEPT ![o] = FALSE]
  /\ UNCHANGED <<phase, guarded>>

\* Another finalizer may still hold the object.
DropGuard(o) ==
  /\ phase[o] = "deleting" /\ ~resource[o]
  /\ guarded' = [guarded EXCEPT ![o] = FALSE]
  /\ \E p \in {"deleting", "gone"} : phase' = [phase EXCEPT ![o] = p]
  /\ UNCHANGED resource

RequestDeletion(o) ==
  /\ phase[o] = "live"
  /\ \E p \in {"deleting", "gone"} :
       /\ guarded[o] => p = "deleting"
       /\ phase' = [phase EXCEPT ![o] = p]
  /\ UNCHANGED <<guarded, resource>>

Vanish(o) ==
  /\ phase[o] = "deleting" /\ ~guarded[o]
  /\ phase' = [phase EXCEPT ![o] = "gone"]
  /\ UNCHANGED <<guarded, resource>>

Next ==
  \E o \in Objects :
    \/ PutGuard(o) \/ Acquire(o) \/ Release(o)
    \/ DropGuard(o) \/ RequestDeletion(o) \/ Vanish(o)

Spec == Init /\ [][Next]_vars
=============================================================================
