---------------------- MODULE MCKarpenterMachinePool ----------------------
(***************************************************************************)
(* Instances of KarpenterMachinePool for TLC.                              *)
(***************************************************************************)
EXTENDS KarpenterMachinePool

AllCalls == Calls \cup {"crash"}

\* Everything may fail but the deferred patch, and the operator does not stop.
CallsButPatch == Calls \ {"patch"}
===========================================================================
