------------------------------ MODULE MCDnsZone ------------------------------
(* Instances of DnsZone for TLC. *)
EXTENDS DnsZone

AllCalls == NormalSteps \cup DeleteSteps
=============================================================================
