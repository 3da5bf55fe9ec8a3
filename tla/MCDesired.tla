------------------------------ MODULE MCDesired ------------------------------
(* Instances of Desired for TLC. *)
EXTENDS Desired

CONSTANTS k1, Versions, Breaks, Crashes, ApplyFaults

MCMaxFaults == [f \in FaultKind |-> CASE f = "break" -> Breaks
                                      [] f = "crash" -> Crashes
                                      [] f = "apply" -> ApplyFaults]
MCMaxVersion == [k \in Key |-> Versions]
==============================================================================
