--------------------------- MODULE MCAddressWatch ---------------------------
(* Instances of AddressWatch for TLC. *)
EXTENDS AddressWatch, TLC

CONSTANTS c1, c2, a1, a2, NaturalChanges, Breaks, Crashes, SaveFaults

MCMaxFaults == [k \in FaultKind |-> CASE k = "natural" -> NaturalChanges
                                      [] k = "break"   -> Breaks
                                      [] k = "crash"   -> Crashes
                                      [] k = "save"    -> SaveFaults]
MCSymmetry == Permutations({a1, a2}) \cup Permutations({c1, c2} \cap Command)
==============================================================================
