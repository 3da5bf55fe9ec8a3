---------------------------- MODULE MCCommandPath ----------------------------
(* Instances of CommandPath for TLC: two ChangeIP commands and one IPQuality    *)
(* command at most, each kind in its own exclusive group.                       *)
EXTENDS CommandPath, TLC

CONSTANTS c1, c2, q1, network, runner, ok, Breaks, Crashes, SaveFaults, Updates

MCGroupOf == [c \in Command |-> IF c = q1 THEN runner ELSE network]
MCDeclinable == Command \ {q1}
MCMaxFaults == [k \in FaultKind |-> CASE k = "break"  -> Breaks
                                      [] k = "crash"  -> Crashes
                                      [] k = "save"   -> SaveFaults
                                      [] k = "update" -> Updates]

\* The two ChangeIP commands are interchangeable.
MCSymmetry == Permutations({c1, c2} \cap Command)
==============================================================================
