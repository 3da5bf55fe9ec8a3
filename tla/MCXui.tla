-------------------------------- MODULE MCXui --------------------------------
(* Instances of Xui for TLC: one inbound, at home to every client. *)
EXTENDS Xui

CONSTANTS i1, a, b, f, s1, s2, s3, Refused, Lost, Saves, Late, Crashes

MCHome == [c \in Email |-> i1]
\* a is wanted without a limit or, with another secret, limited; b only without.
MCWish == [c \in Owned |-> IF c = a
             THEN {[secret |-> s1, enable |-> TRUE, limit |-> 0],
                   [secret |-> s2, enable |-> TRUE, limit |-> 1]}
             ELSE {[secret |-> s3, enable |-> TRUE, limit |-> 0]}]
MCMaxFaults == [k \in FaultKind |-> CASE k = "refused" -> Refused
                                      [] k = "lost" -> Lost
                                      [] k = "save" -> Saves
                                      [] k = "late" -> Late
                                      [] k = "crash" -> Crashes]
==============================================================================
