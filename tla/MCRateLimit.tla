---------------------------- MODULE MCRateLimit ----------------------------
(* Instances of RateLimit for TLC: two groups that share a client. *)
EXTENDS RateLimit

CONSTANTS alice, bob, Targets, Flows, Routes, Logs, Hands, Failures, Stops, Crashes

MCTarget == {[rate |-> 0, emails |-> {}], [rate |-> 1, emails |-> {alice}],
             [rate |-> 2, emails |-> {alice, bob}]}
MCMaxFaults == [target |-> Targets, flow |-> Flows, route |-> Routes, log |-> Logs,
                hand |-> Hands, tc |-> Failures, stop |-> Stops, crash |-> Crashes]
=============================================================================
