---------------------------- MODULE MCDeployment ----------------------------
(* Instances of Deployment for TLC. *)
EXTENDS Deployment

CONSTANTS Crashes, Fails, Installs, InstallFailures

MCMaxFaults == [k \in FaultKind |-> CASE k = "crash"        -> Crashes
                                      [] k = "fail"         -> Fails
                                      [] k = "install"      -> Installs
                                      [] k = "installFails" -> InstallFailures]
==============================================================================
