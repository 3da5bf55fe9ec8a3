------------------------------ MODULE MCRouting ------------------------------
(* Instances of Routing for TLC: two targets that use one owned outbound each, *)
(* one that makes it the default, one Xray refuses and a malformed one;        *)
(* the operator's own template and one that restores an old target with other  *)
(* built-in outbounds.                                                         *)
EXTENDS Routing

CONSTANTS o1, o2, bad, Targets, TemplateEdits, Inbounds, Restarts, PanelFaults, ApiFaults, Crashes

Doc(d, outs, uses, inb) == [default |-> d, outs |-> outs, uses |-> uses, inbound |-> inb]
MCDocument == {Doc(Direct, {o1}, {o1, Blocked}, TRUE),
               Doc(Direct, {o2}, {o2}, FALSE),
               Doc(o2, {o2}, {o2, Direct}, FALSE),
               Doc(Direct, {bad}, {bad}, FALSE),
               Doc(o1, {}, {}, FALSE)}

Plain == [first |-> Direct, outs |-> {}, builtin |-> FALSE, service |-> FALSE,
          rules |-> [uses |-> {Direct}, inbound |-> 0]]
Restored == [first |-> o2, outs |-> {o2}, builtin |-> FALSE, service |-> TRUE,
             rules |-> [uses |-> {o2}, inbound |-> 0]]
MCEdits == {Plain, Restored}

MCMaxFaults == [target |-> Targets, edit |-> TemplateEdits, inbound |-> Inbounds,
                restart |-> Restarts, panel |-> PanelFaults, api |-> ApiFaults, crash |-> Crashes]
=============================================================================
