------------------------------- MODULE Routing -------------------------------
(***************************************************************************)
(* The routing module (internal/modules/routing): it writes Cloud's target *)
(* into the panel's Xray template and then into the running Xray, while    *)
(* the panel, its operator and Xray's own restarts change both.            *)
(*                                                                         *)
(* A configuration is what the module owns of the template: the first      *)
(* outbound, Cloud's outbounds by tag (a new tag stands for new contents), *)
(* the outbounds that are not Cloud's, the rule table and whether the api  *)
(* has the routing service.  A rule table is the outbounds its rules name  *)
(* and the tag of the inbound they name; the api's own rule is in every    *)
(* table but Lost.  Reads that change nothing and commute with what others *)
(* do in between are one step with the step before them.                   *)
(***************************************************************************)
EXTENDS Naturals, FiniteSets, Functions

CONSTANTS
    Tag,        \* tags of the outbounds Cloud owns (ak-o-...)
    Refused,    \* those among them whose configuration Xray refuses to build
    Document,   \* the targets Cloud sends, the malformed included
    Edits,      \* configurations the operator may save in the panel
    Lost,       \* the rule table a failed replacement leaves: no rule, no api
    MaxFaults,  \* how often each disturbance happens
    MaxTotal    \* and all of them together

Direct == "direct"
Blocked == "blocked"
\* The tag of the panel's inbound; 0 while the inbound does not exist.
InboundTag == 0..2
FaultKind == {"target", "edit", "inbound", "restart", "panel", "api", "crash"}

Table == [uses : SUBSET (Tag \cup {Direct, Blocked}), inbound : InboundTag]
Config == [first : Tag \cup {Direct}, outs : SUBSET Tag, builtin : BOOLEAN,
           rules : Table, service : BOOLEAN]

ASSUME ConstantsAssumption ==
    /\ Refused \subseteq Tag
    /\ Edits \subseteq Config
    /\ Lost \notin Table
    /\ MaxFaults \in [FaultKind -> Nat] /\ MaxTotal \in Nat

\* decodeTarget: the outbounds of a target have tags Cloud owns.
ASSUME DocumentAssumption == \A t \in Document : t.outs \subseteq Tag /\ t.inbound \in BOOLEAN

VARIABLES
    template,   \* the panel's template
    xray,       \* the Xray process: what it started with, what it runs now
    tag,        \* the current tag of the inbound
    wish,       \* Cloud's target
    pc,         \* where the pass of Apply is
    goal,       \* the template this pass wants (next)
    running,    \* the configuration read from the process it located
    same,       \* that process is still the one that runs (its pid)
    present,    \* the outbounds Xray listed in this pass
    code,       \* how the last pass ended
    disturbed,  \* someone else changed what this pass had already read
    prevented,  \* a lost rule table was kept from its recovery from outside
    faults

vars == <<template, xray, tag, wish, pc, goal, running, same, present, code,
          disturbed, prevented, faults>>
world == <<template, xray, tag, wish>>
pass == <<goal, running, same, present, disturbed>>

Fault(k) ==
    /\ faults[k] < MaxFaults[k] /\ SumFunction(faults) < MaxTotal
    /\ faults' = [faults EXCEPT ![k] = @ + 1]
NoFault == UNCHANGED faults

-----------------------------------------------------------------------------
(* The target and the template made from it. *)

\* decodeTarget, validRule: every outbound a target names is one it brings or built in.
Valid(t) == /\ t.default \in t.outs \cup {Direct}
            /\ t.uses \subseteq t.outs \cup {Direct, Blocked}

\* xrayRules: the rules name inbounds by their current tag.
Rules(t) == [uses |-> t.uses, inbound |-> IF t.inbound THEN tag ELSE 0]

\* managedTemplate: the default outbound first, only Cloud's and the two built-in
\* outbounds, the target's rules, and the routing service.
Managed(t) == [first |-> t.default, outs |-> t.outs, builtin |-> TRUE,
               rules |-> Rules(t), service |-> TRUE]

\* The panel starts Xray from the template; it does not listen yet.
Started(c) == [cfg |-> c, outs |-> c.outs, rules |-> c.rules, up |-> FALSE]

\* The api inbound is reached through the rule table.
Answers == xray.up /\ xray.rules # Lost
\* lsrules and adrules need the service of the process that answers.
AnswersRules == Answers /\ xray.cfg.service

-----------------------------------------------------------------------------
(* One pass of Apply. *)

Return(c) == pc' = "idle" /\ code' = c

\* Mutant: a change of the built-in outbounds is left to the next restart.
NeedsRestartNot(run, next) == ~run.service \/ run.first # next.first
\* hasService, firstOutbound, builtinOutbounds: what only a restart changes.
NeedsRestart(run, next) == ~run.service \/ run.first # next.first \/ run.builtin # next.builtin

AfterTemplate(run, next) == pc' = IF NeedsRestart(run, next) THEN "restart" ELSE "list"

\* Apply with the key's target; the engine passes none that is invalid, and a pass
\* without a target changes nothing.  locate, Inbounds and Template only read, and each
\* may fail.
Begin ==
    /\ pc = "idle" /\ Valid(wish)
    /\ disturbed' = FALSE
    /\ UNCHANGED <<world, present, prevented>>
    /\ \/ /\ ~(wish.inbound /\ tag = 0)
          /\ goal' = Managed(wish) /\ running' = xray.cfg /\ same' = TRUE
          /\ IF template = goal' THEN AfterTemplate(running', goal') ELSE pc' = "save"
          /\ NoFault /\ UNCHANGED code
       \/ /\ wish.inbound /\ tag = 0
          /\ Return("inbound_missing") /\ NoFault /\ UNCHANGED <<goal, running, same>>
       \/ /\ \/ Fault("panel") /\ Return("panel_failed")
             \/ Fault("api") /\ Return("xray_unavailable")
          /\ UNCHANGED <<goal, running, same>>

\* test, then SaveTemplate: a configuration Xray refuses, or could not be run to test,
\* is not written; an answer may be lost after the panel stored the template.
Save ==
    /\ pc = "save"
    /\ UNCHANGED <<xray, tag, wish, pass, prevented>>
    /\ IF goal.outs \cap Refused # {}
       THEN Return("config_invalid") /\ NoFault /\ UNCHANGED template
       ELSE \/ template' = goal /\ pc' = "verify" /\ NoFault /\ UNCHANGED code
            \/ template' \in {template, goal} /\ Fault("panel") /\ Return("panel_failed")
            \/ Fault("api") /\ Return("xray_unavailable") /\ UNCHANGED template

\* Template again, compared with what was written.
Verify ==
    /\ pc = "verify"
    /\ UNCHANGED <<world, pass, prevented>>
    /\ \/ template = goal /\ AfterTemplate(running, goal) /\ NoFault /\ UNCHANGED code
       \/ template # goal /\ Return("panel_failed") /\ NoFault
       \/ Fault("panel") /\ Return("panel_failed")

\* How a pass ends whose restart did not work.
RestartCode == IF pc \in {"restart", "await"} THEN "restart_failed" ELSE "apply_failed"

\* restart: the panel starts Xray again, or refuses, or its answer is lost.
RequestRestart ==
    /\ pc \in {"restart", "recover"}
    /\ UNCHANGED <<template, tag, wish, goal, running, present, disturbed>>
    /\ \/ /\ xray' = Started(template) /\ same' = FALSE /\ prevented' = FALSE
          /\ pc' = IF pc = "restart" THEN "await" ELSE "recovering"
          /\ NoFault /\ UNCHANGED code
       \/ /\ \/ xray' = Started(template) /\ same' = FALSE /\ prevented' = FALSE
             \/ prevented' = (prevented \/ xray.rules = Lost) /\ UNCHANGED <<xray, same>>
          /\ Fault("panel") /\ Return(RestartCode)

\* restart waits for the new process to list its rules; apply goes on with that process
\* and wants Cloud's default outbound first, hotUpdate only ends the pass.
AwaitXray ==
    /\ pc \in {"await", "recovering"}
    /\ UNCHANGED <<world, goal, present, disturbed, prevented>>
    /\ \/ /\ AnswersRules /\ NoFault
          /\ running' = xray.cfg /\ same' = TRUE
          /\ IF pc = "await" /\ xray.cfg.first = goal.first
             THEN pc' = "list" /\ UNCHANGED code
             ELSE Return(RestartCode)
       \/ /\ IF AnswersRules \/ xray.cfg.service THEN Fault("panel") ELSE NoFault
          /\ Return(RestartCode) /\ UNCHANGED <<running, same>>

\* Mutant: the outbounds of the earlier target go before the rules that use them.
ListAndRemove ==
    /\ pc = "list" /\ Answers
    /\ present' = xray.outs
    /\ xray' = [xray EXCEPT !.outs = @ \ (xray.outs \ goal.outs)]
    /\ pc' = "add" /\ NoFault
    /\ UNCHANGED <<template, tag, wish, goal, running, same, disturbed, prevented, code>>
\* hotUpdate: the outbounds Xray has now.
ListOutbounds ==
    /\ pc = "list"
    /\ UNCHANGED <<world, goal, running, same, disturbed, prevented>>
    /\ \/ Answers /\ present' = xray.outs /\ pc' = "add" /\ NoFault /\ UNCHANGED code
       \/ /\ (~Answers /\ NoFault) \/ Fault("api")
          /\ Return("xray_unavailable") /\ UNCHANGED present

\* addOutbounds: those the target needs and Xray lacks, one after the other; one
\* that exists by now fails the command.
AddOutbounds ==
    LET missing == goal.outs \ present IN
    /\ pc = "add"
    /\ UNCHANGED <<template, tag, wish, pass, prevented>>
    /\ \/ /\ missing = {} \/ (Answers /\ missing \cap xray.outs = {})
          /\ xray' = [xray EXCEPT !.outs = @ \cup missing]
          /\ pc' = "replace" /\ NoFault /\ UNCHANGED code
       \/ /\ missing # {}
          /\ IF Answers /\ missing \cap xray.outs = {} THEN Fault("api") ELSE NoFault
          /\ \E part \in SUBSET missing :
                xray' = [xray EXCEPT !.outs = IF Answers THEN @ \cup part ELSE @]
          /\ Return("apply_failed")

\* replaceRules: Xray drops its table and builds the new one; a failure leaves the
\* old table, the new one or none, the api's own rule included.
ReplaceRules ==
    /\ pc = "replace"
    /\ UNCHANGED <<template, tag, wish, pass, prevented, code>>
    /\ \/ AnswersRules /\ xray' = [xray EXCEPT !.rules = goal.rules] /\ pc' = "remove" /\ NoFault
       \/ AnswersRules /\ Fault("api") /\ pc' = "check"
          /\ \E r \in {xray.rules, goal.rules, Lost} : xray' = [xray EXCEPT !.rules = r]
       \/ ~AnswersRules /\ pc' = "check" /\ NoFault /\ UNCHANGED xray

\* Mutant: a failed replacement only ends the pass.
CheckTableLeaves ==
    /\ pc = "check" /\ Return("apply_failed") /\ NoFault
    /\ UNCHANGED <<world, pass, prevented>>
\* After a failure: the same process that no longer answers has lost its table.  A
\* process that cannot be located, or is another one, is left as it is.
CheckTable ==
    /\ pc = "check"
    /\ UNCHANGED <<world, pass>>
    /\ \/ /\ same
          /\ IF AnswersRules THEN Fault("api") ELSE NoFault
          /\ pc' = "recover" /\ UNCHANGED <<code, prevented>>
       \/ /\ ~same \/ AnswersRules
          /\ prevented' = (prevented \/ xray.rules = Lost)
          /\ Return("apply_failed") /\ NoFault
       \/ /\ Fault("api")
          /\ prevented' = (prevented \/ xray.rules = Lost)
          /\ Return("apply_failed")

\* removeOutbounds: Cloud's own outbounds that were listed and the target lacks.
RemoveOutbounds ==
    LET stale == present \ goal.outs IN
    /\ pc = "remove"
    /\ UNCHANGED <<template, tag, wish, pass, prevented>>
    /\ \/ /\ stale = {} \/ Answers
          /\ xray' = [xray EXCEPT !.outs = @ \ stale]
          /\ Return("ok") /\ NoFault
       \/ /\ stale # {}
          /\ IF Answers THEN Fault("api") ELSE NoFault
          /\ \E part \in SUBSET stale :
                xray' = [xray EXCEPT !.outs = IF Answers THEN @ \ part ELSE @]
          /\ Return("apply_failed")

-----------------------------------------------------------------------------
(* Everyone else. *)

\* Xray listens on its api some time after it started.
XrayListens ==
    /\ ~xray.up
    /\ xray' = [xray EXCEPT !.up = TRUE]
    /\ UNCHANGED <<template, tag, wish, pc, pass, prevented, code>> /\ NoFault

\* The operator, an inbound change or a crash of Xray has the panel start it again.
\* That takes nothing from a pass, unless the process it located had what only a restart
\* brings and this one, started before the pass wrote the template, has not.
OthersRestart ==
    /\ Fault("restart")
    /\ xray' = Started(template) /\ same' = FALSE /\ prevented' = FALSE
    /\ disturbed' = \/ disturbed
                    \/ NeedsRestart(template, goal) /\ ~NeedsRestart(running, goal)
    /\ UNCHANGED <<template, tag, wish, pc, goal, running, present, code>>

\* The operator saves another template in the panel.
OperatorEdits ==
    /\ Fault("edit")
    /\ template' \in Edits
    /\ disturbed' = TRUE
    /\ UNCHANGED <<xray, tag, wish, pc, goal, running, same, present, prevented, code>>

\* The inbound is deleted, added again or gets another tag.
InboundChanges ==
    /\ Fault("inbound")
    /\ tag' \in InboundTag \ {tag}
    /\ disturbed' = TRUE
    /\ UNCHANGED <<template, xray, wish, pc, goal, running, same, present, prevented, code>>

\* Cloud sends another target; the pass under way keeps the one it began with.
NewTarget ==
    /\ Fault("target")
    /\ wish' \in Document \ {wish}
    /\ UNCHANGED <<template, xray, tag, pc, pass, prevented, code>>

\* The Agent stops or crashes in the middle of a pass, and starts again.
Crash ==
    /\ pc # "idle" /\ Fault("crash") /\ Return("crashed")
    /\ prevented' = (prevented \/ (pc \in {"check", "recover"} /\ xray.rules = Lost))
    /\ UNCHANGED <<world, pass>>

Init ==
    /\ template \in Edits
    /\ xray = [Started(template) EXCEPT !.up = TRUE]
    /\ tag = 1
    /\ wish \in Document
    /\ pc = "idle" /\ code = "none"
    /\ goal = template /\ running = template /\ same = TRUE /\ present = {}
    /\ disturbed = FALSE /\ prevented = FALSE
    /\ faults = [k \in FaultKind |-> 0]

Step == \/ Begin \/ Save \/ Verify \/ RequestRestart \/ AwaitXray \/ ListOutbounds
        \/ AddOutbounds \/ ReplaceRules \/ CheckTable \/ RemoveOutbounds

Next == \/ Step \/ XrayListens \/ OthersRestart \/ OperatorEdits \/ InboundChanges
        \/ NewTarget \/ Crash

Spec == Init /\ [][Next]_vars

\* The engine passes the target to Apply again every few minutes, and a restarted
\* Xray gets to listen.
FairSpec == Spec /\ WF_vars(Step) /\ WF_vars(XrayListens)

-----------------------------------------------------------------------------
(* Properties. *)

\* Every variable has its type.
TypeOK ==
    /\ template \in Config
    /\ xray \in [cfg : Config, outs : SUBSET Tag, rules : Table \cup {Lost}, up : BOOLEAN]
    /\ tag \in InboundTag
    /\ wish \in Document
    /\ pc \in {"idle", "save", "verify", "restart", "await", "recover", "recovering",
               "list", "add", "replace", "check", "remove"}
    /\ goal \in Config /\ running \in Config
    /\ same \in BOOLEAN /\ disturbed \in BOOLEAN /\ prevented \in BOOLEAN
    /\ present \subseteq Tag

\* Template and running Xray are in the configuration c.
Holds(c) == /\ template = c
            /\ xray.outs = c.outs /\ xray.rules = c.rules
            /\ xray.cfg.first = c.first /\ xray.cfg.builtin /\ xray.cfg.service

\* Where no operator edits the managed parts, no rule of the running Xray names an
\* outbound it does not have, while outbounds and rules change one after the other,
\* Xray restarts at any point and any step fails (hotUpdate: added before the rules
\* point at it, removed after they no longer do; the template first).
RulesResolve ==
    faults["edit"] = 0 /\ xray.rules # Lost =>
        xray.rules.uses \subseteq xray.outs \cup {Direct, Blocked}

\* A pass that reports success leaves the template and Xray in its target, whatever
\* earlier passes left half done and however often Xray restarts (Module.apply).  The
\* pass must not be overtaken in what it read: no edit of the template and no change of
\* the inbound since it began, and no restart, between its look at the process (locate)
\* and its write of the template, into what only another restart would change.  After
\* such a restart the code does report a success that is not there until its next pass.
ReportIsTrue ==
    [][(pc # "idle" /\ pc' = "idle" /\ code' = "ok" /\ ~disturbed) => Holds(goal)']_vars

\* No pass has a usable target, or the node is in it.
Settled == \/ ~Valid(wish)
           \/ wish.inbound /\ tag = 0
           \/ wish.outs \cap Refused # {}
           \/ Holds(Managed(wish))

\* In the end the node is in Cloud's target, over edits, restarts and failures, unless
\* Xray lost its rule table and the restart that recovers it was prevented from outside:
\* the process could not be located or had been replaced, the panel refused, the Agent
\* crashed.  Later passes then only find the api silent (hotUpdate).
NodeRoutesUnlessLost == <>[]Settled \/ <>[](xray.rules = Lost /\ prevented)
=============================================================================
