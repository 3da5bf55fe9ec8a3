---------------------------- MODULE RoutingProofs ----------------------------
(***************************************************************************)
(* Proofs about Routing, for every set of tags, targets and templates and  *)
(* every number of disturbances.                                           *)
(***************************************************************************)
EXTENDS Routing, TLAPS

-----------------------------------------------------------------------------
(* Types. *)

XrayType == [cfg : Config, outs : SUBSET Tag, rules : Table \cup {Lost}, up : BOOLEAN]

\* The rules of a configuration name outbounds it has.
Resolves(c) == c.rules.uses \subseteq c.outs \cup {Direct, Blocked}

\* What a valid target makes of the template is a configuration whose rules resolve,
\* with what only a restart brings.
LEMMA ManagedTyped ==
    ASSUME TypeOK, Valid(wish)
    PROVE  /\ Managed(wish) \in Config
           /\ Resolves(Managed(wish))
           /\ Managed(wish).builtin /\ Managed(wish).service
<1>1. wish.outs \subseteq Tag /\ wish.inbound \in BOOLEAN /\ tag \in InboundTag
    BY DocumentAssumption DEF TypeOK
<1>2. Rules(wish) \in Table
    BY <1>1 DEF Valid, Rules, Table, InboundTag
<1>3. Managed(wish) \in Config
    BY <1>1, <1>2 DEF Managed, Config, Valid
<1>4. Resolves(Managed(wish))
    BY DEF Resolves, Managed, Rules, Valid
<1> QED BY <1>3, <1>4 DEF Managed

\* A process started from a configuration is typed, and runs that configuration.
LEMMA StartedTyped ==
    ASSUME NEW c \in Config
    PROVE  /\ Started(c) \in XrayType
           /\ Started(c).cfg = c /\ Started(c).outs = c.outs /\ Started(c).rules = c.rules
           /\ c.outs \subseteq Tag /\ c.rules \in Table /\ c.rules # Lost
BY ConstantsAssumption DEF Started, XrayType, Config

\* What a pass writes into the running Xray is typed, and nothing else of it changes.
LEMMA XrayTyped ==
    ASSUME NEW x \in XrayType
    PROVE  /\ x.cfg \in Config /\ x.outs \subseteq Tag /\ x.rules \in Table \cup {Lost}
           /\ \A o \in SUBSET Tag : /\ [x EXCEPT !.outs = o] \in XrayType
                                    /\ [x EXCEPT !.outs = o].outs = o
                                    /\ [x EXCEPT !.outs = o].cfg = x.cfg
                                    /\ [x EXCEPT !.outs = o].rules = x.rules
           /\ \A r \in Table \cup {Lost} : /\ [x EXCEPT !.rules = r] \in XrayType
                                           /\ [x EXCEPT !.rules = r].rules = r
                                           /\ [x EXCEPT !.rules = r].cfg = x.cfg
                                           /\ [x EXCEPT !.rules = r].outs = x.outs
           /\ [x EXCEPT !.up = TRUE] \in XrayType
           /\ [x EXCEPT !.up = TRUE].cfg = x.cfg
           /\ [x EXCEPT !.up = TRUE].outs = x.outs
           /\ [x EXCEPT !.up = TRUE].rules = x.rules
BY DEF XrayType

\* Every step keeps the types.
LEMMA StepTyped ==
    ASSUME TypeOK, Next
    PROVE  TypeOK'
<1> USE DEF world, pass, Return
<1>0. template \in Config /\ xray \in XrayType /\ goal \in Config
    BY DEF TypeOK, XrayType
<1>1. CASE Begin
    <2>1. goal' \in Config /\ running' \in Config /\ same' \in BOOLEAN
        BY <1>0, <1>1, ManagedTyped, XrayTyped DEF Begin, TypeOK
    <2>2. pc' \in {"idle", "save", "restart", "list"}
        BY <1>1 DEF Begin, AfterTemplate
    <2> QED BY <1>1, <2>1, <2>2 DEF Begin, TypeOK
<1>2. CASE Save
    BY <1>2 DEF Save, TypeOK
<1>3. CASE Verify
    BY <1>3 DEF Verify, TypeOK, AfterTemplate
<1>4. CASE RequestRestart
    <2>1. xray' = xray \/ xray' = Started(template)
        BY <1>4 DEF RequestRestart
    <2>2. xray' \in XrayType
        BY <1>0, <2>1, StartedTyped
    <2> QED BY <1>4, <2>2 DEF RequestRestart, TypeOK, XrayType
<1>5. CASE AwaitXray
    <2>1. running' \in Config
        BY <1>0, <1>5, XrayTyped DEF AwaitXray, TypeOK
    <2>2. pc' \in {"list", "idle"}
        BY <1>5 DEF AwaitXray
    <2> QED BY <1>5, <2>1, <2>2 DEF AwaitXray, TypeOK
<1>6. CASE ListOutbounds
    <2>1. present' \subseteq Tag
        BY <1>0, <1>6, XrayTyped DEF ListOutbounds, TypeOK
    <2> QED BY <1>6, <2>1 DEF ListOutbounds, TypeOK
<1>7. CASE AddOutbounds
    <2>1. xray.outs \subseteq Tag /\ goal.outs \subseteq Tag
        BY <1>0, XrayTyped, StartedTyped
    <2>2. \E o \in SUBSET Tag : xray' = [xray EXCEPT !.outs = o]
        BY <1>7, <2>1 DEF AddOutbounds
    <2>3. xray' \in XrayType
        BY <1>0, <2>2 DEF XrayType
    <2> QED BY <1>7, <2>3 DEF AddOutbounds, TypeOK, XrayType
<1>8. CASE ReplaceRules
    <2>1. goal.rules \in Table /\ xray.rules \in Table \cup {Lost}
        BY <1>0, XrayTyped, StartedTyped
    <2>2. xray' = xray \/ \E r \in Table \cup {Lost} : xray' = [xray EXCEPT !.rules = r]
        BY <1>8, <2>1 DEF ReplaceRules
    <2>3. xray' \in XrayType
        BY <1>0, <2>2 DEF XrayType
    <2> QED BY <1>8, <2>3 DEF ReplaceRules, TypeOK, XrayType
<1>9. CASE CheckTable
    BY <1>9 DEF CheckTable, TypeOK
<1>10. CASE RemoveOutbounds
    <2>1. xray.outs \subseteq Tag
        BY <1>0, XrayTyped
    <2>2. \E o \in SUBSET Tag : xray' = [xray EXCEPT !.outs = o]
        BY <1>10, <2>1 DEF RemoveOutbounds
    <2>3. xray' \in XrayType
        BY <1>0, <2>2 DEF XrayType
    <2> QED BY <1>10, <2>3 DEF RemoveOutbounds, TypeOK, XrayType
<1>11. CASE XrayListens
    <2>1. xray' \in XrayType
        BY <1>0, <1>11, XrayTyped DEF XrayListens
    <2> QED BY <1>11, <2>1 DEF XrayListens, TypeOK, XrayType
<1>12. CASE OthersRestart
    <2>1. xray' \in XrayType
        BY <1>0, <1>12, StartedTyped DEF OthersRestart
    <2>2. disturbed' \in BOOLEAN /\ prevented' \in BOOLEAN
        BY <1>12, Zenon DEF OthersRestart, TypeOK
    <2> QED BY <1>12, <2>1, <2>2 DEF OthersRestart, TypeOK, XrayType
<1>13. CASE OperatorEdits
    BY <1>13, ConstantsAssumption DEF OperatorEdits, TypeOK
<1>14. CASE InboundChanges
    BY <1>14 DEF InboundChanges, TypeOK
<1>15. CASE NewTarget
    BY <1>15 DEF NewTarget, TypeOK
<1>16. CASE Crash
    BY <1>16 DEF Crash, TypeOK
<1> QED BY <1>1, <1>2, <1>3, <1>4, <1>5, <1>6, <1>7, <1>8, <1>9, <1>10, <1>11, <1>12, <1>13,
           <1>14, <1>15, <1>16 DEF Next, Step

\* Initially every variable has its type, and Xray runs the template.
LEMMA InitTyped ==
    ASSUME Init
    PROVE  /\ TypeOK
           /\ xray.cfg = template /\ xray.outs = template.outs /\ xray.rules = template.rules
<1>1. template \in Config
    BY ConstantsAssumption DEF Init
<1>2. xray \in XrayType /\ xray.cfg = template /\ xray.outs = template.outs
      /\ xray.rules = template.rules
    <2>1. xray = [Started(template) EXCEPT !.up = TRUE] /\ Started(template) \in XrayType
        BY <1>1, StartedTyped DEF Init
    <2>2. xray \in XrayType /\ xray.cfg = Started(template).cfg
          /\ xray.outs = Started(template).outs /\ xray.rules = Started(template).rules
        BY <2>1, XrayTyped
    <2>3. Started(template).cfg = template /\ Started(template).outs = template.outs
          /\ Started(template).rules = template.rules
        BY <1>1, StartedTyped
    <2> QED BY <2>2, <2>3
<1>3. goal = template /\ running = template /\ tag = 1 /\ present = {} /\ wish \in Document
    BY DEF Init
<1>4. same \in BOOLEAN /\ disturbed \in BOOLEAN /\ prevented \in BOOLEAN /\ pc = "idle"
    BY Zenon DEF Init
<1> QED BY <1>1, <1>2, <1>3, <1>4 DEF TypeOK, XrayType, InboundTag

\* Every variable keeps its type: what a pass writes into the template and into Xray is
\* a configuration, whatever the target, the failures and the edits.
THEOREM TypeCorrect == Spec => []TypeOK
<1>1. Init => TypeOK
    BY InitTyped
<1>2. TypeOK /\ [Next]_vars => TypeOK'
    <2> SUFFICES ASSUME TypeOK, [Next]_vars PROVE TypeOK'
        OBVIOUS
    <2>1. CASE UNCHANGED vars
        BY <2>1 DEF vars, TypeOK
    <2> QED BY <2>1, StepTyped
<1> QED BY <1>1, <1>2, PTL DEF Spec

-----------------------------------------------------------------------------
(* The order in which outbounds and rules change. *)

\* Past its writing of the template, a pass has the template in place.
Placed == {"verify", "restart", "await", "recover", "recovering", "list", "add", "replace",
           "check", "remove"}

\* Without edits, whatever Xray may start with resolves, an outbound is there before
\* the rules name it, and what is to be removed is no longer named.
ResolveInv ==
    /\ Resolves(template) /\ Resolves(goal)
    /\ pc \in Placed => template = goal
    /\ xray.rules # Lost => xray.rules.uses \subseteq xray.outs \cup {Direct, Blocked}
    /\ pc = "add" => present \cap goal.outs \subseteq xray.outs
    /\ pc \in {"replace", "remove"} => goal.outs \subseteq xray.outs
    /\ pc = "remove" => xray.rules = goal.rules

\* The disturbances are counted, and a step that leaves the operator's edits at none
\* is not one.
LEMMA EditsCount ==
    ASSUME faults \in [FaultKind -> Nat], [Next]_vars
    PROVE  /\ faults' \in [FaultKind -> Nat]
           /\ faults'["edit"] = 0 => faults["edit"] = 0 /\ ~OperatorEdits
<1>1. CASE OperatorEdits
    BY <1>1 DEF OperatorEdits, Fault, FaultKind
<1>2. CASE UNCHANGED faults \/ \E k \in FaultKind : Fault(k)
    <2>1. faults' \in [FaultKind -> Nat] /\ (faults'["edit"] = 0 => faults["edit"] = 0)
        BY <1>2 DEF Fault, FaultKind
    <2> QED BY <1>1, <2>1
<1>3. CASE Step \/ Crash
    <2> USE DEF Return, NoFault
    <2>1. CASE Begin \/ Save \/ Verify \/ RequestRestart
        BY <1>2, <2>1 DEF Begin, Save, Verify, RequestRestart, FaultKind
    <2>2. CASE AwaitXray \/ ListOutbounds \/ AddOutbounds
        BY <1>2, <2>2 DEF AwaitXray, ListOutbounds, AddOutbounds, FaultKind
    <2>3. CASE ReplaceRules \/ CheckTable \/ RemoveOutbounds \/ Crash
        BY <1>2, <2>3 DEF ReplaceRules, CheckTable, RemoveOutbounds, Crash, FaultKind
    <2> QED BY <1>3, <2>1, <2>2, <2>3 DEF Step
<1>4. CASE XrayListens \/ OthersRestart \/ InboundChanges \/ NewTarget \/ UNCHANGED vars
    BY <1>2, <1>4 DEF XrayListens, OthersRestart, InboundChanges, NewTarget, vars, FaultKind, NoFault
<1> QED BY <1>1, <1>3, <1>4 DEF Next

\* Every step but an operator's edit keeps the order.
LEMMA ResolveKept ==
    ASSUME TypeOK, ResolveInv, [Next]_vars, ~OperatorEdits
    PROVE  ResolveInv'
<1> USE DEF world, pass, Return
<1>0. template \in Config /\ xray \in XrayType /\ goal \in Config
    BY DEF TypeOK, XrayType
<1>b. xray.outs \subseteq Tag /\ goal.outs \subseteq Tag /\ goal.rules \in Table /\ goal.rules # Lost
      /\ xray.rules \in Table \cup {Lost} /\ present \subseteq Tag
    BY <1>0, XrayTyped, StartedTyped DEF TypeOK
<1>1. CASE Begin
    <2>1. goal' = goal \/ Resolves(goal')
        BY <1>1, ManagedTyped DEF Begin
    <2>2. pc' \in {"idle", "save", "restart", "list"} /\ UNCHANGED <<template, xray>>
        BY <1>1 DEF Begin, AfterTemplate
    <2>3. pc' \in Placed => template = goal'
        BY <1>1 DEF Begin, Placed
    <2> QED BY <2>1, <2>2, <2>3 DEF ResolveInv, Resolves
<1>2. CASE Save
    BY <1>2 DEF Save, ResolveInv, Resolves, Placed
<1>3. CASE Verify
    BY <1>3 DEF Verify, AfterTemplate, ResolveInv, Resolves, Placed
<1>4. CASE RequestRestart
    <2>1. xray' = xray \/ xray' = Started(template)
        BY <1>4 DEF RequestRestart
    <2>2. xray'.rules # Lost => xray'.rules.uses \subseteq xray'.outs \cup {Direct, Blocked}
        BY <1>0, <2>1, StartedTyped DEF ResolveInv, Resolves
    <2>3. pc' \in {"await", "recovering", "idle"} /\ UNCHANGED <<template, goal, present>>
        BY <1>4 DEF RequestRestart
    <2>4. pc \in Placed
        BY <1>4 DEF RequestRestart, Placed
    <2> QED BY <2>2, <2>3, <2>4 DEF ResolveInv, Resolves
<1>5. CASE AwaitXray
    <2>1. pc' \in {"list", "idle"} /\ UNCHANGED <<template, xray, goal, present>>
        BY <1>5 DEF AwaitXray
    <2>2. pc \in Placed
        BY <1>5 DEF AwaitXray, Placed
    <2> QED BY <2>1, <2>2 DEF ResolveInv, Resolves
<1>6. CASE ListOutbounds
    <2>1. pc \in Placed /\ UNCHANGED <<template, xray, goal>>
        BY <1>6 DEF ListOutbounds, Placed
    <2>2. pc' \in {"add", "idle"} /\ (pc' = "add" => present' = xray.outs)
        BY <1>6 DEF ListOutbounds
    <2> QED BY <2>1, <2>2 DEF ResolveInv, Resolves, Placed
<1>7. CASE AddOutbounds
    <2>1. PICK o \in SUBSET Tag : xray' = [xray EXCEPT !.outs = xray.outs \cup o]
                                  /\ (pc' = "replace" => o = goal.outs \ present)
        <3>1. CASE xray' = [xray EXCEPT !.outs = @ \cup (goal.outs \ present)]
            BY <1>b, <3>1
        <3>2. ASSUME NEW part \in SUBSET (goal.outs \ present), pc' = "idle",
                     xray' = [xray EXCEPT !.outs = IF Answers THEN @ \cup part ELSE @]
              PROVE  \E o \in SUBSET Tag : xray' = [xray EXCEPT !.outs = xray.outs \cup o]
                                           /\ (pc' = "replace" => o = goal.outs \ present)
            <4>1. xray.outs = xray.outs \cup {} /\ {} \in SUBSET Tag /\ part \in SUBSET Tag
                BY <1>b
            <4>2. CASE Answers
                BY <3>2, <4>1, <4>2
            <4>3. CASE ~Answers
                BY <3>2, <4>1, <4>3
            <4> QED BY <4>2, <4>3
        <3> QED BY <1>7, <3>1, <3>2 DEF AddOutbounds
    <2>2. xray'.outs = xray.outs \cup o /\ xray'.rules = xray.rules
        BY <1>0, <2>1 DEF XrayType
    <2>3. pc = "add" /\ pc' \in {"replace", "idle"} /\ UNCHANGED <<template, goal, present>>
        BY <1>7 DEF AddOutbounds
    <2>4. pc' = "replace" => goal.outs \subseteq xray'.outs
        BY <2>1, <2>2, <2>3 DEF ResolveInv
    <2> QED BY <2>2, <2>3, <2>4 DEF ResolveInv, Resolves, Placed
<1>8. CASE ReplaceRules
    <2>1. PICK r \in Table \cup {Lost} : /\ xray' = [xray EXCEPT !.rules = r]
                                         /\ r \in {xray.rules, goal.rules, Lost}
                                         /\ pc' = "remove" => r = goal.rules
        <3>1. CASE xray' = xray
            <4>1. xray' = [xray EXCEPT !.rules = xray.rules]
                BY <1>0, <3>1 DEF XrayType
            <4> QED BY <1>8, <1>b, <3>1, <4>1 DEF ReplaceRules
        <3> QED BY <1>8, <1>b, <3>1 DEF ReplaceRules
    <2>2. xray'.outs = xray.outs /\ xray'.rules = r
        BY <1>0, <2>1 DEF XrayType
    <2>3. pc = "replace" /\ pc' \in {"remove", "check"} /\ UNCHANGED <<template, goal, present>>
        BY <1>8 DEF ReplaceRules
    <2>4. goal.outs \subseteq xray.outs
        BY <2>3 DEF ResolveInv
    <2> QED BY <2>1, <2>2, <2>3, <2>4 DEF ResolveInv, Resolves, Placed
<1>9. CASE CheckTable
    BY <1>9 DEF CheckTable, ResolveInv, Resolves, Placed
<1>10. CASE RemoveOutbounds
    <2>1. PICK o \in SUBSET Tag : xray' = [xray EXCEPT !.outs = xray.outs \ o]
                                  /\ o \cap goal.outs = {}
        <3>1. CASE xray' = [xray EXCEPT !.outs = @ \ (present \ goal.outs)]
            <4>1. present \ goal.outs \in SUBSET Tag /\ (present \ goal.outs) \cap goal.outs = {}
                BY <1>b
            <4> QED BY <3>1, <4>1
        <3>2. ASSUME NEW part \in SUBSET (present \ goal.outs),
                     xray' = [xray EXCEPT !.outs = IF Answers THEN @ \ part ELSE @]
              PROVE  \E o \in SUBSET Tag : xray' = [xray EXCEPT !.outs = xray.outs \ o]
                                           /\ o \cap goal.outs = {}
            <4>1. xray.outs = xray.outs \ {} /\ {} \in SUBSET Tag /\ part \in SUBSET Tag
                  /\ part \cap goal.outs = {} /\ {} \cap goal.outs = {}
                BY <1>b
            <4>2. CASE Answers
                BY <3>2, <4>1, <4>2
            <4>3. CASE ~Answers
                BY <3>2, <4>1, <4>3
            <4> QED BY <4>2, <4>3
        <3> QED BY <1>10, <3>1, <3>2 DEF RemoveOutbounds
    <2>2. xray'.outs = xray.outs \ o /\ xray'.rules = xray.rules
        BY <1>0, <2>1 DEF XrayType
    <2>3. pc = "remove" /\ pc' = "idle" /\ UNCHANGED <<template, goal, present>>
        BY <1>10 DEF RemoveOutbounds
    <2>4. goal.outs \subseteq xray'.outs /\ xray'.rules = goal.rules
        BY <2>1, <2>2, <2>3 DEF ResolveInv
    <2> QED BY <2>3, <2>4 DEF ResolveInv, Resolves, Placed
<1>11. CASE XrayListens
    <2>1. xray'.outs = xray.outs /\ xray'.rules = xray.rules
        BY <1>0, <1>11 DEF XrayListens, XrayType
    <2>2. UNCHANGED <<template, goal, present, pc>>
        BY <1>11 DEF XrayListens
    <2> QED BY <2>1, <2>2 DEF ResolveInv, Resolves
<1>12. CASE OthersRestart
    <2>1. xray'.outs = template.outs /\ xray'.rules = template.rules
        BY <1>0, <1>12, StartedTyped DEF OthersRestart
    <2>2. UNCHANGED <<template, goal, present, pc>>
        BY <1>12 DEF OthersRestart
    <2> QED BY <2>1, <2>2 DEF ResolveInv, Resolves, Placed
<1>13. CASE InboundChanges \/ NewTarget \/ UNCHANGED vars
    <2>1. UNCHANGED <<template, xray, goal, present, pc>>
        BY <1>13 DEF InboundChanges, NewTarget, vars
    <2> QED BY <2>1 DEF ResolveInv, Resolves
<1>14. CASE Crash
    BY <1>14 DEF Crash, ResolveInv, Resolves, Placed
<1> QED BY <1>1, <1>2, <1>3, <1>4, <1>5, <1>6, <1>7, <1>8, <1>9, <1>10, <1>11, <1>12, <1>13,
           <1>14 DEF Next, Step

\* What the proof of RulesResolve carries along: the types, the counted edits, and
\* without an edit the order above.
EditInv == TypeOK /\ faults \in [FaultKind -> Nat] /\ (faults["edit"] = 0 => ResolveInv)

\* From a template whose rules resolve, and without an operator's edit, every rule of
\* the running Xray names an outbound it has, at every step of a pass, after a failure
\* of any of them and after any restart (hotUpdate: added before the rules point at it,
\* removed after they no longer do).
THEOREM RunningRulesResolve == Spec /\ Resolves(template) => []RulesResolve
<1>1. Init /\ Resolves(template) => EditInv
    <2> SUFFICES ASSUME Init, Resolves(template) PROVE EditInv
        OBVIOUS
    <2>1. TypeOK /\ xray.outs = template.outs /\ xray.rules = template.rules
        BY InitTyped
    <2>2. pc = "idle" /\ goal = template /\ faults \in [FaultKind -> Nat]
        BY DEF Init
    <2> QED BY <2>1, <2>2 DEF EditInv, ResolveInv, Resolves, Placed
<1>2. EditInv /\ [Next]_vars => EditInv'
    <2> SUFFICES ASSUME EditInv, [Next]_vars PROVE EditInv'
        OBVIOUS
    <2>1. TypeOK'
        <3>1. CASE UNCHANGED vars
            BY <3>1 DEF vars, TypeOK, EditInv
        <3> QED BY <3>1, StepTyped DEF EditInv
    <2>2. faults' \in [FaultKind -> Nat]
          /\ (faults'["edit"] = 0 => faults["edit"] = 0 /\ ~OperatorEdits)
        BY EditsCount DEF EditInv
    <2>3. ASSUME faults'["edit"] = 0 PROVE ResolveInv'
        BY <2>2, <2>3, ResolveKept DEF EditInv
    <2> QED BY <2>1, <2>2, <2>3 DEF EditInv
<1>3. EditInv => RulesResolve
    BY DEF EditInv, ResolveInv, RulesResolve
<1> QED BY <1>1, <1>2, <1>3, PTL DEF Spec

-----------------------------------------------------------------------------
(* What a reported success says. *)

\* What only a restart changes is as the pass wants it.
RightStart(c) == c.first = goal.first /\ c.builtin = goal.builtin /\ c.service

\* Undisturbed, a pass that hot-updates Xray has a process that was started right, and
\* knows which outbounds it has.
ReportInv ==
    /\ pc # "idle" => goal.builtin /\ goal.service
    /\ pc \in Placed /\ ~disturbed => template = goal
    /\ pc \in {"save", "verify"} /\ ~disturbed =>
          (~NeedsRestart(running, goal) => ~NeedsRestart(xray.cfg, goal))
    /\ pc = "await" /\ ~disturbed => xray.cfg = goal
    /\ pc \in {"list", "add", "replace", "remove"} /\ ~disturbed => RightStart(xray.cfg)
    /\ pc = "add" /\ ~disturbed => xray.outs \in {present, goal.outs}
    /\ pc \in {"replace", "remove"} /\ ~disturbed => xray.outs \in {present \cup goal.outs, goal.outs}
    /\ pc = "remove" /\ ~disturbed => xray.rules = goal.rules

\* A step keeps what the pass knows of the running Xray.
LEMMA ReportKept ==
    ASSUME TypeOK, ReportInv, [Next]_vars
    PROVE  ReportInv'
<1> USE DEF world, pass, Return
<1>0. template \in Config /\ xray \in XrayType /\ goal \in Config
    BY DEF TypeOK, XrayType
<1>b. xray.outs \subseteq Tag /\ goal.outs \subseteq Tag /\ goal.rules \in Table /\ goal.rules # Lost
      /\ xray.rules \in Table \cup {Lost} /\ present \subseteq Tag
    BY <1>0, XrayTyped, StartedTyped DEF TypeOK
<1>1. CASE Begin
    <2>1. CASE pc' = "idle"
        BY <2>1 DEF ReportInv, Placed
    <2>2. CASE pc' # "idle"
        <3>1. goal' = Managed(wish) /\ running' = xray.cfg /\ UNCHANGED <<template, xray>>
              /\ (IF template = goal' THEN AfterTemplate(running', goal') ELSE pc' = "save")
            BY <1>1, <2>2 DEF Begin
        <3>2. goal'.builtin /\ goal'.service
            BY <1>1, <3>1, ManagedTyped DEF Begin
        <3>3. CASE template # goal'
            <4>1. pc' = "save" /\ xray'.cfg = running'
                BY <3>1, <3>3
            <4> QED BY <3>2, <4>1 DEF ReportInv, Placed
        <3>4. CASE template = goal' /\ NeedsRestart(running', goal')
            BY <3>1, <3>2, <3>4 DEF ReportInv, AfterTemplate
        <3>5. CASE template = goal' /\ ~NeedsRestart(running', goal')
            <4>1. pc' = "list"
                BY <3>1, <3>5 DEF AfterTemplate
            <4>2. RightStart(xray.cfg)'
                BY <3>1, <3>5 DEF NeedsRestart, RightStart
            <4> QED BY <3>1, <3>2, <3>5, <4>1, <4>2 DEF ReportInv
        <3> QED BY <3>3, <3>4, <3>5
    <2> QED BY <2>1, <2>2
<1>2. CASE Save
    <2>1. pc = "save" /\ pc' \in {"idle", "verify"} /\ UNCHANGED <<xray, goal, running, disturbed>>
          /\ (pc' = "verify" => template' = goal)
        BY <1>2 DEF Save
    <2>2. NeedsRestart(running, goal)' = NeedsRestart(running, goal)
          /\ NeedsRestart(xray.cfg, goal)' = NeedsRestart(xray.cfg, goal)
        BY <2>1 DEF NeedsRestart
    <2> QED BY <2>1, <2>2 DEF ReportInv, Placed
<1>3. CASE Verify
    <2>1. CASE pc' = "idle"
        BY <2>1 DEF ReportInv, Placed
    <2>2. CASE pc' # "idle"
        <3>1. template = goal /\ AfterTemplate(running, goal) /\ pc = "verify"
              /\ UNCHANGED <<template, xray, goal, running, present, disturbed>>
            BY <1>3, <2>2 DEF Verify
        <3>2. CASE NeedsRestart(running, goal)
            BY <3>1, <3>2 DEF AfterTemplate, ReportInv, Placed
        <3>3. CASE ~NeedsRestart(running, goal)
            <4>1. pc' = "list"
                BY <3>1, <3>3 DEF AfterTemplate
            <4>2. ~disturbed => RightStart(xray.cfg)
                BY <3>1, <3>3 DEF NeedsRestart, RightStart, ReportInv
            <4> QED BY <3>1, <4>1, <4>2 DEF ReportInv, RightStart
        <3> QED BY <3>2, <3>3
    <2> QED BY <2>1, <2>2
<1>4. CASE RequestRestart
    <2>1. CASE pc' = "idle"
        BY <2>1 DEF ReportInv, Placed
    <2>2. CASE pc' # "idle"
        <3>1. xray' = Started(template) /\ pc \in Placed /\ pc' \in {"await", "recovering"}
              /\ UNCHANGED <<template, goal, disturbed>>
            BY <1>4, <2>2 DEF RequestRestart, Placed
        <3>2. xray'.cfg = template
            BY <1>0, <3>1, StartedTyped
        <3> QED BY <3>1, <3>2 DEF ReportInv, Placed
    <2> QED BY <2>1, <2>2
<1>5. CASE AwaitXray
    <2>1. CASE pc' = "idle"
        BY <2>1 DEF ReportInv, Placed
    <2>2. CASE pc' # "idle"
        <3>1. pc = "await" /\ pc' = "list" /\ UNCHANGED <<template, xray, goal, disturbed>>
            BY <1>5, <2>2 DEF AwaitXray
        <3> QED BY <3>1 DEF ReportInv, RightStart, Placed
    <2> QED BY <2>1, <2>2
<1>6. CASE ListOutbounds
    <2>1. CASE pc' = "idle"
        BY <2>1 DEF ReportInv, Placed
    <2>2. CASE pc' # "idle"
        <3>1. pc = "list" /\ pc' = "add" /\ present' = xray.outs
              /\ UNCHANGED <<template, xray, goal, disturbed>>
            BY <1>6, <2>2 DEF ListOutbounds
        <3> QED BY <3>1 DEF ReportInv, RightStart, Placed
    <2> QED BY <2>1, <2>2
<1>7. CASE AddOutbounds
    <2>1. CASE pc' = "idle"
        BY <2>1 DEF ReportInv, Placed
    <2>2. CASE pc' # "idle"
        <3>1. xray' = [xray EXCEPT !.outs = xray.outs \cup (goal.outs \ present)]
              /\ pc = "add" /\ pc' = "replace" /\ UNCHANGED <<template, goal, present, disturbed>>
            BY <1>7, <2>2 DEF AddOutbounds
        <3>2. xray'.outs = xray.outs \cup (goal.outs \ present) /\ xray'.cfg = xray.cfg
            BY <1>0, <3>1 DEF XrayType
        <3>3. ~disturbed => xray'.outs \in {present \cup goal.outs, goal.outs}
            BY <1>b, <3>1, <3>2 DEF ReportInv
        <3> QED BY <3>1, <3>2, <3>3 DEF ReportInv, RightStart, Placed
    <2> QED BY <2>1, <2>2
<1>8. CASE ReplaceRules
    <2>1. pc = "replace" /\ UNCHANGED <<template, goal, present, disturbed>>
        BY <1>8 DEF ReplaceRules
    <2>2. CASE pc' = "check"
        BY <2>1, <2>2 DEF ReportInv, Placed
    <2>3. CASE pc' # "check"
        <3>1. xray' = [xray EXCEPT !.rules = goal.rules] /\ pc' = "remove"
            BY <1>8, <2>3 DEF ReplaceRules
        <3>2. xray'.outs = xray.outs /\ xray'.cfg = xray.cfg /\ xray'.rules = goal.rules
            BY <1>0, <3>1 DEF XrayType
        <3> QED BY <2>1, <3>1, <3>2 DEF ReportInv, RightStart, Placed
    <2> QED BY <2>2, <2>3
<1>9. CASE CheckTable
    BY <1>9 DEF CheckTable, ReportInv, Placed
<1>10. CASE RemoveOutbounds \/ Crash
    <2>1. pc' = "idle"
        BY <1>10 DEF RemoveOutbounds, Crash
    <2> QED BY <2>1 DEF ReportInv, Placed
<1>11. CASE XrayListens
    <2>1. xray'.outs = xray.outs /\ xray'.rules = xray.rules /\ xray'.cfg = xray.cfg
        BY <1>0, <1>11 DEF XrayListens, XrayType
    <2>2. UNCHANGED <<template, goal, running, present, pc, disturbed>>
        BY <1>11 DEF XrayListens
    <2> QED BY <2>1, <2>2 DEF ReportInv, RightStart, NeedsRestart
<1>12. CASE OthersRestart
    <2>1. xray'.outs = template.outs /\ xray'.rules = template.rules /\ xray'.cfg = template
        BY <1>0, <1>12, StartedTyped DEF OthersRestart
    <2>2. UNCHANGED <<template, goal, running, present, pc>>
        BY <1>12 DEF OthersRestart
    <2>3. ~disturbed' => ~disturbed /\ (~NeedsRestart(running, goal) => ~NeedsRestart(template, goal))
        BY <1>12 DEF OthersRestart
    <2>4. CASE pc \in {"save", "verify"}
        <3>1. NeedsRestart(running, goal)' = NeedsRestart(running, goal)
              /\ NeedsRestart(xray.cfg, goal)' = NeedsRestart(template, goal)
            BY <2>1, <2>2 DEF NeedsRestart
        <3> QED BY <2>2, <2>3, <2>4, <3>1 DEF ReportInv, Placed
    <2>5. CASE pc \notin {"save", "verify"}
        BY <2>1, <2>2, <2>3, <2>5 DEF ReportInv, RightStart, Placed
    <2> QED BY <2>4, <2>5
<1>13. CASE OperatorEdits \/ InboundChanges
    <2>1. disturbed' /\ UNCHANGED <<pc, goal>>
        BY <1>13 DEF OperatorEdits, InboundChanges
    <2> QED BY <2>1 DEF ReportInv
<1>14. CASE NewTarget \/ UNCHANGED vars
    <2>1. UNCHANGED <<template, xray, goal, running, present, pc, disturbed>>
        BY <1>14 DEF NewTarget, vars
    <2> QED BY <2>1 DEF ReportInv, RightStart, NeedsRestart
<1> QED BY <1>1, <1>2, <1>3, <1>4, <1>5, <1>6, <1>7, <1>8, <1>9, <1>10, <1>11, <1>12, <1>13,
           <1>14 DEF Next, Step

\* Success is reported by the last step of a pass alone.
LEMMA SuccessIsLast ==
    ASSUME Next, pc # "idle", pc' = "idle", code' = "ok"
    PROVE  RemoveOutbounds
<1> USE DEF Return
<1>1. CASE Begin \/ Save \/ Verify \/ ListOutbounds
    BY <1>1 DEF Begin, Save, Verify, ListOutbounds, AfterTemplate
<1>2. CASE AddOutbounds \/ CheckTable \/ Crash
    BY <1>2 DEF AddOutbounds, CheckTable, Crash
<1>3. CASE RequestRestart \/ AwaitXray
    BY <1>3 DEF RequestRestart, AwaitXray, RestartCode
<1>4. CASE ReplaceRules \/ XrayListens \/ OthersRestart \/ OperatorEdits \/ InboundChanges \/ NewTarget
    BY <1>4 DEF ReplaceRules, XrayListens, OthersRestart, OperatorEdits, InboundChanges, NewTarget
<1> QED BY <1>1, <1>2, <1>3, <1>4 DEF Next, Step

\* A pass that reports success leaves the template and the running Xray in its target,
\* whatever earlier passes left half done and whatever of its own steps failed before,
\* however often Xray restarts (Module.apply).  Set aside, and false of the code there,
\* are passes overtaken in what they read: by an edit of the template, by a change of the
\* inbound, or by a restart between locate and SaveTemplate into a first outbound, into
\* built-in outbounds or without a service that only another restart would put right.
THEOREM SuccessIsTrue == Spec => ReportIsTrue
<1> DEFINE Told == (pc # "idle" /\ pc' = "idle" /\ code' = "ok" /\ ~disturbed) => Holds(goal)'
<1>1. Init => TypeOK /\ ReportInv
    <2> SUFFICES ASSUME Init PROVE TypeOK /\ ReportInv
        OBVIOUS
    <2>1. pc = "idle"
        BY DEF Init
    <2> QED BY <2>1, InitTyped DEF ReportInv, Placed
<1>2. TypeOK /\ ReportInv /\ [Next]_vars => (TypeOK /\ ReportInv)'
    <2> SUFFICES ASSUME TypeOK, ReportInv, [Next]_vars PROVE TypeOK' /\ ReportInv'
        OBVIOUS
    <2>1. TypeOK'
        <3>1. CASE UNCHANGED vars
            BY <3>1 DEF vars, TypeOK
        <3> QED BY <3>1, StepTyped
    <2> QED BY <2>1, ReportKept
<1>3. TypeOK /\ ReportInv /\ [Next]_vars => [Told]_vars
    <2> SUFFICES ASSUME TypeOK, ReportInv, Next, pc # "idle", pc' = "idle", code' = "ok", ~disturbed
                 PROVE  Holds(goal)'
        BY DEF vars
    <2>1. RemoveOutbounds
        BY SuccessIsLast
    <2>2. pc = "remove" /\ UNCHANGED <<template, goal>>
          /\ xray' = [xray EXCEPT !.outs = xray.outs \ (present \ goal.outs)]
        BY <2>1 DEF RemoveOutbounds, Return, pass
    <2>3. xray \in XrayType
        BY DEF TypeOK, XrayType
    <2>4. xray'.outs = xray.outs \ (present \ goal.outs) /\ xray'.cfg = xray.cfg
          /\ xray'.rules = xray.rules
        BY <2>2, <2>3 DEF XrayType
    <2>5. xray'.outs = goal.outs
        BY <2>2, <2>4 DEF ReportInv
    <2>6. template = goal /\ xray.rules = goal.rules /\ RightStart(xray.cfg) /\ goal.builtin
        BY <2>2 DEF ReportInv, Placed
    <2> QED BY <2>2, <2>4, <2>5, <2>6 DEF Holds, RightStart
<1> QED BY <1>1, <1>2, <1>3, PTL DEF Spec, ReportIsTrue
=============================================================================
