----------------------------- MODULE RateLimit -----------------------------
(***************************************************************************)
(* The rate limit (internal/modules/ratelimit): the filters and police     *)
(* actions it keeps in the kernel through tc, against connections that     *)
(* come and go, targets that change, commands of tc that fail part way,    *)
(* rules changed by hand and processes that end without cleaning up.       *)
(*                                                                         *)
(* Apply and Run work under one mutex, so one pass of sync runs at a time; *)
(* its steps are the removal and the convergence.  A filter is known by    *)
(* what it matches (handles number them without a gap), a police action by *)
(* its index and rate, and the two address families are alike.             *)
(***************************************************************************)
EXTENDS Naturals, FiniteSets, Functions

CONSTANTS
    Group,      \* Cloud's groups, as numbers in the order of their keys
    Client, Flow, Dev,  \* numbers too, in the order plan takes them
    Nobody,     \* who has a flow that is closed
    Target,     \* the targets Cloud sends: [rate, emails]
    Unusable,   \* a target the engine could not decode (nil)
    Absent,     \* no target for a group
    Foreign,    \* interfaces that carry other filters on their clsact hook
    MaxUsers,   \* police indexes (maxUsers)
    MaxFilters, \* filters (maxFilters)
    MaxFaults,  \* how often each event from outside happens
    MaxTotal    \* and all of them together

Index == 1..MaxUsers
Rule == [dev : Dev, flow : Flow]
NoLimit == [rate |-> 0, emails |-> {}]
Failed == "apply_failed"
LogUnavailable == "log_unavailable"
FaultKind == {"target", "flow", "route", "log", "hand", "tc", "stop", "crash"}

ASSUME LimitAssumption ==
    /\ Group \subseteq Nat \ {0} /\ IsFiniteSet(Group)
    /\ Client \subseteq Nat /\ Flow \subseteq Nat /\ IsFiniteSet(Flow)
    /\ Dev \subseteq Nat /\ IsFiniteSet(Dev)
    /\ MaxUsers \in Nat \ {0} /\ MaxFilters \in Nat /\ Nobody \notin Client
    /\ Target \subseteq [rate : Nat, emails : SUBSET Client]
    /\ Unusable \notin Target /\ Absent \notin Target \cup {Unusable}
    /\ Foreign \subseteq Dev /\ MaxFaults \in [FaultKind -> Nat] /\ MaxTotal \in Nat

VARIABLES
    targets,    \* what the engine hands to Apply
    client,     \* the ledger: the client of each flow
    routes,     \* the interfaces of the default routes
    logErr,     \* the ledger cannot find all connections (Flows.Err)
    hook,       \* interfaces with a clsact hook
    filters,    \* the module's filters in the kernel: rule to police index
    rate,       \* its police actions in the kernel: index to rate, 0 for none
    linger,     \* indexes the kernel has not released yet
    on,         \* this process runs the module, or only Leftovers
    limits, clean, code,   \* Limiter
    books,      \* its rules: what it installed, as far as it knows
    pc,         \* where the pass of sync is
    applying,   \* the pass is Apply's, not Run's
    report,     \* the codes the last Apply returned
    touched,    \* someone changed rules by hand during this pass
    faults

kernel == <<hook, filters, rate, linger>>
world == <<targets, client, routes, logErr>>
process == <<on, limits, clean, code, books, pc, applying>>
reports == <<report, touched>>
vars == <<world, kernel, process, reports, faults>>

Fault(k) ==
    /\ faults[k] < MaxFaults[k] /\ SumFunction(faults) < MaxTotal
    /\ faults' = [faults EXCEPT ![k] = @ + 1]

NoRules == [r \in {} |-> 0]
NewBooks == [hooks |-> {}, actions |-> [g \in Group |-> 0], rates |-> [i \in Index |-> 0],
             filters |-> NoRules, orphans |-> {}]

\* An earlier process may have left rules behind; RouteChanges takes the routes away.
Init ==
    /\ targets = [g \in Group |-> Absent] /\ client = [f \in Flow |-> Nobody]
    /\ routes = Dev /\ logErr = FALSE
    /\ \E left \in SUBSET Rule :
        /\ filters = [r \in left |-> 1] /\ hook = Foreign \cup {r.dev : r \in left}
        /\ rate = [i \in Index |-> IF left # {} /\ i = 1 THEN 1 ELSE 0]
    /\ linger = {}
    /\ on = TRUE /\ limits = [g \in Group |-> NoLimit] /\ clean = FALSE /\ code = ""
    /\ books = NewBooks /\ pc = "idle" /\ applying = FALSE
    /\ report = [g \in Group |-> ""] /\ touched = FALSE /\ faults = [k \in FaultKind |-> 0]

-----------------------------------------------------------------------------
(* plan and assign. *)

\* The group whose limit a client follows: the lowest, the first of equal ones.
Owner(c) ==
    LET named == {g \in Group : c \in limits[g].emails} IN
    IF named = {} THEN 0
    ELSE CHOOSE g \in named : \A h \in named \ {g} :
            \/ limits[g].rate < limits[h].rate
            \/ limits[g].rate = limits[h].rate /\ g < h

Limited == {g \in Group : limits[g] # NoLimit}
GroupOf(r) == Owner(client[r.flow])

\* A filter for every flow of a limited client on every interface, were there no bound.
Wanted == {r \in Rule : r.dev \in routes /\ GroupOf(r) # 0}

\* plan goes through the groups, in each through its clients, their flows and the
\* interfaces.
Precedes(r, s) ==
    \/ GroupOf(r) < GroupOf(s)
    \/ /\ GroupOf(r) = GroupOf(s)
       /\ \/ client[r.flow] < client[s.flow]
          \/ /\ client[r.flow] = client[s.flow]
             /\ r.flow < s.flow \/ (r.flow = s.flow /\ r.dev < s.dev)

\* The rules it takes until there are MaxFilters.
plan ==
    LET first == {r \in Wanted : Cardinality({s \in Wanted : Precedes(s, r)}) < MaxFilters} IN
    [r \in first |-> GroupOf(r)]

\* The groups it comes to before it stops at a rule too many: those with a rate.
Reached == {g \in Limited : Cardinality({r \in Wanted : GroupOf(r) < g}) <= MaxFilters}

\* The index a group has, or the lowest free one in the order of the newcomers; those
\* in use before and those being released are not free.
assign(orphans) ==
    LET newcomers == {g \in Reached : books.actions[g] = 0}
        free == Index \ (orphans \cup Range(books.actions))
        Takes(g, i) == Cardinality({h \in newcomers : h < g}) = Cardinality({j \in free : j < i}) IN
    [g \in Group |-> IF g \notin Reached THEN 0
                     ELSE IF g \notin newcomers THEN books.actions[g]
                     ELSE IF \E i \in free : Takes(g, i) THEN CHOOSE i \in free : Takes(g, i) ELSE 0]

-----------------------------------------------------------------------------
(* The end of a pass: sync returns; Apply reports. *)

\* Mutant: a failed removal is reported for the limited groups only.
FinishConfirmsReleases(error, newCode) ==
    /\ pc' = "idle" /\ code' = newCode
    /\ report' = IF ~applying THEN report
                 ELSE [g \in Group |-> IF limits[g] # NoLimit THEN newCode ELSE ""]
Finish(error, newCode) ==
    /\ pc' = "idle" /\ code' = newCode
    /\ report' = IF ~applying THEN report
                 ELSE [g \in Group |-> IF error THEN Failed
                                       ELSE IF limits[g] # NoLimit THEN newCode ELSE ""]

\* What an index loses its last filter to stays busy for a moment.
Released(new) == {i \in Range(filters) : i \notin Range(new)}

\* cleanup: filters, hooks nothing else uses and actions, on every interface; or it
\* fails, and any of the filters, of the hooks and of the actions remain.
Cleanup(ok) ==
    IF ok THEN /\ filters' = NoRules /\ rate' = [i \in Index |-> 0] /\ linger' = {}
               /\ hook' = hook \cap Foreign
    ELSE /\ \E rest \in SUBSET DOMAIN filters : filters' = Restrict(filters, rest)
         /\ linger' = linger \cup Released(filters')
         /\ \E gone \in SUBSET (hook \ (Foreign \cup {r.dev : r \in DOMAIN filters'})) :
                hook' = hook \ gone
         /\ \E gone \in SUBSET {i \in Index \ Range(filters') : rate[i] # 0} :
                rate' = [i \in Index |-> IF i \in gone THEN 0 ELSE rate[i]]

\* Mutant: the limiter counts as clean although rules remain.
RemoveForgets(ok) == Cleanup(ok) /\ clean' = TRUE /\ books' = NewBooks
\* removeAll: the books are empty before the cleanup is known to have worked.
removeAll(ok) == Cleanup(ok) /\ clean' = ok /\ books' = NewBooks

TC(ok) == IF ok THEN UNCHANGED faults ELSE Fault("tc")

-----------------------------------------------------------------------------
(* One pass: Apply or a tick of Run, then sync. *)

\* drifted: on an interface it knows, the number of filters is not the one it installed.
Drifted == \E d \in books.hooks :
    Cardinality({r \in DOMAIN filters : r.dev = d})
        # Cardinality({r \in DOMAIN books.filters : r.dev = d})

\* What Apply makes of a target; an unusable one keeps what the group had.
LimitOf(g) ==
    CASE targets[g] = Absent -> NoLimit
      [] targets[g] = Unusable -> limits[g]
      [] OTHER -> IF targets[g].rate > 0 /\ targets[g].emails # {} THEN targets[g] ELSE NoLimit

\* unreadable: tc cannot show the filters, which counts as drift.
Apply ==
    /\ on /\ pc = "idle"
    /\ limits' = [g \in Group |-> LimitOf(g)]
    /\ \E unreadable \in {u \in BOOLEAN : u => clean /\ books.hooks # {}} :
        /\ TC(~unreadable)
        /\ clean' = (clean /\ ~unreadable /\ ~Drifted)
    /\ pc' = IF clean' THEN "converge" ELSE "remove"
    /\ applying' = TRUE /\ touched' = FALSE
    /\ UNCHANGED <<world, kernel, on, code, books, report>>

\* After a failure the rules are gone and Apply retries.
Tick ==
    /\ on /\ pc = "idle" /\ code # Failed
    /\ pc' = IF clean THEN "converge" ELSE "remove"
    /\ applying' = FALSE /\ touched' = FALSE
    /\ UNCHANGED <<world, kernel, on, limits, clean, code, books, report, faults>>

\* sync, while not clean.
SyncRemoves ==
    /\ pc = "remove"
    /\ \E ok \in BOOLEAN :
        /\ TC(ok) /\ removeAll(ok)
        /\ IF ok THEN pc' = "converge" /\ UNCHANGED <<code, report>> ELSE Finish(TRUE, Failed)
    /\ UNCHANGED <<world, on, limits, applying, touched>>

\* want without a default route: everything is removed.
WantFails ==
    /\ pc = "converge" /\ Limited # {} /\ routes = {}
    /\ pc' = "give_up" /\ code' = Failed
    /\ UNCHANGED <<world, kernel, on, limits, clean, books, applying, reports, faults>>

\* Deleting an orphan's action fails while the kernel still holds it.
Busy == books.orphans \cap (linger \cup Range(filters))

\* The commands converge puts into its batch: actions of new or changed rate, filters to
\* delete, filters to add.
Batch(want) ==
    LET index == assign(Busy)
        At(r) == IF r \in DOMAIN want THEN index[want[r]] ELSE 0 IN
    [index |-> index,
     devs |-> {r.dev : r \in {x \in DOMAIN want : At(x) # 0}},
     changed |-> {g \in Group : /\ index[g] # 0
                                /\ \/ books.actions[g] # index[g]
                                   \/ books.rates[index[g]] # limits[g].rate},
     dels |-> {r \in DOMAIN books.filters : At(r) # books.filters[r]},
     adds |-> {r \in DOMAIN want :
                 At(r) # 0 /\ ~(r \in DOMAIN books.filters /\ books.filters[r] = At(r))}]

\* What precedes the filters: orphans deleted, hooks it does not know and does not
\* find, actions of the groups.
Prepare(b, devs, groups) ==
    /\ hook' = hook \cup devs
    /\ rate' = [i \in Index |->
                  IF \E g \in groups : b.index[g] = i
                  THEN limits[CHOOSE g \in groups : b.index[g] = i].rate
                  ELSE IF i \in books.orphans \ Busy THEN 0 ELSE rate[i]]

\* The filters after deleting some and adding some of the batch.
Changed(want, b, deleted, added) ==
    [r \in (DOMAIN filters \ deleted) \cup added |->
        IF r \in added THEN b.index[want[r]] ELSE filters[r]]

\* A filter that is there can be deleted; one that is not can be added, under a hook.
Deletable(b) == b.dels \cap DOMAIN filters
Addable(b) == {r \in b.adds : /\ r.dev \in hook \cup (b.devs \ books.hooks)
                              /\ r \notin DOMAIN filters \ b.dels}

\* converge: the batch runs to its end and is recorded.
Converge ==
    /\ pc = "converge" /\ (Limited # {} => routes # {})
    /\ \E want \in {plan} : \E b \in {Batch(want)} :
        /\ UNCHANGED <<world, on, limits, clean, applying, touched, faults>>
        /\ Deletable(b) = b.dels /\ Addable(b) = b.adds
        /\ Prepare(b, b.devs \ books.hooks, b.changed)
        /\ filters' = Changed(want, b, b.dels, b.adds)
        /\ linger' = linger \cup Released(filters')
        /\ books' = [hooks |-> books.hooks \cup b.devs,
                     actions |-> b.index,
                     rates |-> [i \in Index |->
                                  IF \E g \in Group : b.index[g] = i
                                  THEN limits[CHOOSE g \in Group : b.index[g] = i].rate
                                  ELSE IF i \in Range(books.actions) THEN 0 ELSE books.rates[i]],
                     filters |-> [r \in (DOMAIN books.filters \ b.dels) \cup b.adds |->
                                    IF r \in b.adds THEN b.index[want[r]] ELSE books.filters[r]],
                     orphans |-> Busy \cup {books.actions[g] : g \in
                                    {h \in Group : books.actions[h] \notin {0, b.index[h]}}}]
        /\ Finish(FALSE, IF Limited # {} /\ logErr THEN LogUnavailable ELSE "")

\* The batch stops part way, at a command the kernel refuses or because tc fails.
ConvergeFails ==
    /\ pc = "converge" /\ (Limited # {} => routes # {})
    /\ \E want \in {plan} : \E b \in {Batch(want)} :
        /\ pc' = "give_up" /\ code' = Failed
        /\ UNCHANGED <<world, on, limits, clean, books, applying, reports>>
        /\ TC(Deletable(b) # b.dels \/ Addable(b) # b.adds)
        /\ \E devs \in SUBSET (b.devs \ books.hooks), groups \in SUBSET b.changed,
              deleted \in SUBSET Deletable(b), added \in SUBSET Addable(b) :
            /\ groups # {} => devs = b.devs \ books.hooks
            /\ deleted \cup added # {} => devs = b.devs \ books.hooks /\ groups = b.changed
            /\ added # {} => deleted = b.dels
            /\ Prepare(b, devs, groups)
            /\ filters' = Changed(want, b, deleted, added)
        /\ linger' = linger \cup Released(filters')

\* removeAll after a failure; only its own failure is sync's.
GiveUp ==
    /\ pc = "give_up"
    /\ \E ok \in BOOLEAN : TC(ok) /\ removeAll(ok) /\ Finish(~ok, code)
    /\ UNCHANGED <<world, on, limits, applying, touched>>

-----------------------------------------------------------------------------
(* Processes: the module is on or off in the next one. *)

NewProcess ==
    /\ on' \in BOOLEAN /\ limits' = [g \in Group |-> NoLimit] /\ clean' = FALSE /\ code' = ""
    /\ books' = NewBooks /\ pc' = "idle" /\ applying' = FALSE
    /\ UNCHANGED <<world, reports>>

\* Run's context ends: everything is removed on the way out, as far as tc allows.
Stop ==
    /\ on /\ pc = "idle"
    /\ \E ok \in BOOLEAN : Cleanup(ok)
    /\ Fault("stop") /\ NewProcess

\* An update's exec or a crash, also in the middle of a pass.
Crash == Fault("crash") /\ NewProcess /\ UNCHANGED kernel

\* Mutant: one attempt, whatever comes of it.
LeftoversOnce ==
    /\ ~on /\ ~clean
    /\ \E ok \in BOOLEAN : TC(ok) /\ Cleanup(ok) /\ clean' = TRUE /\ books' = NewBooks
    /\ UNCHANGED <<world, on, limits, code, pc, applying, reports>>
\* Leftovers.Run, until a cleanup succeeds.
Leftovers ==
    /\ ~on /\ ~clean
    /\ \E ok \in BOOLEAN : TC(ok) /\ removeAll(ok)
    /\ UNCHANGED <<world, on, limits, code, pc, applying, reports>>

-----------------------------------------------------------------------------
(* The world. *)

CloudSets ==
    /\ Fault("target")
    /\ \E g \in Group, t \in Target \cup {Unusable, Absent} : targets' = [targets EXCEPT ![g] = t]
    /\ UNCHANGED <<client, routes, logErr, kernel, process, reports>>

\* A connection opens, closes, or its addresses pass to another client.
FlowChanges ==
    /\ Fault("flow")
    /\ \E f \in Flow, c \in Client \cup {Nobody} : client' = [client EXCEPT ![f] = c]
    /\ UNCHANGED <<targets, routes, logErr, kernel, process, reports>>

RouteChanges ==
    /\ Fault("route") /\ routes' \in SUBSET Dev
    /\ UNCHANGED <<targets, client, logErr, kernel, process, reports>>

LogChanges ==
    /\ Fault("log") /\ logErr' = ~logErr
    /\ UNCHANGED <<targets, client, routes, kernel, process, reports>>

\* Someone removes one filter, or the hook of an interface with all on it.
ChangedByHand ==
    /\ Fault("hand")
    /\ \/ /\ \E r \in DOMAIN filters : filters' = Restrict(filters, DOMAIN filters \ {r})
          /\ UNCHANGED hook
       \/ \E d \in hook :
            /\ hook' = hook \ {d}
            /\ filters' = Restrict(filters, {r \in DOMAIN filters : r.dev # d})
    /\ linger' = linger \cup Released(filters') /\ touched' = TRUE
    /\ UNCHANGED <<world, rate, process, report>>

KernelReleases ==
    /\ linger # {} /\ linger' = {}
    /\ UNCHANGED <<world, hook, filters, rate, process, reports, faults>>

Next ==
    \/ Apply \/ Tick \/ SyncRemoves \/ WantFails \/ Converge \/ ConvergeFails \/ GiveUp
    \/ Stop \/ Crash \/ Leftovers
    \/ CloudSets \/ FlowChanges \/ RouteChanges \/ LogChanges \/ ChangedByHand \/ KernelReleases

Spec == Init /\ [][Next]_vars

Pass == SyncRemoves \/ WantFails \/ Converge \/ ConvergeFails \/ GiveUp
\* The engine applies again after a failure and every few minutes, a pass
\* ends, and Leftovers retries.  What Run does in between is not needed.
FairSpec == /\ Spec
            /\ SF_vars(Apply) /\ WF_vars(Pass) /\ WF_vars(Leftovers)
            /\ WF_vars(KernelReleases)

-----------------------------------------------------------------------------
(* Properties. *)

\* Every policed flow belongs to a client a limit names, at the rate of the lowest such
\* limit, and flows share a police action exactly when they share a group.
Rightful ==
    \A r \in DOMAIN filters :
        /\ GroupOf(r) # 0
        /\ rate[filters[r]] = limits[GroupOf(r)].rate
        /\ \A s \in DOMAIN filters :
              (filters[s] = filters[r]) <=> (GroupOf(s) = GroupOf(r))

PassEnds == pc # "idle" /\ pc' = "idle" /\ faults'["crash"] = faults["crash"]

\* When a pass ends and the limiter counts as clean, nobody is policed who is not
\* limited, and nobody at another's rate: after failed batches, changes by hand, indexes
\* released and taken again, and a process that left rules behind (sync, converge).
PolicesOnlyLimited == [][PassEnds /\ clean' => Rightful']_vars

\* There is a free index for every group that has none: past maxUsers assign leaves a
\* group without one, unlimited, and says nothing.
Room == Cardinality({g \in Reached : books.actions[g] = 0})
            <= Cardinality(Index \ (Busy \cup Range(books.actions)))

\* The flows of a group and of those before it fit: past maxFilters plan leaves further
\* connections unlimited, and says nothing.
Fits(g) == Cardinality({r \in Wanted : GroupOf(r) <= g}) <= MaxFilters

\* A limit or a release Apply confirms is true in the kernel: with an empty code for a
\* group without a limit nothing is policed that no limit names, and with one for a
\* limited group all its flows on every interface are policed, while there is an index
\* for every group and maxFilters is not reached before the last of its flows ("Cloud must
\* not show a user as unlimited while still limited").
ReportIsTrue ==
    [][PassEnds /\ applying =>
        \A g \in Group : report'[g] = "" =>
            /\ (limits[g] = NoLimit => Rightful')
            /\ ~touched /\ Room /\ Fits(g) =>
                  \A r \in Wanted : GroupOf(r) = g => r \in DOMAIN filters' /\ Rightful']_vars

\* What the node should come to: exactly the flows the plan has for the current limits
\* policed, and nothing of the module's left where it is off or has no route to police on.
Settled ==
    IF on THEN /\ \A g \in Group : targets[g] # Unusable => limits[g] = LimitOf(g)
               /\ DOMAIN filters = DOMAIN plan /\ Rightful
    ELSE filters = NoRules /\ \A i \in Index : rate[i] = 0

\* Once nothing else changes, the kernel holds exactly the current limits, or nothing
\* where the module is off (Apply's repair of drift, Run, Leftovers).
NodeLimits == <>[]Settled
=============================================================================
