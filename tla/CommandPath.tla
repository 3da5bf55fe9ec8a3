----------------------------- MODULE CommandPath -----------------------------
(***************************************************************************)
(* The life of a command: Cloud offers it, the transport client takes a    *)
(* lifecycle lease and answers operation.accepted, Cloud's accepted_ack    *)
(* authorises one execution, the executor journals it, runs or recovers it *)
(* and journals the result, and the client sends operation.result.         *)
(*                                                                         *)
(*   internal/transport/client.go    sessions, pending, running, results   *)
(*   internal/lifecycle/gate.go      leases against the updater            *)
(*   internal/operation/executor.go  one goroutine per accepted command    *)
(*   internal/operation/engine.go    the journal (module Journal)          *)
(*   internal/state/json_file.go     a save may fail after its rename      *)
(*                                                                         *)
(* Cloud is external: it is modelled by the contract docs/PROTOCOL.md      *)
(* states and the code relies on.  The Agent's process, the session and    *)
(* the disk may fail; each kind of fault has a budget in MaxFaults.        *)
(***************************************************************************)
EXTENDS Journal, Integers, FiniteSets

CONSTANTS
    Declinable,   \* commands whose module may not be Accepting (ChangeIP)
    MaxFaults,    \* how often each kind of fault happens
    MaxOffers     \* offers of one command Cloud may have in flight

FaultKind == {"break", "crash", "save", "update"}
ASSUME CommandFinite == IsFiniteSet(Command)
ASSUME DeclinableType == Declinable \subseteq Command
ASSUME MaxFaultsType == MaxFaults \in [FaultKind -> Nat]
ASSUME MaxOffersType == MaxOffers \in Nat \ {0}

VARIABLES
    disk,        \* the journal file
    mem,         \* Engine.snapshot
    exec,        \* the goroutine of each accepted command: phase and result
    registered,  \* Executor.running
    running,     \* Client.running
    pending,     \* Client.pending
    leases,      \* Gate.operations
    updating,    \* Gate.updating
    fatal,       \* Client.fatalErr # nil
    session,     \* "down": no active session; "broken": active, connection dead
    outbox,      \* results whose goroutine is about to write them
    up, down,    \* messages in flight to Cloud and to the Agent
    cloud,       \* Cloud's state of each command
    answer,      \* the terminal result Cloud persisted
    faults,      \* faults that happened
    started,     \* how often Run of each command was called, up to MaxStarts
    evicted      \* commands the bounded history has forgotten

journalVars == <<disk, mem, evicted>>
clientVars  == <<running, pending, leases, updating, fatal, session, outbox>>
wireVars    == <<up, down>>
cloudVars   == <<cloud, answer>>
vars == <<journalVars, exec, registered, clientVars, wireVars, cloudVars, faults, started>>

Result == Terminal \cup {Busy}
NoResult == "none"
Failed == "error"   \* Execute returned an error instead of a result

\* The history variable started tells none, one and several runs apart.
MaxStarts == 2

\* Where the goroutine of a command is; "idle" when it has none.
Phase == {"idle", "queued", "check", "replay", "begin", "conflict", "begin2",
          "resolve", "run", "running", "finish", "deregister", "return"}
\* From the journaled Begin to the journaled result.
Journaled == {"run", "running", "finish"}

Exec == [phase : Phase, res : Result \cup {NoResult, Failed}]
Idle == [phase |-> "idle", res |-> NoResult]

ResultMsg == [type : {"result"}, cmd : Command, res : Result]
UpMsg   == [type : {"accepted"}, cmd : Command] \cup ResultMsg
DownMsg == [type : {"offer"}, cmd : Command] \cup [type : {"ack"}, cmd : Command, ok : BOOLEAN]

Init ==
    /\ disk = EmptySnapshot
    /\ mem = EmptySnapshot
    /\ exec = [c \in Command |-> Idle]
    /\ registered = {}
    /\ running = {}
    /\ pending = {}
    /\ leases = 0
    /\ updating = FALSE
    /\ fatal = FALSE
    /\ session = "down"
    /\ outbox = {}
    /\ up = <<>>
    /\ down = <<>>
    /\ cloud = [c \in Command |-> "new"]
    /\ answer = [c \in Command |-> NoResult]
    /\ faults = [k \in FaultKind |-> 0]
    /\ started = [c \in Command |-> 0]
    /\ evicted = {}

Fault(k) == /\ faults[k] < MaxFaults[k]
            /\ faults' = [faults EXCEPT ![k] = @ + 1]

-----------------------------------------------------------------------------
(* The process and the session. *)

\* A new process: BuildRuntime opens the journal, everything else starts empty.
\* A journal validateSnapshot refuses leaves the node without a runtime.
NewProcess ==
    /\ ValidSnapshot(disk)
    /\ mem' = disk
    /\ exec' = [c \in Command |-> Idle]
    /\ registered' = {}
    /\ running' = {}
    /\ pending' = {}
    /\ leases' = 0
    /\ updating' = FALSE
    /\ fatal' = FALSE
    /\ session' = "down"
    /\ outbox' = {}
    /\ up' = <<>>
    /\ down' = <<>>
    /\ UNCHANGED <<disk, evicted, cloudVars, started>>

\* The process is killed, or a module's Run ended and the client stops.
Crash == Fault("crash") /\ NewProcess

\* runSessionWithTimeout up to ControlReady.  A fatal error recorded while no
\* session was active does not stop it: the loop looks only after a session.
Connect ==
    /\ session = "down"
    /\ session' = "ready"
    /\ UNCHANGED <<journalVars, exec, registered, running, pending, leases, updating,
                   fatal, outbox, wireVars, cloudVars, faults, started>>

\* CloseNow, a failed write, a heartbeat timeout or the network: nothing in
\* flight arrives any more.
CutSession == /\ session' = "broken"
              /\ up' = <<>>
              /\ down' = <<>>

Break ==
    /\ session = "ready"
    /\ Fault("break")
    /\ CutSession
    /\ UNCHANGED <<journalVars, exec, registered, running, pending, leases, updating,
                   fatal, outbox, cloudVars, started>>

\* Mutant: releasePending is not called when a session ends.
EndSessionKeepsPending ==
    /\ session = "broken"
    /\ ~fatal
    /\ session' = "down"
    /\ pending' = {}
    /\ outbox' = {}
    /\ UNCHANGED <<journalVars, exec, registered, running, leases, updating, fatal,
                   wireVars, cloudVars, faults, started>>

\* The reader returns: clearActive, releasePending.  A result still to be written
\* to this session is lost with it.
EndSession ==
    /\ session = "broken"
    /\ ~fatal
    /\ session' = "down"
    /\ pending' = {}
    /\ leases' = leases - Cardinality(pending)
    /\ outbox' = {}
    /\ UNCHANGED <<journalVars, exec, registered, running, updating, fatal,
                   wireVars, cloudVars, faults, started>>

\* The control loop sees fatalErr after a session or a failed attempt at one;
\* the process exits and systemd starts the next.
ExitFatal ==
    /\ fatal
    /\ session # "ready"
    /\ NewProcess
    /\ UNCHANGED faults

-----------------------------------------------------------------------------
(* The updater's side of the gate. *)

\* Mutant: the updater does not look at the operations under way.
TryUpdateIgnoresLeases ==
    /\ ~updating
    /\ Fault("update")
    /\ updating' = TRUE
    /\ UNCHANGED <<journalVars, exec, registered, running, pending, leases, fatal,
                   session, outbox, wireVars, cloudVars, started>>

TryUpdate ==
    /\ ~updating
    /\ leases = 0
    /\ Fault("update")
    /\ updating' = TRUE
    /\ UNCHANGED <<journalVars, exec, registered, running, pending, leases, fatal,
                   session, outbox, wireVars, cloudVars, started>>

\* A refused CheckSafe or a failed exec releases the lease.
ReleaseUpdate ==
    /\ updating
    /\ updating' = FALSE
    /\ UNCHANGED <<journalVars, exec, registered, running, pending, leases, fatal,
                   session, outbox, wireVars, cloudVars, faults, started>>

\* The candidate replaces the process.
ExecCandidate ==
    /\ updating
    /\ NewProcess
    /\ UNCHANGED faults

-----------------------------------------------------------------------------
(* The reader of the session. *)

Receive(m) == /\ session = "ready"
              /\ down # <<>>
              /\ Head(down) = m

Accepted(c) == [type |-> "accepted", cmd |-> c]

\* acceptOffer, the paths that answer: a repeat of a live offer, or a new one.
AcceptOffer(c) ==
    /\ Receive([type |-> "offer", cmd |-> c])
    /\ \/ /\ c \in running \cup pending
          /\ UNCHANGED <<pending, leases>>
       \/ /\ c \notin running \cup pending
          /\ ~updating
          /\ pending' = pending \cup {c}
          /\ leases' = leases + 1
    /\ down' = Tail(down)
    /\ up' = Append(up, Accepted(c))
    /\ UNCHANGED <<journalVars, exec, registered, running, updating, fatal,
                   session, outbox, cloudVars, faults, started>>

\* acceptOffer, the paths that stay silent: the module is not Accepting, or the
\* process is about to be replaced.
DeclineOffer(c) ==
    /\ Receive([type |-> "offer", cmd |-> c])
    /\ c \in Declinable \/ (c \notin running \cup pending /\ updating)
    /\ down' = Tail(down)
    /\ UNCHANGED <<journalVars, exec, registered, clientVars, up, cloudVars, faults, started>>

\* Mutant: a negative ack starts the command too.
HandleAnyAck(c, ok) ==
    /\ Receive([type |-> "ack", cmd |-> c, ok |-> ok])
    /\ down' = Tail(down)
    /\ pending' = pending \ {c}
    /\ IF c \in pending /\ c \notin running
       THEN /\ running' = running \cup {c}
            /\ exec' = [exec EXCEPT ![c].phase = "queued"]
            /\ UNCHANGED leases
       ELSE /\ leases' = IF c \in pending THEN leases - 1 ELSE leases
            /\ UNCHANGED <<running, exec>>
    /\ UNCHANGED <<journalVars, registered, updating, fatal, session, outbox, up,
                   cloudVars, faults, started>>

\* handleAcceptedAck: only a pending command starts, and only once.
HandleAcceptedAck(c, ok) ==
    /\ Receive([type |-> "ack", cmd |-> c, ok |-> ok])
    /\ down' = Tail(down)
    /\ pending' = pending \ {c}
    /\ IF c \in pending /\ ok /\ c \notin running
       THEN /\ running' = running \cup {c}
            /\ exec' = [exec EXCEPT ![c].phase = "queued"]
            /\ UNCHANGED leases
       ELSE /\ leases' = IF c \in pending THEN leases - 1 ELSE leases
            /\ UNCHANGED <<running, exec>>
    /\ UNCHANGED <<journalVars, registered, updating, fatal, session, outbox, up,
                   cloudVars, faults, started>>

-----------------------------------------------------------------------------
(* The goroutine of an accepted command: Executor.Execute, then the rest of  *)
(* Client.execute.  Each action ends where the code drops a lock.            *)

At(c, phase) == exec[c].phase = phase
Goto(c, phase) == exec' = [exec EXCEPT ![c].phase = phase]
GotoWith(c, phase, res) == exec' = [exec EXCEPT ![c] = [phase |-> phase, res |-> res]]

\* JSONFile.Save: it fails before the rename ("failed") or after it, when the
\* directory cannot be synced ("replaced"); memory follows only a success.
SaveOutcome == {"ok", "failed", "replaced"}
Save(next, dropped, outcome) ==
    /\ IF outcome = "ok" THEN UNCHANGED faults ELSE Fault("save")
    /\ mem' = IF outcome = "ok" THEN next ELSE mem
    /\ disk' = IF outcome = "failed" THEN disk ELSE next
    /\ evicted' = IF outcome = "failed" THEN evicted ELSE evicted \cup dropped

execUnchanged == <<clientVars, wireVars, cloudVars>>

\* A duplicate caller would join here; Client.running admits one goroutine per
\* command, so none exists.
Register(c) ==
    /\ At(c, "queued")
    /\ registered' = registered \cup {c}
    /\ Goto(c, "check")
    /\ UNCHANGED <<journalVars, execUnchanged, faults, started>>

CheckRecent(c) ==
    /\ At(c, "check")
    /\ Goto(c, IF IsRecent(mem, c) THEN "replay" ELSE "begin")
    /\ UNCHANGED <<journalVars, registered, execUnchanged, faults, started>>

\* replay reads the journal again: the record may have been trimmed meanwhile.
Replay(c) ==
    /\ At(c, "replay")
    /\ GotoWith(c, "deregister", IF IsRecent(mem, c) THEN RecentResult(mem, c) ELSE Failed)
    /\ UNCHANGED <<journalVars, registered, execUnchanged, faults, started>>

\* Engine.Begin, first or second call.
Begin(c) ==
    /\ At(c, "begin") \/ At(c, "begin2")
    /\ \/ /\ Conflicts(mem, c)
          /\ Goto(c, IF At(c, "begin") THEN "conflict" ELSE "resolve")
          /\ UNCHANGED <<journalVars, faults>>
       \/ /\ ~Conflicts(mem, c)
          /\ IF IsRecent(mem, c)
             THEN /\ GotoWith(c, "deregister", Failed)
                  /\ UNCHANGED <<journalVars, faults>>
             ELSE \E outcome \in SaveOutcome :
                  /\ Save(BeginSnapshot(mem, c), {}, outcome)
                  /\ IF outcome = "ok" THEN Goto(c, "run")
                     ELSE GotoWith(c, "deregister", Failed)
    /\ UNCHANGED <<registered, execUnchanged, started>>

\* Mutant: whoever holds the group is taken for a leftover.
FinishAnyHolder(c) ==
    /\ At(c, "conflict")
    /\ LET left == mem.active[GroupOf[c]]
       IN  \/ /\ left = NoCommand
              /\ Goto(c, "resolve")
              /\ UNCHANGED <<journalVars, faults>>
           \/ /\ left # NoCommand
              /\ \E outcome \in SaveOutcome :
                 /\ Save(FinishSnapshot(mem, left, Recovered), Dropped(mem), outcome)
                 /\ Goto(c, IF outcome = "ok" THEN "begin2" ELSE "resolve")
    /\ UNCHANGED <<registered, execUnchanged, started>>

\* finishLeftover: a command an earlier process left in the group is recovered.
FinishLeftover(c) ==
    /\ At(c, "conflict")
    /\ LET left == mem.active[GroupOf[c]]
       IN  \/ /\ left = NoCommand \/ left \in registered
              /\ Goto(c, "resolve")
              /\ UNCHANGED <<journalVars, faults>>
           \/ /\ left # NoCommand
              /\ left \notin registered
              /\ \E outcome \in SaveOutcome :
                 /\ Save(FinishSnapshot(mem, left, Recovered), Dropped(mem), outcome)
                 /\ Goto(c, IF outcome = "ok" THEN "begin2" ELSE "resolve")
    /\ UNCHANGED <<registered, execUnchanged, started>>

\* Mutant: a command found active after a crash is run again.
ResolveRunsAgain(c) ==
    /\ At(c, "resolve")
    /\ IF IsActive(mem, c) THEN Goto(c, "run") ELSE GotoWith(c, "deregister", Busy)
    /\ UNCHANGED <<journalVars, registered, execUnchanged, faults, started>>

\* The group stayed taken: by this command's own leftover, or by another one.
Resolve(c) ==
    /\ At(c, "resolve")
    /\ IF IsActive(mem, c) THEN GotoWith(c, "finish", Recovered)
       ELSE GotoWith(c, "deregister", Busy)
    /\ UNCHANGED <<journalVars, registered, execUnchanged, faults, started>>

\* Handler.Run starts: from here the side effect may have happened.
Run(c) ==
    /\ At(c, "run")
    /\ Goto(c, "running")
    /\ started' = [started EXCEPT ![c] = IF @ < MaxStarts THEN @ + 1 ELSE @]
    /\ UNCHANGED <<journalVars, registered, execUnchanged, faults>>

RunReturns(c) ==
    /\ At(c, "running")
    /\ \E r \in RunResult : GotoWith(c, "finish", r)
    /\ UNCHANGED <<journalVars, registered, execUnchanged, faults, started>>

\* Mutant: a result is returned although it could not be journaled.
FinishReturnsAnyway(c) ==
    /\ At(c, "finish")
    /\ LET r == exec[c].res
       IN  \/ /\ ~IsActive(mem, c)
              /\ GotoWith(c, "deregister", Failed)
              /\ UNCHANGED <<journalVars, faults>>
           \/ /\ IsActive(mem, c)
              /\ \E outcome \in SaveOutcome :
                 /\ Save(FinishSnapshot(mem, c, r), Dropped(mem), outcome)
                 /\ GotoWith(c, "deregister", r)
    /\ UNCHANGED <<registered, execUnchanged, started>>

\* Executor.finish: a result that cannot be journaled is not returned.
Finish(c) ==
    /\ At(c, "finish")
    /\ LET r == exec[c].res
       IN  \/ /\ ~IsActive(mem, c)
              /\ GotoWith(c, "deregister", Failed)
              /\ UNCHANGED <<journalVars, faults>>
           \/ /\ IsActive(mem, c)
              /\ \E outcome \in SaveOutcome :
                 /\ Save(FinishSnapshot(mem, c, r), Dropped(mem), outcome)
                 /\ GotoWith(c, "deregister", IF outcome = "ok" THEN r ELSE Failed)
    /\ UNCHANGED <<registered, execUnchanged, started>>

Deregister(c) ==
    /\ At(c, "deregister")
    /\ registered' = registered \ {c}
    /\ Goto(c, "return")
    /\ UNCHANGED <<journalVars, execUnchanged, faults, started>>

\* Mutant: Client.running keeps the command, so no later offer starts it again.
ReturnStaysRunning(c) ==
    /\ At(c, "return")
    /\ exec[c].res # Failed
    /\ leases' = leases - 1
    /\ outbox' = IF session = "down" THEN outbox
                 ELSE outbox \cup {[type |-> "result", cmd |-> c, res |-> exec[c].res]}
    /\ exec' = [exec EXCEPT ![c] = Idle]
    /\ UNCHANGED <<journalVars, registered, running, pending, updating, fatal, session,
                   wireVars, cloudVars, faults, started>>

\* Client.execute with a result: the lease goes first, then the write.
ReturnResult(c) ==
    /\ At(c, "return")
    /\ exec[c].res # Failed
    /\ running' = running \ {c}
    /\ leases' = leases - 1
    /\ outbox' = IF session = "down" THEN outbox
                 ELSE outbox \cup {[type |-> "result", cmd |-> c, res |-> exec[c].res]}
    /\ exec' = [exec EXCEPT ![c] = Idle]
    /\ UNCHANGED <<journalVars, registered, pending, updating, fatal, session,
                   wireVars, cloudVars, faults, started>>

\* Client.execute with an error: the process must end, the session is closed.
ReturnError(c) ==
    /\ At(c, "return")
    /\ exec[c].res = Failed
    /\ running' = running \ {c}
    /\ leases' = leases - 1
    /\ fatal' = TRUE
    /\ exec' = [exec EXCEPT ![c] = Idle]
    /\ IF session = "ready" THEN CutSession ELSE UNCHANGED <<session, wireVars>>
    /\ UNCHANGED <<journalVars, registered, pending, updating, outbox, cloudVars,
                   faults, started>>

WriteResult(m) ==
    /\ m \in outbox
    /\ outbox' = outbox \ {m}
    /\ up' = IF session = "ready" THEN Append(up, m) ELSE up
    /\ UNCHANGED <<journalVars, exec, registered, running, pending, leases, updating,
                   fatal, session, down, cloudVars, faults, started>>

Goroutine(c) ==
    \/ Register(c) \/ CheckRecent(c) \/ Replay(c) \/ Begin(c) \/ FinishLeftover(c)
    \/ Resolve(c) \/ Run(c) \/ RunReturns(c) \/ Finish(c) \/ Deregister(c)
    \/ ReturnResult(c) \/ ReturnError(c)

-----------------------------------------------------------------------------
(* Cloud, as docs/PROTOCOL.md describes it (external). *)

cloudUnchanged == <<journalVars, exec, registered, clientVars, faults, started>>

InFlight(c) == Cardinality({i \in DOMAIN up : up[i].cmd = c /\ up[i].type = "accepted"})
             + Cardinality({i \in DOMAIN down : down[i].cmd = c})

\* One command of a group is outstanding at a time; an accepted one is offered
\* again on reconnect and every 30 seconds until its result arrives.
CloudOffer(c) ==
    /\ session = "ready"
    /\ cloud[c] \in {"new", "offered", "accepted"}
    /\ \A d \in Command \ {c} :
          GroupOf[d] = GroupOf[c] => cloud[d] \notin {"offered", "accepted"}
    /\ InFlight(c) < MaxOffers
    /\ cloud' = [cloud EXCEPT ![c] = IF @ = "new" THEN "offered" ELSE @]
    /\ down' = Append(down, [type |-> "offer", cmd |-> c])
    /\ UNCHANGED <<cloudUnchanged, answer, up>>

CloudAccepts(c) ==
    /\ session = "ready"
    /\ up # <<>>
    /\ Head(up) = Accepted(c)
    /\ cloud' = [cloud EXCEPT ![c] = IF @ = "offered" THEN "accepted" ELSE @]
    /\ up' = Tail(up)
    /\ down' = Append(down, [type |-> "ack", cmd |-> c, ok |-> cloud[c] \in {"offered", "accepted"}])
    /\ UNCHANGED <<cloudUnchanged, answer>>

\* Only the first result of an accepted command counts.
CloudResult(c) ==
    /\ session = "ready"
    /\ up # <<>>
    /\ Head(up).type = "result"
    /\ Head(up).cmd = c
    /\ IF cloud[c] = "accepted"
       THEN /\ cloud' = [cloud EXCEPT ![c] = "terminal"]
            /\ answer' = [answer EXCEPT ![c] = Head(up).res]
       ELSE UNCHANGED cloudVars
    /\ up' = Tail(up)
    /\ UNCHANGED <<cloudUnchanged, down>>

\* A command nobody accepted expires; an administrator gives up on an accepted one.
CloudAbandon(c) ==
    /\ cloud[c] \in {"offered", "accepted"}
    /\ cloud' = [cloud EXCEPT ![c] = IF @ = "offered" THEN "expired" ELSE "abandoned"]
    /\ UNCHANGED <<cloudUnchanged, answer, wireVars>>

-----------------------------------------------------------------------------
Next ==
    \/ Crash \/ Connect \/ Break \/ EndSession \/ ExitFatal
    \/ TryUpdate \/ ReleaseUpdate \/ ExecCandidate
    \/ \E c \in Command :
          \/ AcceptOffer(c) \/ DeclineOffer(c)
          \/ \E ok \in BOOLEAN : HandleAcceptedAck(c, ok)
          \/ Goroutine(c)
          \/ CloudOffer(c) \/ CloudAccepts(c) \/ CloudResult(c) \/ CloudAbandon(c)
    \/ \E m \in outbox : WriteResult(m)

Spec == Init /\ [][Next]_vars

\* Goroutines, the reader, the reconnect loop and Cloud keep going; a module that
\* declines offers does so only until it is Accepting again.  Faults, expiry and
\* the updater owe nothing.
Fairness ==
    /\ WF_vars(Connect) /\ WF_vars(EndSession) /\ WF_vars(ExitFatal)
    /\ WF_vars(ReleaseUpdate)
    /\ \A c \in Command :
          /\ WF_vars(Goroutine(c))
          /\ SF_vars(AcceptOffer(c))
          /\ WF_vars(DeclineOffer(c))
          /\ \A ok \in BOOLEAN : WF_vars(HandleAcceptedAck(c, ok))
          /\ WF_vars(CloudOffer(c)) /\ WF_vars(CloudAccepts(c)) /\ WF_vars(CloudResult(c))
          /\ \A r \in Result : WF_vars(WriteResult([type |-> "result", cmd |-> c, res |-> r]))

FairSpec == Spec /\ Fairness

-----------------------------------------------------------------------------
(* Properties. *)

JournalType == disk \in Snapshot /\ mem \in Snapshot /\ evicted \subseteq Command
\* A goroutine's result is set where its phase says so.
HasResult(e) == /\ e.phase = "finish" => e.res \in Terminal
                /\ e.phase \in {"deregister", "return"} => e.res \in Result \cup {Failed}
ExecutorType ==
    /\ exec \in [Command -> Exec]
    /\ \A c \in Command : HasResult(exec[c])
    /\ registered \subseteq Command
ClientType ==
    /\ running \subseteq Command
    /\ pending \subseteq Command
    /\ leases \in Int
    /\ session \in {"down", "ready", "broken"}
    /\ outbox \subseteq ResultMsg
FlagType == updating \in BOOLEAN /\ fatal \in BOOLEAN
WireType == up \in Seq(UpMsg) /\ down \in Seq(DownMsg)
CloudType ==
    /\ cloud \in [Command -> {"new", "offered", "accepted", "terminal", "expired", "abandoned"}]
    /\ answer \in [Command -> Result \cup {NoResult}]
CountType == faults \in [FaultKind -> Nat] /\ started \in [Command -> Nat]

\* Every variable has its type.
TypeOK ==
    /\ JournalType
    /\ ExecutorType
    /\ ClientType
    /\ FlagType
    /\ WireType
    /\ CloudType
    /\ CountType

\* A command's side effect is triggered at most once, over crashes, failed saves,
\* repeated offers and process replacement, as long as the bounded history still
\* knows the command (Executor.execute, "never run again").
AtMostOnce == \A c \in Command : started[c] <= 1 \/ c \in evicted

\* Two commands of one exclusive group are never both between their journaled
\* Begin and their journaled result, also while a leftover of an earlier process
\* is being recovered by its own offer and by another command (finishLeftover).
GroupExclusive ==
    \A c, d \in Command :
        /\ c # d
        /\ GroupOf[c] = GroupOf[d]
        /\ exec[c].phase \in Journaled
        => exec[d].phase \notin Journaled

\* While the updater holds the gate no command is pending or executing, so an
\* exec of the candidate interrupts nothing (Gate.TryUpdate, acceptOffer).
UpdateExcludesWork == updating => running = {} /\ pending = {}

\* Every lease belongs to a pending or a running command: none leaks, which would
\* block updates for ever, and none is released twice (Lease.Release).
LeaseAccounting == leases = Cardinality(pending) + Cardinality(running)

\* The terminal results on their way to Cloud, or persisted by it.
Told(c) == {m.res : m \in {x \in outbox : x.cmd = c}}
           \cup {up[i].res : i \in {j \in DOMAIN up : up[j].type = "result" /\ up[j].cmd = c}}
           \cup ({answer[c]} \ {NoResult})

\* Whatever Cloud is told of a command that began is already in the journal file
\* and never contradicted by a later replay or recovery (Executor.finish before
\* operation.result).
ToldIsDurable ==
    \A c \in Command : \A r \in Told(c) \ {Busy} :
        c \in evicted \/ (IsRecent(disk, c) /\ RecentResult(disk, c) = r)

\* The accepted_ack is the authorisation: nothing runs that Cloud has not accepted,
\* not even when it expires while the handshake is on its way.
OnlyAuthorisedRuns ==
    \A c \in Command : started[c] > 0 => cloud[c] \in {"accepted", "terminal", "abandoned"}

\* Every command Cloud accepted gets a terminal result, unless Cloud gives it up:
\* lost acks and results are made good by later offers, a crash by recovery.
AcceptedResolves ==
    \A c \in Command : cloud[c] = "accepted" ~> cloud[c] \in {"terminal", "abandoned"}

-----------------------------------------------------------------------------
(* The inductive strengthenings the proofs rest on. *)

\* Both copies of the journal know a command whose side effect was triggered, or
\* is about to be for the first time, until the bounded history drops it.
Remembered(c) == Known(mem, c) /\ Known(disk, c)
OnceInv ==
    \A c \in Command : c \notin evicted =>
        /\ started[c] <= 1
        /\ started[c] > 0 \/ At(c, "run") => Remembered(c)
        /\ At(c, "run") => started[c] = 0

\* A goroutine inside the executor is registered, so that nobody takes its active
\* record for a leftover; from Begin to finish it holds its group in memory.
OwnerInv ==
    \A c \in Command :
        /\ exec[c].phase \notin {"idle", "queued", "return"} => c \in registered
        /\ exec[c].phase \in Journaled => IsActive(mem, c)

\* The gate counts the client's two maps, and an update found both empty.
GateInv ==
    /\ LeaseAccounting
    /\ updating => leases = 0
    /\ \A c \in Command : ~At(c, "idle") => c \in running
==============================================================================
