----------------------------- MODULE AddressWatch -----------------------------
(***************************************************************************)
(* The public IPv4 address of a node and the reconciliation of ChangeIP.   *)
(*                                                                         *)
(*   internal/modules/ipwatch/monitor.go    Monitor: one goroutine that    *)
(*       observes, reports and settles an open attempt; the session's      *)
(*       reader calls NotifyControlReady and Acknowledge                   *)
(*   internal/modules/changeip/handler.go   Handler.Run and Recover        *)
(*   internal/state/json_file.go            the reconciliation file        *)
(*                                                                         *)
(* Commands come one at a time (their exclusive group, module CommandPath) *)
(* and each runs once; a run a crash interrupted ends in Recover.  The     *)
(* network, the provider and Cloud are external.  An observation is made   *)
(* without the lock, so that by the time it is used the address, the       *)
(* attempt and the session may all have changed.  The IPv6 family is the   *)
(* same loop without attempts and shares no state with this one.           *)
(***************************************************************************)
EXTENDS Integers, Sequences, FiniteSets

CONSTANTS
    Command,      \* ChangeIP commands
    Address,      \* public IPv4 addresses
    Nobody,       \* no command, no address
    MaxReports,   \* report ids the node may use
    MaxInFlight,  \* reports, and acknowledgements, the connection holds
    MaxFaults     \* how often each kind of event from outside happens

FaultKind == {"natural", "break", "crash", "save"}
ASSUME NobodyFresh == Nobody \notin Command /\ Nobody \notin Address
ASSUME MaxReportsType == MaxReports \in Nat
ASSUME MaxInFlightType == MaxInFlight \in Nat \ {0}
ASSUME MaxFaultsType == MaxFaults \in [FaultKind -> Nat]

VARIABLES
    addr,      \* the node's address
    cause,     \* who changed it last: a command's provider, or Nobody
    file,      \* the reconciliation file
    attempt,   \* Monitor.persisted.ChangeAttempt
    elapsed,   \* commands whose grace period is over
    reported,  \* ipv4.reported
    pending,   \* ipv4.pending
    announce,  \* ipv4.announce
    mpc,       \* where the monitor's goroutine is
    seen,      \* its last observation
    outgoing,  \* the report it is about to publish
    hpc,       \* where the handler of each command is
    expected,  \* expected_ipv4 of each command's payload
    result,    \* the command's result
    triggered, \* commands whose provider was called and did not fail for certain
    moved,     \* commands whose provider changed the address
    session,   \* "active": setActive done, ControlReady not yet
    up, down,  \* reports and acknowledgements in flight
    cloudAddr, \* the address Cloud holds
    outcome,   \* what Cloud knows of each command's reconciliation
    stored,    \* ids of the reports Cloud stored
    misread,   \* commands whose change Cloud stored as a natural one
    nextId,
    faults

monitorVars == <<attempt, reported, pending, announce>>
loopVars    == <<mpc, seen, outgoing>>
handlerVars == <<hpc, expected, result, triggered>>
netVars     == <<addr, cause, moved, elapsed>>
wireVars    == <<up, down>>
cloudVars   == <<cloudAddr, outcome, stored, misread>>
vars == <<file, monitorVars, loopVars, handlerVars, netVars, session, wireVars, cloudVars,
          nextId, faults>>

Id == 1..MaxReports
NoOutcome == [id |-> 0, changed |-> FALSE, addr |-> Nobody]
Outcome == [id : Id, changed : BOOLEAN, addr : Address]
\* changeAttempt; ReconcileAt is past for the commands in elapsed.
NoAttempt == [cmd |-> Nobody, addr |-> Nobody, confirmations |-> 0, out |-> NoOutcome]
Attempt == [cmd : Command, addr : Address, confirmations : 0..2, out : Outcome \cup {NoOutcome}]
\* cause is a tag of the model: who made the address what it is.
Report == [id : Id, unchanged : BOOLEAN, addr : Address, cmd : Command \cup {Nobody},
           cause : Command \cup {Nobody}]
NoReport == [id |-> 0, unchanged |-> FALSE, addr |-> Nobody, cmd |-> Nobody, cause |-> Nobody]
NotSeen == [addr |-> Nobody, cause |-> Nobody]

Confirmations == 2   \* changeUnchangedConfirmations

Init ==
    /\ addr \in Address
    /\ cause = Nobody
    /\ file = NoAttempt
    /\ attempt = NoAttempt
    /\ elapsed = {}
    /\ reported = Nobody
    /\ pending = NoReport
    /\ announce = TRUE
    /\ mpc = "step"
    /\ seen = NotSeen
    /\ outgoing = NoReport
    /\ hpc = [c \in Command |-> "new"]
    /\ expected = [c \in Command |-> Nobody]
    /\ result = [c \in Command |-> "none"]
    /\ triggered = {}
    /\ moved = {}
    /\ session = "down"
    /\ up = <<>>
    /\ down = <<>>
    /\ cloudAddr = Nobody
    /\ outcome = [c \in Command |-> "none"]
    /\ stored = {}
    /\ misread = {}
    /\ nextId = 1
    /\ faults = [k \in FaultKind |-> 0]

Fault(k) == /\ faults[k] < MaxFaults[k]
            /\ faults' = [faults EXCEPT ![k] = @ + 1]

\* JSONFile.Save: it fails before or after the file is replaced.
SaveOutcome == {"ok", "failed", "replaced"}
Save(next, how) ==
    /\ IF how = "ok" THEN UNCHANGED faults ELSE Fault("save")
    /\ file' = IF how = "failed" THEN file ELSE next

\* A new process: OpenMonitor reads the file, a run under way is interrupted.
NewProcess ==
    /\ attempt' = file'
    /\ reported' = Nobody
    /\ pending' = NoReport
    /\ announce' = TRUE
    /\ mpc' = "step"
    /\ seen' = NotSeen
    /\ outgoing' = NoReport
    /\ hpc' = [c \in Command |-> IF hpc[c] \in {"new", "offered", "done"} THEN hpc[c]
                                 ELSE "interrupted"]
    /\ session' = "down"
    /\ up' = <<>>
    /\ down' = <<>>
    /\ UNCHANGED <<expected, result, triggered, netVars, cloudVars>>

Crash == Fault("crash") /\ UNCHANGED <<file, nextId>> /\ NewProcess

-----------------------------------------------------------------------------
(* The network and the provider's effect (external). *)

NaturalChange(a) ==
    /\ a # addr
    /\ Fault("natural")
    /\ addr' = a
    /\ cause' = Nobody
    /\ UNCHANGED <<file, monitorVars, loopVars, handlerVars, moved, elapsed, session,
                   wireVars, cloudVars, nextId>>

\* A triggered change takes effect before its attempt is settled; one that comes
\* later is for the node a natural change.
ProviderChanges(c, a) ==
    /\ a # addr
    /\ c \in triggered \ moved
    /\ outcome[c] = "none" /\ attempt.out = NoOutcome
    /\ addr' = a
    /\ cause' = c
    /\ moved' = moved \cup {c}
    /\ UNCHANGED <<file, monitorVars, loopVars, handlerVars, elapsed, session, wireVars,
                   cloudVars, nextId, faults>>

GraceElapses(c) ==
    /\ c \notin elapsed
    /\ attempt.cmd = c
    /\ elapsed' = elapsed \cup {c}
    /\ UNCHANGED <<file, monitorVars, loopVars, handlerVars, addr, cause, moved, session,
                   wireVars, cloudVars, nextId, faults>>

-----------------------------------------------------------------------------
(* The monitor's goroutine: stepIPv4. *)

loopUnchanged == <<handlerVars, netVars, session, down, cloudVars>>

OutcomeReport(a) ==
    [id |-> a.out.id, unchanged |-> ~a.out.changed, addr |-> a.out.addr, cmd |-> a.cmd,
     cause |-> Nobody]

\* An outcome or a report Cloud has not acknowledged is sent again; else observe.
Step ==
    /\ mpc = "step"
    /\ \/ /\ attempt.out # NoOutcome
          /\ outgoing' = OutcomeReport(attempt)
          /\ mpc' = "publish"
       \/ /\ attempt.out = NoOutcome
          /\ pending # NoReport
          /\ outgoing' = pending
          /\ mpc' = "publish"
       \/ /\ attempt.out = NoOutcome
          /\ pending = NoReport
          /\ mpc' = "observe"
          /\ UNCHANGED outgoing
    /\ UNCHANGED <<file, monitorVars, seen, loopUnchanged, up, nextId, faults>>

\* Observer.Observe, without the lock; a failed one is tried again.
Observe ==
    /\ mpc = "observe"
    /\ seen' = [addr |-> addr, cause |-> cause]
    /\ mpc' = "settle"
    /\ UNCHANGED <<file, monitorVars, outgoing, loopUnchanged, up, nextId, faults>>

Confirmed(n) == n >= Confirmations

\* What an observation makes of an open attempt.
Settled(a, id) ==
    IF seen.addr # a.addr
    THEN [a EXCEPT !.out = [id |-> id, changed |-> TRUE, addr |-> seen.addr]]
    ELSE [a EXCEPT !.confirmations = @ + 1,
                   !.out = IF Confirmed(a.confirmations + 1)
                           THEN [id |-> id, changed |-> FALSE, addr |-> seen.addr] ELSE @]

\* stepIPv4 with an open attempt: a failed save ends the process.
SettleAttempt ==
    /\ mpc = "settle"
    /\ attempt # NoAttempt
    /\ seen.addr # attempt.addr \/ attempt.cmd \in elapsed
    /\ nextId \in Id
    /\ LET next == Settled(attempt, nextId)
       IN  \E how \in SaveOutcome :
           /\ Save(next, how)
           /\ nextId' = IF next.out = NoOutcome THEN nextId ELSE nextId + 1
           /\ IF how = "ok"
              THEN /\ attempt' = next
                   /\ seen' = NotSeen
                   /\ mpc' = IF next.out = NoOutcome THEN "step" ELSE "publish"
                   /\ outgoing' = IF next.out = NoOutcome THEN outgoing ELSE OutcomeReport(next)
                   /\ UNCHANGED <<reported, pending, announce, loopUnchanged, up>>
              ELSE NewProcess

\* stepIPv4 with an open attempt, the old address and the grace period not over.
WaitForGrace ==
    /\ mpc = "settle"
    /\ attempt # NoAttempt
    /\ seen.addr = attempt.addr /\ attempt.cmd \notin elapsed
    /\ seen' = NotSeen
    /\ mpc' = "step"
    /\ UNCHANGED <<file, monitorVars, outgoing, loopUnchanged, up, nextId, faults>>

\* familyState.observed: a new session, or a new address, is owed a report.
Owed == announce \/ seen.addr # reported

\* Mutant: an open attempt does not hold back the ordinary reports.
OrdinaryAlways == TRUE

\* stepIPv4: until an attempt settles, only its outcome may report the address.
Ordinary == attempt = NoAttempt

Observed ==
    /\ mpc = "settle"
    /\ Ordinary
    /\ seen' = NotSeen
    /\ \/ /\ ~Owed
          /\ mpc' = "step"
          /\ UNCHANGED <<announce, pending, outgoing, nextId>>
       \/ /\ Owed
          /\ nextId \in Id
          /\ nextId' = nextId + 1
          /\ announce' = FALSE
          /\ pending' = [id |-> nextId, unchanged |-> FALSE, addr |-> seen.addr,
                         cmd |-> Nobody, cause |-> seen.cause]
          /\ outgoing' = pending'
          /\ mpc' = "publish"
    /\ UNCHANGED <<file, attempt, reported, loopUnchanged, up, faults>>

\* publishReport: an error is tried again with the next step.
Publish ==
    /\ mpc = "publish"
    /\ Len(up) < MaxInFlight
    /\ up' = IF session = "down" THEN up ELSE Append(up, outgoing)
    /\ outgoing' = NoReport
    /\ mpc' = "step"
    /\ UNCHANGED <<file, monitorVars, seen, loopUnchanged, nextId, faults>>

Loop == Step \/ Observe \/ SettleAttempt \/ WaitForGrace \/ Observed \/ Publish

-----------------------------------------------------------------------------
(* The session and its reader. *)

Connect ==
    /\ session = "down"
    /\ session' = "active"
    /\ UNCHANGED <<file, monitorVars, loopVars, handlerVars, netVars, wireVars, cloudVars,
                   nextId, faults>>

\* NotifyControlReady: a report that was waiting gives way to a fresh observation.
NotifyControlReady ==
    /\ session = "active"
    /\ session' = "ready"
    /\ pending' = NoReport
    /\ announce' = TRUE
    /\ UNCHANGED <<file, attempt, reported, loopVars, handlerVars, netVars, wireVars,
                   cloudVars, nextId, faults>>

EndSession == /\ session' = "down"
              /\ up' = <<>>
              /\ down' = <<>>

Break ==
    /\ session # "down"
    /\ Fault("break")
    /\ EndSession
    /\ UNCHANGED <<file, monitorVars, loopVars, handlerVars, netVars, cloudVars, nextId>>

\* Mutant: the acknowledgement of an outcome is lost.
SettlesOutcomeNever(id) == FALSE
SettlesOutcome(id) == attempt.out # NoOutcome /\ attempt.out.id = id

\* Mutant: any acknowledgement settles the pending report.
SettlesPendingAny(id) == pending # NoReport
SettlesPending(id) == pending.id = id

\* Acknowledge: it settles the attempt's outcome or the pending report it names, and
\* nothing else; a failed save ends the session.
Acknowledge ==
    /\ session = "ready"
    /\ down # <<>>
    /\ LET id == Head(down)
       IN  \/ /\ SettlesOutcome(id)
              /\ \E how \in SaveOutcome :
                 /\ Save(NoAttempt, how)
                 /\ IF how = "ok"
                    THEN /\ attempt' = NoAttempt
                         /\ reported' = attempt.out.addr
                         /\ down' = Tail(down)
                         /\ UNCHANGED <<session, up>>
                    ELSE /\ EndSession
                         /\ UNCHANGED <<attempt, reported>>
              /\ UNCHANGED pending
           \/ /\ ~SettlesOutcome(id)
              /\ IF SettlesPending(id)
                 THEN reported' = pending.addr /\ pending' = NoReport
                 ELSE UNCHANGED <<reported, pending>>
              /\ down' = Tail(down)
              /\ UNCHANGED <<file, attempt, session, up, faults>>
    /\ UNCHANGED <<announce, loopVars, handlerVars, netVars, cloudVars, nextId>>

-----------------------------------------------------------------------------
(* The ChangeIP handler. *)

AddressSettled == reported # Nobody /\ pending = NoReport /\ ~announce

handlerUnchanged == <<reported, pending, announce, loopVars, netVars, session, wireVars,
                      cloudVars, nextId>>
Goto(c, p) == hpc' = [hpc EXCEPT ![c] = p]
Return(c, r) == /\ Goto(c, "done")
                /\ result' = [result EXCEPT ![c] = r]

\* Cloud creates a command for the address it holds (external).
CloudCreates(c) ==
    /\ hpc[c] = "new"
    /\ cloudAddr # Nobody
    /\ \A d \in Command \ {c} : hpc[d] \in {"new", "done"}
    /\ expected' = [expected EXCEPT ![c] = cloudAddr]
    /\ Goto(c, "offered")
    /\ UNCHANGED <<file, attempt, result, triggered, handlerUnchanged, faults>>

\* Accepting, then Run: the preflight observation may fail or not match.
Accept(c) ==
    /\ hpc[c] = "offered"
    /\ session = "ready"
    /\ AddressSettled
    /\ Goto(c, "preflight")
    /\ UNCHANGED <<file, attempt, expected, result, triggered, handlerUnchanged, faults>>

Preflight(c) ==
    /\ hpc[c] = "preflight"
    /\ \/ Return(c, "failed")
       \/ /\ addr = expected[c]
          /\ Goto(c, "arm")
          /\ UNCHANGED result
    /\ UNCHANGED <<file, attempt, expected, triggered, handlerUnchanged, faults>>

\* Mutant: the address may have changed since the offer was accepted.
ArmableUnsettled(c) == attempt = NoAttempt
Armable(c) == attempt = NoAttempt /\ AddressSettled /\ reported = expected[c]

\* Mutant: the error of the save is ignored.
ArmedAnyway(how) == TRUE
Armed(how) == how = "ok"

\* ArmChange: the attempt is on disk before the provider is called.
ArmChange(c) ==
    /\ hpc[c] = "arm"
    /\ IF attempt.cmd = c /\ attempt.addr = expected[c]
       THEN Goto(c, "trigger") /\ UNCHANGED <<result, file, attempt, faults>>
       ELSE IF Armable(c)
       THEN \E how \in SaveOutcome :
            LET next == [cmd |-> c, addr |-> expected[c], confirmations |-> 0, out |-> NoOutcome]
            IN  /\ Save(next, how)
                /\ IF Armed(how)
                   THEN attempt' = next /\ Goto(c, "trigger") /\ UNCHANGED result
                   ELSE Return(c, "failed") /\ UNCHANGED attempt
       ELSE Return(c, "failed") /\ UNCHANGED <<file, attempt, faults>>
    /\ UNCHANGED <<expected, triggered, handlerUnchanged>>

\* provider.Run begins; from here the address may change at any moment.
Trigger(c) ==
    /\ hpc[c] = "trigger"
    /\ triggered' = triggered \cup {c}
    /\ Goto(c, "provider")
    /\ UNCHANGED <<file, attempt, expected, result, handlerUnchanged, faults>>

\* provider.Run ends: confirmed, unknown, or failed for certain.
ProviderReturns(c) ==
    /\ hpc[c] = "provider"
    /\ \/ Return(c, "triggered") \/ Return(c, "unknown")
       \/ /\ c \notin moved
          /\ Goto(c, "cancel")
          /\ UNCHANGED result
    /\ triggered' = IF hpc'[c] = "cancel" THEN triggered \ {c} ELSE triggered
    /\ UNCHANGED <<file, attempt, expected, handlerUnchanged, faults>>

\* Mutant: an attempt whose outcome is on its way is cancelled too.
CancellableSettled(c) == attempt.cmd = c
Cancellable(c) == attempt.cmd = c /\ attempt.out = NoOutcome

\* CancelChange after a certain failure: not once the attempt has an outcome.
CancelChange(c) ==
    /\ hpc[c] = "cancel"
    /\ IF Cancellable(c)
       THEN \E how \in SaveOutcome :
            /\ Save(NoAttempt, how)
            /\ IF how = "ok"
               THEN attempt' = NoAttempt /\ Return(c, "failed")
               ELSE Return(c, "unknown") /\ UNCHANGED attempt
       ELSE Return(c, "unknown") /\ UNCHANGED <<file, attempt, faults>>
    /\ UNCHANGED <<expected, triggered, handlerUnchanged>>

\* Mutant: a run is recovered only when its attempt is found.
RecoverTracked(c) ==
    /\ hpc[c] = "interrupted"
    /\ session = "ready"
    /\ AddressSettled
    /\ attempt.cmd = c
    /\ Return(c, "unknown")
    /\ UNCHANGED <<file, attempt, expected, triggered, handlerUnchanged, faults>>

\* The executor recovers an interrupted run when its offer is accepted again.
Recover(c) ==
    /\ hpc[c] = "interrupted"
    /\ session = "ready"
    /\ AddressSettled
    /\ Return(c, "unknown")
    /\ UNCHANGED <<file, attempt, expected, triggered, handlerUnchanged, faults>>

Handler(c) == \/ Accept(c) \/ Preflight(c) \/ ArmChange(c) \/ Trigger(c)
              \/ ProviderReturns(c) \/ CancelChange(c) \/ Recover(c)

-----------------------------------------------------------------------------
(* Cloud, as docs/PROTOCOL.md describes it (external): each report is stored once *)
(* and acknowledged every time.                                                 *)

\* A change counts as the command's when it began at the address Cloud holds.
CloudJudges(r) == IF r.unchanged THEN "unchanged"
                  ELSE IF expected[r.cmd] = cloudAddr THEN "changed" ELSE "mismatched"

CloudStores ==
    /\ session # "down"
    /\ up # <<>> /\ Len(down) < MaxInFlight
    /\ LET r == Head(up)
           new == r.id \notin stored
       IN  /\ stored' = stored \cup {r.id}
           /\ down' = Append(down, r.id)
           /\ cloudAddr' = IF new /\ ~r.unchanged THEN r.addr ELSE cloudAddr
           /\ outcome' = IF new /\ r.cmd # Nobody
                         THEN [outcome EXCEPT ![r.cmd] = CloudJudges(r)] ELSE outcome
           /\ misread' = IF new /\ r.cmd = Nobody /\ r.addr # cloudAddr
                         THEN misread \cup ({r.cause} \ {Nobody}) ELSE misread
    /\ up' = Tail(up)
    /\ UNCHANGED <<file, monitorVars, loopVars, handlerVars, netVars, session, nextId, faults>>

-----------------------------------------------------------------------------
Next ==
    \/ Crash \/ Connect \/ NotifyControlReady \/ Break \/ Acknowledge
    \/ Loop
    \/ \E a \in Address : NaturalChange(a) \/ \E c \in Command : ProviderChanges(c, a)
    \/ \E c \in Command : GraceElapses(c) \/ CloudCreates(c) \/ Handler(c)
    \/ CloudStores

Spec == Init /\ [][Next]_vars

\* The monitor, the reader, the reconnect loop, the handler, the clock and Cloud
\* keep going; changes of the address, new commands and faults owe nothing.
Fairness ==
    /\ WF_vars(Connect) /\ WF_vars(NotifyControlReady) /\ WF_vars(Acknowledge)
    /\ WF_vars(Loop) /\ WF_vars(CloudStores)
    /\ \A c \in Command : WF_vars(GraceElapses(c)) /\ WF_vars(Handler(c))

FairSpec == Spec /\ Fairness

-----------------------------------------------------------------------------
(* Properties. *)

\* Every variable has its type.
TypeOK ==
    /\ addr \in Address
    /\ cause \in Command \cup {Nobody}
    /\ file \in Attempt \cup {NoAttempt}
    /\ attempt \in Attempt \cup {NoAttempt}
    /\ elapsed \subseteq Command
    /\ reported \in Address \cup {Nobody}
    /\ pending \in Report \cup {NoReport}
    /\ announce \in BOOLEAN
    /\ mpc \in {"step", "observe", "settle", "publish"}
    /\ seen \in [addr : Address, cause : Command \cup {Nobody}] \cup {NotSeen}
    /\ outgoing \in Report \cup {NoReport}
    /\ hpc \in [Command -> {"new", "offered", "preflight", "arm", "trigger", "provider",
                            "cancel", "interrupted", "done"}]
    /\ expected \in [Command -> Address \cup {Nobody}]
    /\ result \in [Command -> {"none", "failed", "unknown", "triggered"}]
    /\ triggered \subseteq Command /\ moved \subseteq triggered /\ misread \subseteq moved
    /\ session \in {"down", "active", "ready"}
    /\ up \in Seq(Report) /\ down \in Seq(Id)
    /\ cloudAddr \in Address \cup {Nobody}
    /\ outcome \in [Command -> {"none", "changed", "unchanged", "mismatched"}]
    /\ stored \subseteq Id
    /\ nextId \in 1..(MaxReports + 1)

\* When a ChangeIP may be armed, Cloud holds the very address it would be armed with:
\* a late acknowledgement never settles a newer report, and no report older than the
\* acknowledged one is still to be stored (ArmChange, AddressSettled, Acknowledge).
SettledIsStored == AddressSettled /\ attempt = NoAttempt => cloudAddr = reported

\* Once its provider was called, a command is being reconciled on disk until Cloud
\* has stored how it ended, or the provider failed for certain: no crash and no
\* failed save loses it (ArmChange before provider.Run, Acknowledge).
TriggeredIsTracked ==
    \A c \in triggered : file.cmd = c \/ outcome[c] # "none"

\* A command that failed never gets an outcome: cancelling races with the monitor
\* settling the same attempt, and one of them wins (CancelChange).  A save that failed
\* after its rename is the exception: it leaves an attempt only the disk knows.
FailedHasNoOutcome ==
    faults["save"] = 0 => \A c \in Command : result[c] = "failed" => outcome[c] = "none"

\* When the node reports how a command ended, Cloud still holds the address the
\* command started from: no other report of the address got in between
\* (Monitor.stepIPv4, NotifyControlReady, ArmChange), with the same exception.
OutcomeFitsCloud ==
    faults["save"] = 0 => \A c \in Command : outcome[c] # "mismatched"

\* A change the provider caused is never stored by Cloud as a natural one, unless
\* Cloud was told of a command that nothing changed (Monitor.stepIPv4): that provider's
\* late change is a natural one, or the next attempt takes it for its own and leaves
\* that one's change without its command.  This takes a node whose address changes only
\* by ChangeIP: a natural change settles an open attempt too.
CausedIsAttributed ==
    faults["natural"] = 0 /\ (\A c \in Command : outcome[c] # "unchanged") => misread = {}

\* In the end Cloud holds the node's address.
CloudLearnsAddress == <>[](cloudAddr = addr)

\* Every command that is offered ends with a result: an open attempt, or an address
\* not yet stored, holds it up only for a while.
CommandsEnd ==
    \A c \in Command : hpc[c] = "offered" ~> (hpc[c] = "done")
==============================================================================
