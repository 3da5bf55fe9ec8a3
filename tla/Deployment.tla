------------------------------ MODULE Deployment ------------------------------
(***************************************************************************)
(* The two slots of an installation, and who may write them.               *)
(*                                                                         *)
(*   internal/layout/layout.go     slots, the current link, the lock       *)
(*   internal/update/updater.go    Updater.apply: prepare, record, exec    *)
(*   internal/update/attempts.go   the bounded attempts of one target      *)
(*   internal/daemon/run.go        a candidate activates itself or exits   *)
(*   internal/install/install.go   Install, an operator's process          *)
(*                                                                         *)
(* A target stands for a version and a configuration revision; Cloud       *)
(* approves ascending ones.  systemd, Cloud and the operator are external. *)
(* Whether the node is busy (the lifecycle gate, module CommandPath) is a  *)
(* reason among others why an update is not applied now.                   *)
(***************************************************************************)
EXTENDS Integers, FiniteSets

CONSTANTS
    MaxTarget,    \* targets Cloud approves, 1..MaxTarget
    Bad,          \* targets whose candidate Cloud never accepts
    MaxFaults     \* how often each kind of event from outside happens

FaultKind == {"crash", "fail", "install", "installFails"}
ASSUME MaxTargetType == MaxTarget \in Nat \ {0}
ASSUME BadType == Bad \subseteq 2..MaxTarget
ASSUME MaxFaultsType == MaxFaults \in [FaultKind -> Nat]

VARIABLES
    slot,      \* the binary and the configuration in each slot, 0 when missing
    current,   \* the slot the current link points to
    lock,      \* who holds .maintenance.lock
    record,    \* update-attempt.json
    proc,      \* the Agent's process
    upc,       \* where its updater is
    update,    \* the slot and the target the updater works on
    ipc,       \* where the installer is
    install,   \* the slot and the target the installer works on
    unit,      \* the systemd unit exists
    diskKey,   \* identity.json
    cloudKey,  \* the key Cloud has enrolled
    target,    \* the target Cloud approves
    tries,     \* candidates of a target started since it last paused
    faults

diskVars    == <<slot, current, record>>
agentVars   == <<proc, upc, update>>
installVars == <<ipc, install>>
keyVars     == <<diskKey, cloudKey>>
vars == <<diskVars, lock, agentVars, installVars, unit, keyVars, target, tries, faults>>

Slot == {"a", "b"}
Target == 1..MaxTarget
NoSlot == "none"
Content == [bin : Target \cup {0}, cfg : Target \cup {0}]
Empty == [bin |-> 0, cfg |-> 0]
Whole(t) == [bin |-> t, cfg |-> t]
Complete(s) == slot[s].bin # 0 /\ slot[s].cfg # 0

NoRecord == [target |-> 0, attempts |-> 0, recent |-> FALSE]
\* maxConsecutiveAttempts; the record's counter is only compared with it.
MaxAttempts == 2

Nothing == [slot |-> NoSlot, target |-> 0]
\* "stopped": systemd does not start it; "down": systemd starts it again.
Process(pc, s, c, key) == [pc |-> pc, slot |-> s, bin |-> c.bin, cfg |-> c.cfg, key |-> key]
Down == Process("down", NoSlot, Empty, 0)
Stopped == Process("stopped", NoSlot, Empty, 0)

\* A host without the Agent, or one that runs the first target.
Init ==
    /\ \/ /\ slot = [s \in Slot |-> Empty]
          /\ current = NoSlot
          /\ unit = FALSE
          /\ proc = Stopped
          /\ diskKey = 0 /\ cloudKey = 0
       \/ /\ slot = [s \in Slot |-> IF s = "a" THEN Whole(1) ELSE Empty]
          /\ current = "a"
          /\ unit = TRUE
          /\ proc = Process("serve", NoSlot, Whole(1), 1)
          /\ diskKey = 1 /\ cloudKey = 1
    /\ lock = "free"
    /\ record = NoRecord
    /\ upc = "idle"
    /\ update = Nothing
    /\ ipc = "none"
    /\ install = Nothing
    /\ target = 1
    /\ tries = [t \in Target |-> 0]
    /\ faults = [k \in FaultKind |-> 0]

Fault(k) == /\ faults[k] < MaxFaults[k]
            /\ faults' = [faults EXCEPT ![k] = @ + 1]

\* Layout.InactiveSlot: slot a when there is no current link.
InactiveSlot == IF current = "a" THEN "b" ELSE "a"

-----------------------------------------------------------------------------
(* The process and systemd. *)

\* systemd runs the binary and the configuration behind the current link, which is
\* not a slot's own path: such a process is no candidate.
Start ==
    /\ proc.pc = "down"
    /\ current # NoSlot
    /\ Complete(current)
    /\ proc' = Process("serve", NoSlot, slot[current], diskKey)
    /\ UNCHANGED <<diskVars, lock, upc, update, installVars, unit, keyVars, target, tries, faults>>

\* The process ends: its locks go with it.
Exit ==
    /\ proc' = Down
    /\ upc' = "idle"
    /\ update' = Nothing
    /\ lock' = IF lock = "agent" THEN "free" ELSE lock

Crash ==
    /\ proc.pc \notin {"down", "stopped"}
    /\ Fault("crash")
    /\ Exit
    /\ UNCHANGED <<diskVars, installVars, unit, keyVars, target, tries>>

-----------------------------------------------------------------------------
(* Updater.apply, in the serving process. *)

updateUnchanged == <<current, proc, installVars, unit, keyVars, target>>

\* Mutant: a target that failed twice is never tried again.
AllowedTwice(t) == record.target # t \/ record.attempts < MaxAttempts

\* attemptRecord.allowed: twice in a row, then once per six hours.
Allowed(t) ==
    \/ record.target # t
    \/ record.attempts < MaxAttempts
    \/ ~record.recent

\* check found an update, apply took the lock and the target may be tried.
ApplyBegins ==
    /\ proc.pc = "serve"
    /\ upc = "idle"
    /\ proc.key = cloudKey
    /\ Whole(target) # [bin |-> proc.bin, cfg |-> proc.cfg]
    /\ lock = "free"
    /\ Allowed(target)
    /\ lock' = "agent"
    /\ upc' = "clear"
    /\ update' = [slot |-> InactiveSlot, target |-> target]
    /\ UNCHANGED <<slot, record, updateUnchanged, tries, faults>>

Write(who, from, to, c) ==
    /\ upc = from
    /\ upc' = to
    /\ slot' = [slot EXCEPT ![who.slot] = c]

PrepareSlot ==
    /\ Write(update, "clear", "binary", Empty)
    /\ UNCHANGED <<record, lock, update, updateUnchanged, tries, faults>>

WriteBinary ==
    /\ Write(update, "binary", "config", [slot[update.slot] EXCEPT !.bin = update.target])
    /\ UNCHANGED <<record, lock, update, updateUnchanged, tries, faults>>

\* The configuration, then the candidate's own version and prepare.
WriteConfig ==
    /\ Write(update, "config", "record", [slot[update.slot] EXCEPT !.cfg = update.target])
    /\ UNCHANGED <<record, lock, update, updateUnchanged, tries, faults>>

NextRecord ==
    [target |-> update.target, recent |-> TRUE,
     attempts |-> IF record.target # update.target THEN 1
                  ELSE IF record.attempts < MaxAttempts THEN record.attempts + 1
                  ELSE record.attempts]

\* Mutant: the attempt is not saved before the process is replaced.
RecordLater ==
    /\ upc = "record"
    /\ upc' = "exec"
    /\ UNCHANGED <<record, slot, lock, update, updateUnchanged, tries, faults>>

\* The attempt is on disk before the process is replaced.
RecordAttempt ==
    /\ upc = "record"
    /\ record' = NextRecord
    /\ upc' = "exec"
    /\ UNCHANGED <<slot, lock, update, updateUnchanged, tries, faults>>

\* Any step fails, or the node is busy: the lock is released, what was written stays.
\* A save may report an error although the record was replaced.
ApplyFails ==
    /\ upc # "idle"
    /\ Fault("fail")
    /\ record' \in IF upc = "record" THEN {record, NextRecord} ELSE {record}
    /\ lock' = "free"
    /\ upc' = "idle"
    /\ update' = Nothing
    /\ UNCHANGED <<slot, updateUnchanged, tries>>

\* The candidate replaces the process; the lock is close-on-exec.
Exec ==
    /\ upc = "exec"
    /\ proc' = Process("boot", update.slot, [slot[update.slot] EXCEPT !.cfg = 0], 0)
    /\ tries' = [tries EXCEPT ![update.target] = IF @ > MaxAttempts THEN @ ELSE @ + 1]
    /\ lock' = "free"
    /\ upc' = "idle"
    /\ update' = Nothing
    /\ UNCHANGED <<diskVars, installVars, unit, keyVars, target, faults>>

\* retryExhaustedAfter passes since the recorded attempt; no update takes that long.
SixHours ==
    /\ record.recent
    /\ proc.pc = "serve" /\ upc = "idle"
    /\ record' = [record EXCEPT !.recent = FALSE]
    /\ tries' = [tries EXCEPT ![record.target] = 0]
    /\ UNCHANGED <<slot, current, lock, agentVars, installVars, unit, keyVars, target, faults>>

-----------------------------------------------------------------------------
(* daemon.Run of a candidate. *)

candidateUnchanged == <<slot, record, installVars, unit, keyVars, target, tries>>

\* It reads its slot's configuration and the identity and finds that current
\* points elsewhere.
CandidateLoads ==
    /\ proc.pc = "boot"
    /\ LET cfg == slot[proc.slot].cfg
       IN  IF cfg = 0 THEN Exit
           ELSE /\ proc' = [proc EXCEPT !.cfg = cfg, !.key = diskKey,
                                        !.pc = IF proc.slot = current THEN "serve" ELSE "candidate"]
                /\ UNCHANGED <<lock, upc, update>>
    /\ UNCHANGED <<current, candidateUnchanged, faults>>

\* hello.accepted: onReady runs before any business message.
CandidateAccepted ==
    /\ proc.pc = "candidate"
    /\ proc.key = cloudKey
    /\ proc.bin \notin Bad
    /\ proc' = [proc EXCEPT !.pc = "activate"]
    /\ UNCHANGED <<current, lock, upc, update, candidateUnchanged, faults>>

\* Mutant: a candidate has no deadline.
CandidateWaits ==
    /\ proc.pc = "candidate"
    /\ Fault("fail")
    /\ Exit
    /\ UNCHANGED <<current, candidateUnchanged>>

\* CandidateTimeout, an invalid runtime, a refused hello: it exits.
CandidateFails ==
    /\ proc.pc = "candidate"
    /\ IF proc.bin \in Bad \/ proc.key # cloudKey THEN UNCHANGED faults ELSE Fault("fail")
    /\ Exit
    /\ UNCHANGED <<current, candidateUnchanged>>

\* Mutant: the candidate activates itself without the lock.
ActivateUnlocked ==
    /\ proc.pc = "activate"
    /\ current' = proc.slot
    /\ proc' = [proc EXCEPT !.pc = "serve", !.slot = NoSlot]
    /\ UNCHANGED <<lock, upc, update, candidateUnchanged, faults>>

\* Mutant: an activation that failed is not fatal.
ActivateAnyway ==
    /\ proc.pc = "activate"
    /\ \/ lock = "free" /\ current' = proc.slot
       \/ UNCHANGED current
    /\ proc' = [proc EXCEPT !.pc = "serve", !.slot = NoSlot]
    /\ UNCHANGED <<lock, upc, update, candidateUnchanged, faults>>

\* activate under the lock; an error ends the process, also one after the rename.
Activate ==
    /\ proc.pc = "activate"
    /\ \/ /\ lock = "free"
          /\ current' = proc.slot
          /\ proc' = [proc EXCEPT !.pc = "serve", !.slot = NoSlot]
          /\ UNCHANGED <<lock, upc, update, faults>>
       \/ /\ lock = "free"
          /\ Fault("fail")
          /\ current' \in {current, proc.slot}
          /\ Exit
       \/ /\ lock # "free"
          /\ Exit
          /\ UNCHANGED <<current, faults>>
    /\ UNCHANGED candidateUnchanged

-----------------------------------------------------------------------------
(* Install: it holds the lock from its first step to its last. *)

installUnchanged == <<upc, update, target, tries>>

InstallBegins ==
    /\ ipc = "none"
    /\ lock = "free"
    /\ Fault("install")
    /\ lock' = "installer"
    /\ ipc' = "clear"
    /\ install' = [slot |-> InactiveSlot, target |-> target]
    /\ UNCHANGED <<diskVars, proc, unit, keyVars, installUnchanged>>

InstallWrites(from, to, c) ==
    /\ ipc = from
    /\ ipc' = to
    /\ slot' = [slot EXCEPT ![install.slot] = c]
    /\ UNCHANGED <<current, record, lock, proc, install, unit, keyVars, installUnchanged, faults>>

InstallClears == InstallWrites("clear", "binary", Empty)
InstallBinary == InstallWrites("binary", "config", [slot[install.slot] EXCEPT !.bin = install.target])
InstallConfig == InstallWrites("config", "enroll", [slot[install.slot] EXCEPT !.cfg = install.target])

\* From here only the new key can authenticate.
Enroll ==
    /\ ipc = "enroll"
    /\ ipc' = "stop"
    /\ cloudKey' = cloudKey + 1
    /\ UNCHANGED <<diskVars, lock, proc, install, unit, diskKey, installUnchanged, faults>>

\* systemctl stop, when there is a unit to stop.
InstallStops ==
    /\ ipc = "stop"
    /\ ipc' = "identity"
    /\ proc' = IF unit THEN Stopped ELSE proc
    /\ UNCHANGED <<diskVars, lock, install, unit, keyVars, installUnchanged, faults>>

SaveIdentity ==
    /\ ipc = "identity"
    /\ ipc' = "activate"
    /\ diskKey' = cloudKey
    /\ UNCHANGED <<diskVars, lock, proc, install, unit, cloudKey, installUnchanged, faults>>

InstallActivates ==
    /\ ipc = "activate"
    /\ ipc' = "clean"
    /\ current' = install.slot
    /\ UNCHANGED <<slot, record, lock, proc, install, unit, keyVars, installUnchanged, faults>>

\* The attempts start anew.
RemoveAttempts ==
    /\ ipc = "clean"
    /\ ipc' = "unit"
    /\ record' = NoRecord
    /\ tries' = [t \in Target |-> 0]
    /\ UNCHANGED <<slot, current, lock, proc, install, unit, keyVars, upc, update, target, faults>>

WriteUnit ==
    /\ ipc = "unit"
    /\ ipc' = "restart"
    /\ unit' = TRUE
    /\ UNCHANGED <<diskVars, lock, proc, install, keyVars, installUnchanged, faults>>

\* systemctl restart, which returns once the Agent reports that it runs.
InstallRestarts ==
    /\ ipc = "restart"
    /\ ipc' = "done"
    /\ proc' = Down
    /\ UNCHANGED <<diskVars, lock, install, unit, keyVars, installUnchanged, faults>>

InstallEnds ==
    /\ ipc = "done"
    /\ ipc' = "none"
    /\ install' = Nothing
    /\ lock' = "free"
    /\ UNCHANGED <<diskVars, proc, unit, keyVars, installUnchanged, faults>>

\* Any step fails or the operator gives up: the lock is released, the rest stays.
InstallFails ==
    /\ ipc # "none"
    /\ Fault("installFails")
    /\ ipc' = "none"
    /\ install' = Nothing
    /\ lock' = "free"
    /\ cloudKey' \in IF ipc = "enroll" THEN {cloudKey, cloudKey + 1} ELSE {cloudKey}
    /\ UNCHANGED <<diskVars, proc, unit, diskKey, installUnchanged>>

Installer == \/ InstallClears \/ InstallBinary \/ InstallConfig \/ Enroll \/ InstallStops
             \/ SaveIdentity \/ InstallActivates \/ RemoveAttempts \/ WriteUnit
             \/ InstallRestarts \/ InstallEnds

\* Cloud approves the next target (external).
Approve ==
    /\ target < MaxTarget
    /\ target' = target + 1
    /\ UNCHANGED <<diskVars, lock, agentVars, installVars, unit, keyVars, tries, faults>>

-----------------------------------------------------------------------------
Apply == \/ ApplyBegins \/ PrepareSlot \/ WriteBinary \/ WriteConfig \/ RecordAttempt \/ Exec
Candidate == CandidateLoads \/ CandidateAccepted \/ Activate

Next ==
    \/ Start \/ Crash
    \/ Apply \/ ApplyFails \/ SixHours
    \/ Candidate \/ CandidateFails
    \/ InstallBegins \/ Installer \/ InstallFails
    \/ Approve

Spec == Init /\ [][Next]_vars

\* systemd, the updater, a candidate (its deadline included), the installer once
\* it began, and the clock keep going.
Fairness ==
    /\ WF_vars(Start) /\ WF_vars(Apply) /\ WF_vars(Installer) /\ WF_vars(SixHours)
    /\ WF_vars(Candidate \/ CandidateFails)

FairSpec == Spec /\ Fairness

-----------------------------------------------------------------------------
(* Properties. *)

\* Every variable has its type.
TypeOK ==
    /\ slot \in [Slot -> Content]
    /\ current \in Slot \cup {NoSlot}
    /\ lock \in {"free", "agent", "installer"}
    /\ record \in [target : Target, attempts : 1..MaxAttempts, recent : BOOLEAN] \cup {NoRecord}
    /\ proc \in [pc : {"stopped", "down", "boot", "candidate", "activate", "serve"},
                 slot : Slot \cup {NoSlot}, bin : Target \cup {0}, cfg : Target \cup {0}, key : Nat]
    /\ upc \in {"idle", "clear", "binary", "config", "record", "exec"}
    /\ update \in [slot : Slot, target : Target] \cup {Nothing}
    /\ ipc \in {"none", "clear", "binary", "config", "enroll", "stop", "identity",
                "activate", "clean", "unit", "restart", "done"}
    /\ install \in [slot : Slot, target : Target] \cup {Nothing}
    /\ unit \in BOOLEAN
    /\ diskKey \in Nat /\ cloudKey \in Nat
    /\ target \in Target
    /\ tries \in [Target -> 0..(MaxAttempts + 1)]

\* The deployment systemd would start is never written to, whoever prepares the
\* other slot and whatever fails on the way (InactiveSlot under the lock).
ActiveUntouched == [][\A s \in Slot : slot'[s] # slot[s] => s # current /\ s # current']_vars

\* current never points at a slot without a binary or a configuration, which
\* systemd could not start (daemon.activate and Install under one lock).
CurrentIsComplete == current # NoSlot => Complete(current)

\* Where no installation fails, current always points at a binary with its
\* configuration: a candidate activates only what the updater completed (activate,
\* under the lock).
CurrentIsBootable == faults["installFails"] = 0 => CurrentIsComplete

\* What a serving process runs is what current holds: a restart never changes the
\* version or the configuration behind Cloud's back (daemon.activate), unless a
\* failed installation cleared the slot of a candidate.
RunningIsCurrent ==
    proc.pc = "serve" /\ faults["installFails"] = 0 => current # NoSlot /\ slot[current] = [bin |-> proc.bin, cfg |-> proc.cfg]

\* One target replaces the process at most twice in six hours, over crashes, failed
\* saves and candidates that never report: no restart loop (attempts.go).
NoRestartLoop == \A t \in Target : tries[t] <= MaxAttempts

\* An installed node serves again and again, whatever its candidates do.  A failed
\* installation may leave it stopped: the operator runs the installer again.
NodeServes == [](faults["installFails"] = 0) => []<>(proc.pc = "serve" \/ ~unit)

\* An installed node ends up with the target Cloud approves, unless Cloud never
\* accepts its candidate: exhausted attempts do not block it for good.
UpdateConverges ==
    [](faults["installFails"] = 0) => <>[](~unit \/ target \in Bad \/ (proc.pc = "serve" /\ proc.bin = target))
==============================================================================
