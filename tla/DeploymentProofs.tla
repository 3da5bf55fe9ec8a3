--------------------------- MODULE DeploymentProofs ---------------------------
(***************************************************************************)
(* Proofs about Deployment, for every number of targets, every set of bad  *)
(* ones and every number of faults.                                        *)
(***************************************************************************)
EXTENDS Deployment, TLAPS

\* Who holds the lock, and on which slot the holder works.
LockInv ==
    /\ upc # "idle" <=> lock = "agent"
    /\ ipc # "none" <=> lock = "installer"
    /\ upc # "idle" => update # Nothing /\ update.slot = InactiveSlot
    /\ ipc # "none" => install # Nothing
    /\ ipc \in {"clear", "binary", "config"} => install.slot = InactiveSlot
    /\ proc.pc \in {"boot", "candidate", "activate"} => proc.slot \in Slot

SlotInv == TypeOK /\ LockInv

\* The slot that may be overwritten is a slot, and not the current one.
LEMMA InactiveIsOther == InactiveSlot \in Slot /\ InactiveSlot # current
BY DEF InactiveSlot, Slot

\* The types of an installed and of an empty slot, and of the records that stand
\* for nothing.
LEMMA Constants ==
    /\ 1 \in Target
    /\ Empty \in Content
    /\ \A t \in Target : Whole(t) \in Content
    /\ Nothing.slot \notin Slot
    /\ NoRecord.target = 0
BY MaxTargetType DEF Target, Empty, Content, Whole, Nothing, NoSlot, Slot, NoRecord

ProcType == [pc : {"stopped", "down", "boot", "candidate", "activate", "serve"},
             slot : Slot \cup {NoSlot}, bin : Target \cup {0}, cfg : Target \cup {0}, key : Nat]

\* A process made of a slot's contents is typed.
LEMMA ProcessTyped ==
    /\ Down \in ProcType
    /\ Stopped \in ProcType
    /\ \A pc \in {"boot", "serve"}, s \in Slot \cup {NoSlot}, c \in Content, key \in Nat :
           Process(pc, s, c, key) \in ProcType
BY SMT DEF ProcType, Down, Stopped, Process, Empty, Content

\* Initially every variable has its type.
LEMMA InitTyped == Init => SlotInv
<1> SUFFICES ASSUME Init PROVE SlotInv
    OBVIOUS
<1>1. slot \in [Slot -> Content] /\ current \in Slot \cup {NoSlot}
    <2>1. CASE slot = [s \in Slot |-> Empty] /\ current = NoSlot
        BY <2>1, Constants
    <2>2. CASE slot = [s \in Slot |-> IF s = "a" THEN Whole(1) ELSE Empty] /\ current = "a"
        BY <2>2, Constants DEF Slot
    <2> QED BY <2>1, <2>2 DEF Init
<1>2. proc \in ProcType
    <2>1. CASE proc = Stopped
        BY <2>1, ProcessTyped
    <2>2. CASE proc = Process("serve", NoSlot, Whole(1), 1)
        BY <2>2, ProcessTyped, Constants
    <2> QED BY <2>1, <2>2 DEF Init
<1>3. unit \in BOOLEAN
    BY Zenon DEF Init
<1>4. diskKey \in Nat /\ cloudKey \in Nat
    BY DEF Init
<1>5. tries \in [Target -> 0..(MaxAttempts + 1)]
    BY DEF Init, MaxAttempts
<1>6. TypeOK
    BY <1>1, <1>2, <1>3, <1>4, <1>5, Constants DEF Init, TypeOK, ProcType
<1>7. LockInv
    BY DEF Init, LockInv, Stopped, Process
<1> QED BY <1>6, <1>7 DEF SlotInv

\* The end of the process frees the lock it holds.
LEMMA ExitKeeps ==
    ASSUME SlotInv, Exit, UNCHANGED <<slot, current, record, installVars, unit, keyVars, target, tries>>
    PROVE  SlotInv'
<1> USE DEF installVars, keyVars
<1>1. proc' \in ProcType
    BY ProcessTyped DEF Exit
<1>2. TypeOK'
    BY <1>1 DEF SlotInv, TypeOK, Exit, ProcType
<1>3. LockInv'
    BY DEF SlotInv, LockInv, Exit, InactiveSlot, Down, Process
<1> QED BY <1>2, <1>3 DEF SlotInv

\* A step of the process or of systemd.
LEMMA ProcessKeeps == ASSUME SlotInv, Start \/ Crash PROVE SlotInv'
<1> USE DEF diskVars, installVars, keyVars
<1>1. CASE Start
    <2>1. proc' \in ProcType
        BY <1>1, ProcessTyped DEF SlotInv, TypeOK, Start
    <2>2. TypeOK'
        BY <1>1, <2>1 DEF SlotInv, TypeOK, Start, ProcType
    <2>3. LockInv'
        BY <1>1 DEF SlotInv, LockInv, Start, InactiveSlot, Process
    <2> QED BY <2>2, <2>3 DEF SlotInv
<1>2. CASE Crash
    BY <1>2, ExitKeeps DEF Crash
<1> QED BY <1>1, <1>2

\* A step of the updater: it works under its lock, on the slot that is not current.
LEMMA UpdaterKeeps == ASSUME SlotInv, Apply \/ ApplyFails \/ SixHours PROVE SlotInv'
<1> USE DEF updateUnchanged, diskVars, agentVars, installVars, keyVars
<1>1. CASE ApplyBegins
    <2>1. update' \in [slot : Slot, target : Target] /\ update' # Nothing
        BY <1>1, InactiveIsOther, Constants DEF SlotInv, TypeOK, ApplyBegins
    <2>2. TypeOK'
        BY <1>1, <2>1 DEF SlotInv, TypeOK, ApplyBegins
    <2>3. LockInv'
        BY <1>1, <2>1 DEF SlotInv, LockInv, ApplyBegins, InactiveSlot
    <2> QED BY <2>2, <2>3 DEF SlotInv
<1>2. ASSUME NEW from \in {"clear", "binary", "config"}, NEW to \in {"binary", "config", "record"},
             NEW c \in Content, Write(update, from, to, c),
             UNCHANGED <<record, lock, update, updateUnchanged, tries, faults>>
      PROVE  SlotInv'
    <2>1. slot' \in [Slot -> Content]
        BY <1>2 DEF SlotInv, TypeOK, Write
    <2>2. TypeOK'
        BY <1>2, <2>1 DEF SlotInv, TypeOK, Write
    <2>3. LockInv'
        BY <1>2 DEF SlotInv, LockInv, Write, InactiveSlot
    <2> QED BY <2>2, <2>3 DEF SlotInv
<1>3. ASSUME upc # "idle"
      PROVE  /\ update.slot \in Slot /\ update.target \in Target
             /\ slot[update.slot] \in Content
    BY <1>3, Constants DEF SlotInv, TypeOK, LockInv
<1>4. CASE PrepareSlot
    BY <1>4, <1>2, Constants DEF PrepareSlot
<1>5. CASE WriteBinary
    <2>1. [slot[update.slot] EXCEPT !.bin = update.target] \in Content
        BY <1>5, <1>3 DEF WriteBinary, Write, Content
    <2> QED BY <1>5, <1>2, <2>1 DEF WriteBinary
<1>6. CASE WriteConfig
    <2>1. [slot[update.slot] EXCEPT !.cfg = update.target] \in Content
        BY <1>6, <1>3 DEF WriteConfig, Write, Content
    <2> QED BY <1>6, <1>2, <2>1 DEF WriteConfig
<1>7. ASSUME upc # "idle"
      PROVE  NextRecord \in [target : Target, attempts : 1..MaxAttempts, recent : BOOLEAN]
    <2>1. record.target = update.target => record.attempts \in 1..MaxAttempts
        BY <1>3, <1>7 DEF SlotInv, TypeOK, NoRecord, Target
    <2> QED BY <1>3, <1>7, <2>1 DEF NextRecord, MaxAttempts
<1>8. CASE RecordAttempt
    <2>1. TypeOK'
        BY <1>8, <1>7 DEF SlotInv, TypeOK, RecordAttempt
    <2>2. LockInv'
        BY <1>8 DEF SlotInv, LockInv, RecordAttempt, InactiveSlot
    <2> QED BY <2>1, <2>2 DEF SlotInv
<1>9. CASE Exec
    <2>1. proc' \in ProcType
        <3>1. [slot[update.slot] EXCEPT !.cfg = 0] \in Content
            BY <1>9, <1>3 DEF Exec, Content
        <3> QED BY <1>9, <1>3, <3>1, ProcessTyped DEF Exec
    <2>2. tries' \in [Target -> 0..(MaxAttempts + 1)]
        <3>1. tries[update.target] \in 0..(MaxAttempts + 1)
            BY <1>9, <1>3 DEF Exec, SlotInv, TypeOK
        <3> DEFINE n == IF tries[update.target] > MaxAttempts THEN tries[update.target]
                        ELSE tries[update.target] + 1
        <3>2. n \in 0..(MaxAttempts + 1)
            BY <3>1 DEF MaxAttempts
        <3>3. tries' = [tries EXCEPT ![update.target] = n]
            BY <1>9 DEF Exec
        <3> QED BY <3>2, <3>3 DEF SlotInv, TypeOK
    <2>3. TypeOK'
        BY <1>9, <2>1, <2>2 DEF SlotInv, TypeOK, Exec, ProcType
    <2>4. LockInv'
        BY <1>9, <1>3 DEF SlotInv, LockInv, Exec, InactiveSlot, Process
    <2> QED BY <2>3, <2>4 DEF SlotInv
<1>10. CASE ApplyFails
    <2>1. TypeOK'
        BY <1>10, <1>7 DEF SlotInv, TypeOK, ApplyFails
    <2>2. LockInv'
        BY <1>10 DEF SlotInv, LockInv, ApplyFails, InactiveSlot
    <2> QED BY <2>1, <2>2 DEF SlotInv
<1>11. CASE SixHours
    <2>1. record' \in [target : Target, attempts : 1..MaxAttempts, recent : BOOLEAN]
        <3>1. record # NoRecord
            BY <1>11 DEF SixHours, NoRecord
        <3>2. record \in [target : Target, attempts : 1..MaxAttempts, recent : BOOLEAN]
            BY <3>1 DEF SlotInv, TypeOK
        <3> QED BY <1>11, <3>2 DEF SixHours
    <2>2. tries' \in [Target -> 0..(MaxAttempts + 1)]
        <3>1. 0 \in 0..(MaxAttempts + 1)
            BY DEF MaxAttempts
        <3> QED BY <1>11, <3>1 DEF SixHours, SlotInv, TypeOK
    <2>3. TypeOK'
        BY <1>11, <2>1, <2>2 DEF SlotInv, TypeOK, SixHours
    <2>4. LockInv'
        BY <1>11 DEF SlotInv, LockInv, SixHours, InactiveSlot
    <2> QED BY <2>3, <2>4 DEF SlotInv
<1> QED BY <1>1, <1>4, <1>5, <1>6, <1>8, <1>9, <1>10, <1>11 DEF Apply

\* A step of a candidate: it moves the current link only when nobody holds the lock.
LEMMA CandidateKeeps == ASSUME SlotInv, Candidate \/ CandidateFails PROVE SlotInv'
<1> USE DEF candidateUnchanged, installVars, keyVars
<1>1. CASE CandidateLoads
    <2>1. CASE slot[proc.slot].cfg = 0
        BY <1>1, <2>1, ExitKeeps DEF CandidateLoads
    <2>2. CASE slot[proc.slot].cfg # 0
        <3> DEFINE cfg == slot[proc.slot].cfg
        <3>1. PICK pc \in {"serve", "candidate"} :
                  proc' = [proc EXCEPT !.cfg = cfg, !.key = diskKey, !.pc = pc]
            BY <1>1, <2>2 DEF CandidateLoads
        <3>2. proc' \in ProcType
            <4>1. proc.slot \in Slot
                BY <1>1 DEF CandidateLoads, SlotInv, LockInv
            <4>2. cfg \in Target \cup {0}
                BY <4>1 DEF SlotInv, TypeOK, Content
            <4> QED BY <3>1, <4>2 DEF SlotInv, TypeOK, ProcType
        <3>3. TypeOK'
            BY <1>1, <2>2, <3>2 DEF CandidateLoads, SlotInv, TypeOK, ProcType
        <3>4. LockInv'
            BY <1>1, <2>2, <3>1 DEF CandidateLoads, SlotInv, TypeOK, LockInv, InactiveSlot
        <3> QED BY <3>3, <3>4 DEF SlotInv
    <2> QED BY <2>1, <2>2
<1>2. CASE CandidateAccepted
    <2>1. TypeOK'
        BY <1>2 DEF CandidateAccepted, SlotInv, TypeOK
    <2>2. LockInv'
        BY <1>2 DEF CandidateAccepted, SlotInv, TypeOK, LockInv, InactiveSlot
    <2> QED BY <2>1, <2>2 DEF SlotInv
<1>3. CASE Activate
    <2>1. TypeOK'
        <3>1. proc' \in ProcType
            BY <1>3, ProcessTyped DEF Activate, Exit, SlotInv, TypeOK, ProcType
        <3>2. current' \in Slot \cup {NoSlot}
            BY <1>3 DEF Activate, SlotInv, TypeOK
        <3>3. /\ lock' \in {"free", "agent", "installer"}
              /\ upc' \in {"idle", "clear", "binary", "config", "record", "exec"}
              /\ update' \in [slot : Slot, target : Target] \cup {Nothing}
            BY <1>3 DEF Activate, Exit, SlotInv, TypeOK
        <3> QED BY <1>3, <3>1, <3>2, <3>3 DEF Activate, SlotInv, TypeOK, ProcType
    <2>2. LockInv'
        <3>1. CASE lock # "free"
            BY <1>3, <3>1 DEF Activate, Exit, Down, Process, SlotInv, LockInv, InactiveSlot
        <3>2. CASE lock = "free"
            <4>1. upc = "idle" /\ ipc = "none"
                BY <3>2 DEF SlotInv, LockInv
            <4>2. lock' = "free" /\ upc' = "idle" /\ ipc' = "none"
                BY <1>3, <3>2, <4>1 DEF Activate, Exit
            <4>3. proc'.pc \in {"serve", "down"}
                <5>1. \/ proc' = [proc EXCEPT !.pc = "serve", !.slot = NoSlot]
                      \/ proc' = Down
                    BY <1>3, <3>2 DEF Activate, Exit
                <5>2. proc \in ProcType
                    BY DEF SlotInv, TypeOK, ProcType
                <5>3. CASE proc' = [proc EXCEPT !.pc = "serve", !.slot = NoSlot]
                    BY <5>2, <5>3 DEF ProcType
                <5>4. CASE proc' = Down
                    BY <5>4 DEF Down, Process
                <5> QED BY <5>1, <5>3, <5>4
            <4> QED BY <4>2, <4>3 DEF LockInv
        <3> QED BY <3>1, <3>2
    <2> QED BY <2>1, <2>2 DEF SlotInv
<1>4. CASE CandidateFails
    BY <1>4, ExitKeeps DEF CandidateFails
<1> QED BY <1>1, <1>2, <1>3, <1>4 DEF Candidate

\* A step of the installer: it holds the lock throughout, so the slot it chose
\* stays the inactive one until it activates it.
LEMMA InstallerKeeps == ASSUME SlotInv, InstallBegins \/ Installer \/ InstallFails PROVE SlotInv'
<1> USE DEF installUnchanged, diskVars, installVars, keyVars
<1>1. CASE InstallBegins
    <2>1. install' \in [slot : Slot, target : Target] /\ install' # Nothing
        BY <1>1, InactiveIsOther, Constants DEF SlotInv, TypeOK, InstallBegins
    <2>2. TypeOK'
        BY <1>1, <2>1 DEF SlotInv, TypeOK, InstallBegins
    <2>3. LockInv'
        BY <1>1, <2>1 DEF SlotInv, LockInv, InstallBegins, InactiveSlot
    <2> QED BY <2>2, <2>3 DEF SlotInv
<1>2. ASSUME NEW from \in {"clear", "binary", "config"}, NEW to \in {"binary", "config", "enroll"},
             NEW c \in Content, InstallWrites(from, to, c)
      PROVE  SlotInv'
    <2>1. slot' \in [Slot -> Content]
        BY <1>2 DEF SlotInv, TypeOK, InstallWrites
    <2>2. TypeOK'
        BY <1>2, <2>1 DEF SlotInv, TypeOK, InstallWrites
    <2>3. LockInv'
        BY <1>2 DEF SlotInv, LockInv, InstallWrites, InactiveSlot
    <2> QED BY <2>2, <2>3 DEF SlotInv
<1>3. ASSUME ipc # "none"
      PROVE  /\ install.slot \in Slot /\ install.target \in Target
             /\ slot[install.slot] \in Content
    BY <1>3, Constants DEF SlotInv, TypeOK, LockInv
<1>4. CASE InstallClears
    BY <1>4, <1>2, Constants DEF InstallClears
<1>5. CASE InstallBinary
    <2>1. [slot[install.slot] EXCEPT !.bin = install.target] \in Content
        BY <1>5, <1>3 DEF InstallBinary, InstallWrites, Content
    <2> QED BY <1>5, <1>2, <2>1 DEF InstallBinary
<1>6. CASE InstallConfig
    <2>1. [slot[install.slot] EXCEPT !.cfg = install.target] \in Content
        BY <1>6, <1>3 DEF InstallConfig, InstallWrites, Content
    <2> QED BY <1>6, <1>2, <2>1 DEF InstallConfig
<1>7. CASE Enroll \/ SaveIdentity \/ WriteUnit
    <2>1. TypeOK'
        <3>1. unit' \in BOOLEAN
            BY <1>7, Zenon DEF SlotInv, TypeOK, Enroll, SaveIdentity, WriteUnit
        <3>2. diskKey' \in Nat /\ cloudKey' \in Nat
            BY <1>7 DEF SlotInv, TypeOK, Enroll, SaveIdentity, WriteUnit
        <3>3. ipc' \in {"stop", "activate", "restart"}
            BY <1>7 DEF Enroll, SaveIdentity, WriteUnit
        <3>4. UNCHANGED <<slot, current, lock, record, proc, upc, update, install, target, tries>>
            BY <1>7 DEF Enroll, SaveIdentity, WriteUnit
        <3> QED BY <3>1, <3>2, <3>3, <3>4 DEF SlotInv, TypeOK
    <2>2. LockInv'
        BY <1>7 DEF SlotInv, LockInv, Enroll, SaveIdentity, WriteUnit, InactiveSlot
    <2> QED BY <2>1, <2>2 DEF SlotInv
<1>8. CASE InstallStops \/ InstallRestarts
    <2>1. proc' = Stopped \/ proc' = proc \/ proc' = Down
        BY <1>8 DEF InstallStops, InstallRestarts
    <2>2. proc' \in ProcType
        BY <2>1, ProcessTyped DEF SlotInv, TypeOK, ProcType
    <2>3. TypeOK'
        BY <1>8, <2>2 DEF SlotInv, TypeOK, ProcType, InstallStops, InstallRestarts
    <2>4. LockInv'
        BY <1>8, <2>1 DEF SlotInv, LockInv, InstallStops, InstallRestarts, InactiveSlot,
                          Stopped, Down, Process
    <2> QED BY <2>3, <2>4 DEF SlotInv
<1>9. CASE InstallActivates
    <2>1. TypeOK'
        BY <1>9, <1>3 DEF SlotInv, TypeOK, InstallActivates
    <2>2. LockInv'
        BY <1>9 DEF SlotInv, LockInv, InstallActivates
    <2> QED BY <2>1, <2>2 DEF SlotInv
<1>10. CASE RemoveAttempts
    <2>1. tries' \in [Target -> 0..(MaxAttempts + 1)]
        BY <1>10 DEF RemoveAttempts, MaxAttempts
    <2>2. TypeOK'
        BY <1>10, <2>1 DEF SlotInv, TypeOK, RemoveAttempts
    <2>3. LockInv'
        BY <1>10 DEF SlotInv, LockInv, RemoveAttempts, InactiveSlot
    <2> QED BY <2>2, <2>3 DEF SlotInv
<1>11. CASE InstallEnds \/ InstallFails
    <2>1. TypeOK'
        BY <1>11 DEF SlotInv, TypeOK, InstallEnds, InstallFails
    <2>2. LockInv'
        BY <1>11 DEF SlotInv, LockInv, InstallEnds, InstallFails, InactiveSlot
    <2> QED BY <2>1, <2>2 DEF SlotInv
<1> QED BY <1>1, <1>4, <1>5, <1>6, <1>7, <1>8, <1>9, <1>10, <1>11 DEF Installer

\* The invariant is inductive.
LEMMA SlotInvKept == SlotInv /\ [Next]_vars => SlotInv'
<1> SUFFICES ASSUME SlotInv, [Next]_vars PROVE SlotInv'
    OBVIOUS
<1>1. CASE Approve
    <2>1. TypeOK'
        <3>1. target' \in Target
            BY <1>1, MaxTargetType DEF Approve, SlotInv, TypeOK, Target
        <3> QED BY <1>1, <3>1 DEF Approve, SlotInv, TypeOK, diskVars, agentVars, installVars, keyVars
    <2>2. LockInv'
        BY <1>1 DEF Approve, SlotInv, LockInv, InactiveSlot, diskVars, agentVars, installVars, keyVars
    <2> QED BY <2>1, <2>2 DEF SlotInv
<1>2. CASE UNCHANGED vars
    BY <1>2 DEF SlotInv, TypeOK, LockInv, InactiveSlot, vars, diskVars, agentVars, installVars, keyVars
<1> QED BY <1>1, <1>2, ProcessKeeps, UpdaterKeeps, CandidateKeeps, InstallerKeeps DEF Next

\* Every variable keeps its type (TypeOK), however many targets and faults there are.
THEOREM TypeCorrect == Spec => []TypeOK
<1>1. SlotInv => TypeOK
    BY DEF SlotInv
<1> QED BY InitTyped, SlotInvKept, <1>1, PTL DEF Spec

\* No step of the updater, of a candidate or of the installer writes to the slot
\* that current points to (ActiveUntouched): whoever writes a slot holds the
\* maintenance lock and chose the inactive slot under it.
THEOREM ActiveIsUntouched == Spec => ActiveUntouched
<1> DEFINE Untouched == \A s \in Slot : slot'[s] # slot[s] => s # current /\ s # current'
<1>1. SlotInv /\ [Next]_vars => [Untouched]_vars
    <2> SUFFICES ASSUME SlotInv, Next PROVE Untouched
        OBVIOUS
    <2>1. CASE slot' = slot
        BY <2>1
    <2>2. ASSUME NEW w \in Slot, NEW c, w = InactiveSlot, current' = current,
                 slot' = [slot EXCEPT ![w] = c]
          PROVE  Untouched
        BY <2>2, InactiveIsOther DEF SlotInv, TypeOK
    <2>3. CASE PrepareSlot \/ WriteBinary \/ WriteConfig
        <3>1. update.slot = InactiveSlot /\ current' = current
            BY <2>3 DEF PrepareSlot, WriteBinary, WriteConfig, Write, updateUnchanged, SlotInv, LockInv
        <3>2. PICK c : slot' = [slot EXCEPT ![update.slot] = c]
            BY <2>3 DEF PrepareSlot, WriteBinary, WriteConfig, Write
        <3> QED BY <3>1, <3>2, <2>2, InactiveIsOther
    <2>4. CASE InstallClears \/ InstallBinary \/ InstallConfig
        <3>1. install.slot = InactiveSlot /\ current' = current
            BY <2>4 DEF InstallClears, InstallBinary, InstallConfig, InstallWrites, SlotInv, LockInv
        <3>2. PICK c : slot' = [slot EXCEPT ![install.slot] = c]
            BY <2>4 DEF InstallClears, InstallBinary, InstallConfig, InstallWrites
        <3> QED BY <3>1, <3>2, <2>2, InactiveIsOther
    <2>5. CASE Start \/ Crash \/ ApplyBegins \/ RecordAttempt \/ Exec \/ ApplyFails \/ SixHours
        BY <2>1, <2>5 DEF Start, Crash, ApplyBegins, RecordAttempt, Exec, ApplyFails, SixHours, diskVars
    <2>6. CASE Candidate \/ CandidateFails
        BY <2>1, <2>6 DEF Candidate, CandidateLoads, CandidateAccepted, Activate, CandidateFails,
                          candidateUnchanged
    <2>7. CASE \/ InstallBegins \/ Enroll \/ InstallStops \/ SaveIdentity \/ InstallActivates
               \/ RemoveAttempts \/ WriteUnit \/ InstallRestarts \/ InstallEnds \/ InstallFails
               \/ Approve
        BY <2>1, <2>7 DEF InstallBegins, Enroll, InstallStops, SaveIdentity, InstallActivates,
                          RemoveAttempts, WriteUnit, InstallRestarts, InstallEnds, InstallFails,
                          Approve, diskVars
    <2> QED BY <2>3, <2>4, <2>5, <2>6, <2>7 DEF Next, Apply, Installer
<1> QED BY InitTyped, SlotInvKept, <1>1, PTL DEF Spec, ActiveUntouched

-----------------------------------------------------------------------------
\* What the recorded attempts say of the candidates started.  The record names the
\* newest target tried, and an attempt is on record before its candidate starts.
TriesInv ==
    /\ record.target <= target
    /\ upc # "idle" => record.target <= update.target /\ update.target <= target
    /\ upc \notin {"idle", "exec"} => Allowed(update.target)
    /\ upc = "exec" => /\ record.target = update.target
                       /\ record.recent
                       /\ tries[update.target] < record.attempts
    /\ \A t \in Target :
           /\ tries[t] <= MaxAttempts
           /\ t > record.target => tries[t] = 0
           /\ t = record.target => IF record.recent THEN tries[t] <= record.attempts ELSE tries[t] = 0

\* Arithmetic on the types of the record, the targets and the counts.
LEMMA Numbers ==
    ASSUME SlotInv
    PROVE  /\ record.target \in Nat /\ record.attempts \in Nat /\ record.attempts <= MaxAttempts
           /\ target \in Nat /\ update.target \in Nat
           /\ \A t \in Target : t \in Nat /\ t > 0 /\ tries[t] \in Nat
           /\ upc # "idle" => update.target \in Target
<1>1. \A t \in Target : t \in Nat /\ t > 0
    BY MaxTargetType DEF Target
<1>2. record.target \in Nat /\ record.attempts \in Nat /\ record.attempts <= MaxAttempts
    BY <1>1 DEF SlotInv, TypeOK, NoRecord, MaxAttempts
<1>3. update.target \in Nat
    BY <1>1 DEF SlotInv, TypeOK, Nothing
<1>4. \A t \in Target : tries[t] \in Nat
    BY DEF SlotInv, TypeOK, MaxAttempts
<1>5. upc # "idle" => update.target \in Target
    BY DEF SlotInv, TypeOK, LockInv
<1> QED BY <1>1, <1>2, <1>3, <1>4, <1>5 DEF SlotInv, TypeOK

\* Recording an attempt makes room for one more candidate.
LEMMA NextRecordCounts ==
    ASSUME SlotInv, TriesInv, upc = "record"
    PROVE  /\ NextRecord.target = update.target
           /\ NextRecord.recent
           /\ tries[update.target] < NextRecord.attempts
           /\ NextRecord.attempts <= MaxAttempts
<1>1. record.target = update.target => record.attempts >= 1
    BY Numbers DEF SlotInv, TypeOK, NoRecord
<1>2. Allowed(update.target)
    BY DEF TriesInv
<1>3. CASE record.target # update.target
    <2>1. tries[update.target] = 0
        BY <1>3, Numbers DEF TriesInv
    <2> QED BY <1>3, <2>1 DEF NextRecord, MaxAttempts
<1>4. CASE record.target = update.target /\ ~record.recent
    <2>1. tries[update.target] = 0
        BY <1>4, Numbers DEF TriesInv
    <2> QED BY <1>1, <1>4, <2>1, Numbers DEF NextRecord, MaxAttempts
<1>5. CASE record.target = update.target /\ record.recent
    <2>1. record.attempts < MaxAttempts
        BY <1>2, <1>5 DEF Allowed
    <2>2. tries[update.target] <= record.attempts
        BY <1>5, Numbers DEF TriesInv
    <2> QED BY <1>1, <1>5, <2>1, <2>2, Numbers DEF NextRecord, MaxAttempts
<1> QED BY <1>3, <1>4, <1>5

\* What a record whose attempt was counted says of every target.
LEMMA RecordedKeeps ==
    ASSUME SlotInv, TriesInv, upc = "record", record' = NextRecord, UNCHANGED tries
    PROVE  \A t \in Target :
               /\ tries'[t] <= MaxAttempts
               /\ t > record'.target => tries'[t] = 0
               /\ t = record'.target => IF record'.recent THEN tries'[t] <= record'.attempts
                                        ELSE tries'[t] = 0
<1> SUFFICES ASSUME NEW t \in Target
             PROVE  /\ tries[t] <= MaxAttempts
                    /\ t > update.target => tries[t] = 0
                    /\ t = update.target => tries[t] <= NextRecord.attempts
    BY NextRecordCounts
<1>1. tries[t] <= MaxAttempts
    BY DEF TriesInv
<1>2. t > update.target => tries[t] = 0
    BY Numbers DEF TriesInv
<1>3. NextRecord.attempts \in Nat
    BY Numbers DEF NextRecord, MaxAttempts
<1>4. t = update.target => tries[t] <= NextRecord.attempts
    BY <1>3, NextRecordCounts, Numbers
<1> QED BY <1>1, <1>2, <1>4

\* Steps that neither record nor start an attempt, an idle updater included.
LEMMA TriesFrame ==
    ASSUME SlotInv, TriesInv, UNCHANGED <<record, tries, target>>,
           upc' = "idle" \/ UNCHANGED <<upc, update>>
    PROVE  TriesInv'
BY DEF TriesInv, Allowed

\* The candidates started since the last pause are bounded by the record.
LEMMA TriesInvKept == SlotInv /\ TriesInv /\ [Next]_vars => TriesInv'
<1> SUFFICES ASSUME SlotInv, TriesInv, [Next]_vars PROVE TriesInv'
    OBVIOUS
<1> USE DEF diskVars, agentVars, installVars, keyVars, updateUnchanged, candidateUnchanged,
            installUnchanged
<1>1. CASE Start \/ Crash \/ Candidate \/ CandidateFails
    BY <1>1, TriesFrame DEF Start, Crash, Exit, Candidate, CandidateLoads, CandidateAccepted,
                            Activate, CandidateFails
<1>2. CASE \/ InstallBegins \/ InstallClears \/ InstallBinary \/ InstallConfig \/ Enroll
           \/ InstallStops \/ SaveIdentity \/ InstallActivates \/ WriteUnit \/ InstallRestarts
           \/ InstallEnds \/ InstallFails
    BY <1>2, TriesFrame DEF InstallBegins, InstallClears, InstallBinary, InstallConfig,
           InstallWrites, Enroll, InstallStops, SaveIdentity, InstallActivates, WriteUnit,
           InstallRestarts, InstallEnds, InstallFails
<1>3. CASE RemoveAttempts
    <2>1. upc' = "idle"
        BY <1>3 DEF RemoveAttempts, SlotInv, LockInv
    <2>2. record'.target = 0 /\ target' \in Nat /\ \A t \in Target : tries'[t] = 0 /\ t > 0
        BY <1>3, Numbers DEF RemoveAttempts, NoRecord
    <2> QED BY <2>1, <2>2 DEF TriesInv, MaxAttempts
<1>4. CASE ApplyBegins
    BY <1>4, Numbers DEF ApplyBegins, TriesInv, Allowed
<1>5. CASE PrepareSlot \/ WriteBinary \/ WriteConfig
    BY <1>5 DEF PrepareSlot, WriteBinary, WriteConfig, Write, TriesInv, Allowed
<1>6. CASE RecordAttempt
    <2>1. upc = "record" /\ upc' = "exec" /\ record' = NextRecord /\ UNCHANGED <<update, tries, target>>
        BY <1>6 DEF RecordAttempt
    <2>2. /\ record'.target = update'.target /\ record'.recent
          /\ tries'[update'.target] < record'.attempts
        BY <2>1, NextRecordCounts
    <2>3. record'.target <= update'.target /\ update'.target <= target'
        BY <2>1, <2>2, Numbers DEF TriesInv
    <2>4. record'.target <= target'
        BY <2>2, <2>3
    <2> QED BY <2>1, <2>2, <2>3, <2>4, RecordedKeeps DEF TriesInv
<1>7. CASE ApplyFails
    <2>1. CASE record' = record
        BY <1>7, <2>1, TriesFrame DEF ApplyFails
    <2>2. CASE record' # record
        <3>1. upc = "record" /\ upc' = "idle" /\ record' = NextRecord /\ UNCHANGED <<tries, target>>
            BY <1>7, <2>2 DEF ApplyFails
        <3>2. record'.target <= target'
            BY <3>1, NextRecordCounts DEF TriesInv
        <3> QED BY <3>1, <3>2, RecordedKeeps DEF TriesInv
    <2> QED BY <2>1, <2>2
<1>8. CASE Exec
    <2>1. /\ upc = "exec" /\ upc' = "idle" /\ UNCHANGED <<record, target>>
          /\ record.target = update.target /\ record.recent
          /\ tries[update.target] < record.attempts /\ update.target \in Target
        BY <1>8, Numbers DEF Exec, TriesInv
    <2>2. tries[update.target] + 1 <= record.attempts /\ tries[update.target] <= MaxAttempts
        BY <2>1, Numbers DEF TriesInv
    <2>3. tries' = [tries EXCEPT ![update.target] = tries[update.target] + 1]
        <3>1. ~(tries[update.target] > MaxAttempts)
            BY <2>1, <2>2, Numbers DEF MaxAttempts
        <3> QED BY <1>8, <3>1, Zenon DEF Exec
    <2>4. ASSUME NEW t \in Target
          PROVE  /\ tries'[t] <= MaxAttempts
                 /\ t > record'.target => tries'[t] = 0
                 /\ t = record'.target => tries'[t] <= record'.attempts
        <3>1. CASE t = update.target
            <4>1. tries'[t] = tries[t] + 1
                BY <2>3, <3>1 DEF SlotInv, TypeOK
            <4> QED BY <4>1, <2>1, <2>2, <3>1, Numbers DEF MaxAttempts
        <3>2. CASE t # update.target
            <4>1. tries'[t] = tries[t]
                BY <2>3, <3>2 DEF SlotInv, TypeOK
            <4> QED BY <4>1, <2>1, <3>2 DEF TriesInv
        <3> QED BY <3>1, <3>2
    <2> QED BY <2>1, <2>4 DEF TriesInv
<1>9. CASE SixHours
    <2>1. /\ upc' = "idle" /\ UNCHANGED target
          /\ record'.target = record.target /\ ~record'.recent
          /\ tries' = [tries EXCEPT ![record.target] = 0]
        <3>1. record # NoRecord
            BY <1>9 DEF SixHours, NoRecord
        <3>2. record \in [target : Target, attempts : 1..MaxAttempts, recent : BOOLEAN]
            BY <3>1 DEF SlotInv, TypeOK
        <3> QED BY <1>9, <3>2 DEF SixHours
    <2>2. ASSUME NEW t \in Target
          PROVE  /\ tries'[t] <= MaxAttempts
                 /\ t > record'.target => tries'[t] = 0
                 /\ t = record'.target => tries'[t] = 0
        <3>1. CASE t = record.target
            BY <2>1, <3>1, Numbers DEF SlotInv, TypeOK, MaxAttempts
        <3>2. CASE t # record.target
            BY <2>1, <3>2 DEF SlotInv, TypeOK, TriesInv
        <3> QED BY <3>1, <3>2
    <2> QED BY <2>1, <2>2 DEF TriesInv
<1>10. CASE Approve
    <2>1. record'.target <= target' /\ (upc' # "idle" => update'.target <= target')
        BY <1>10, Numbers DEF Approve, TriesInv
    <2> QED BY <1>10, <2>1 DEF Approve, TriesInv, Allowed
<1>11. CASE UNCHANGED vars
    BY <1>11, TriesFrame DEF vars
<1> QED BY <1>1, <1>2, <1>3, <1>4, <1>5, <1>6, <1>7, <1>8, <1>9, <1>10, <1>11
       DEF Next, Apply, Installer

\* A target replaces the running process at most twice before the Agent pauses for
\* six hours (NoRestartLoop), over crashes, failed saves and rejected candidates.
THEOREM AttemptsAreBounded == Spec => []NoRestartLoop
<1>1. Init => TriesInv
    <2> SUFFICES ASSUME Init PROVE TriesInv
        OBVIOUS
    <2>1. record.target = 0 /\ target = 1 /\ upc = "idle" /\ \A t \in Target : tries[t] = 0 /\ t > 0
        BY MaxTargetType DEF Init, NoRecord, Target
    <2> QED BY <2>1 DEF TriesInv, MaxAttempts
<1>2. TriesInv => NoRestartLoop
    BY DEF TriesInv, NoRestartLoop
<1> QED BY InitTyped, SlotInvKept, TriesInvKept, <1>1, <1>2, PTL DEF Spec

-----------------------------------------------------------------------------
(* What current points to. *)

Booting == {"boot", "candidate", "activate"}

\* A slot is whole once its writer is past it, and nobody serves or starts while the
\* installer moves the link and the identity.
WriterInv ==
    /\ upc = "config" => slot[update.slot].bin = update.target
    /\ upc \in {"record", "exec"} => slot[update.slot] = Whole(update.target)
    /\ ipc = "config" => slot[install.slot].bin = install.target
    /\ ipc \in {"enroll", "stop", "identity", "activate"} => slot[install.slot] = Whole(install.target)

\* Which process there is while the updater or the installer is at work.
ProcInv ==
    /\ upc # "idle" => proc.pc = "serve"
    /\ ipc \in {"identity", "activate", "clean", "unit", "restart"} => proc = Stopped
    /\ ipc = "done" => proc.pc \in {"down", "serve"}
    /\ ~unit => proc = Stopped
    /\ ipc = "restart" => unit

\* A serving process runs what current holds; a candidate runs what its own slot
\* holds, until an installer takes that slot and, before it ends, the candidate.
ServeInv ==
    /\ CurrentIsComplete
    /\ proc.pc = "serve" => current # NoSlot /\ slot[current] = [bin |-> proc.bin, cfg |-> proc.cfg]
    /\ proc.pc \in Booting => proc.slot # current
    /\ proc.pc \in Booting /\ ipc = "none" =>
          /\ Complete(proc.slot)
          /\ slot[proc.slot].bin = proc.bin
          /\ proc.pc # "boot" => slot[proc.slot].cfg = proc.cfg

BootInv ==
    /\ faults \in [FaultKind -> Nat]
    /\ faults["installFails"] = 0 => WriterInv /\ ProcInv /\ ServeInv

Boot == WriterInv /\ ProcInv /\ ServeInv

\* Faults are counted up, so a count of none says that none happened.
LEMMA FaultsCount ==
    ASSUME faults \in [FaultKind -> Nat], [Next]_vars
    PROVE  /\ faults' \in [FaultKind -> Nat]
           /\ faults'["installFails"] = 0 => faults["installFails"] = 0 /\ ~InstallFails
<1>1. CASE UNCHANGED faults /\ ~InstallFails
    BY <1>1
<1>2. ASSUME NEW k \in FaultKind \ {"installFails"}, Fault(k), ~InstallFails
      PROVE  /\ faults' \in [FaultKind -> Nat]
             /\ faults'["installFails"] = 0 => faults["installFails"] = 0 /\ ~InstallFails
    BY <1>2 DEF Fault, FaultKind
<1>3. CASE InstallFails
    BY <1>3 DEF InstallFails, Fault, FaultKind
<1>4. CASE (Start \/ Apply \/ SixHours \/ Installer \/ Approve \/ UNCHANGED vars) /\ ~InstallFails
    BY <1>1, <1>4 DEF Start, Apply, ApplyBegins, PrepareSlot, WriteBinary, WriteConfig, RecordAttempt,
           Exec, SixHours, Installer, InstallClears, InstallBinary, InstallConfig, InstallWrites,
           Enroll, InstallStops, SaveIdentity, InstallActivates, RemoveAttempts, WriteUnit,
           InstallRestarts, InstallEnds, Approve, vars
<1>5. CASE (Crash \/ ApplyFails \/ InstallBegins) /\ ~InstallFails
    BY <1>2, <1>5 DEF Crash, ApplyFails, InstallBegins, FaultKind
<1>6. CASE (Candidate \/ CandidateFails) /\ ~InstallFails
    BY <1>1, <1>2, <1>6 DEF Candidate, CandidateLoads, CandidateAccepted, Activate, CandidateFails,
                            FaultKind
<1> QED BY <1>3, <1>4, <1>5, <1>6 DEF Next

\* The phases of the processes that are not there, and of one that just starts.
LEMMA Phases ==
    /\ Down.pc = "down" /\ Stopped.pc = "stopped" /\ Down # Stopped
    /\ \A pc, s, c, key : /\ Process(pc, s, c, key).pc = pc
                          /\ Process(pc, s, c, key).slot = s
                          /\ Process(pc, s, c, key).bin = c.bin
                          /\ Process(pc, s, c, key).cfg = c.cfg
BY DEF Down, Stopped, Process

\* The end of the process disturbs nothing on disk.
LEMMA ExitBoots ==
    ASSUME SlotInv, Boot, Exit, UNCHANGED <<slot, installVars, unit>>, proc.pc # "stopped",
           current' # NoSlot => Complete(current')
    PROVE  Boot'
<1>1. proc' = Down /\ upc' = "idle" /\ UNCHANGED <<slot, ipc, install, unit>>
    BY DEF Exit, installVars
<1>2. WriterInv'
    BY <1>1 DEF Boot, WriterInv
<1>3. ProcInv'
    BY <1>1, Phases DEF Boot, ProcInv
<1>4. ServeInv'
    BY <1>1, Phases DEF ServeInv, CurrentIsComplete, Complete, Booting
<1> QED BY <1>2, <1>3, <1>4 DEF Boot

\* A process starts with what current holds, or ends.
LEMMA ProcessBoots == ASSUME SlotInv, Boot, Start \/ Crash PROVE Boot'
<1> USE DEF diskVars, installVars, keyVars
<1>1. CASE Start
    <2>1. /\ proc' = Process("serve", NoSlot, slot[current], diskKey)
          /\ UNCHANGED <<slot, current, upc, update, ipc, install, unit>>
          /\ current # NoSlot /\ proc.pc = "down"
        BY <1>1 DEF Start
    <2>2. proc'.pc = "serve" /\ proc'.bin = slot[current].bin /\ proc'.cfg = slot[current].cfg
        BY <2>1, Phases
    <2>3. slot[current] = [bin |-> proc'.bin, cfg |-> proc'.cfg]
        BY <2>1, <2>2 DEF SlotInv, TypeOK, Content
    <2>4. WriterInv'
        BY <2>1 DEF Boot, WriterInv
    <2>5. ProcInv'
        BY <2>1, <2>2, Phases DEF Boot, ProcInv
    <2>6. ServeInv'
        BY <2>1, <2>2, <2>3 DEF Boot, ServeInv, CurrentIsComplete, Complete, Booting
    <2> QED BY <2>4, <2>5, <2>6 DEF Boot
<1>2. CASE Crash
    <2>1. UNCHANGED <<slot, current>>
        BY <1>2 DEF Crash
    <2>2. current' # NoSlot => Complete(current')
        BY <2>1 DEF Boot, ServeInv, CurrentIsComplete
    <2> QED BY <1>2, <2>2, ExitBoots DEF Crash
<1> QED BY <1>1, <1>2

\* The updater writes a slot that nobody runs, and execs only what it completed.
LEMMA UpdaterBoots == ASSUME SlotInv, Boot, Apply \/ ApplyFails \/ SixHours PROVE Boot'
<1> USE DEF updateUnchanged, diskVars, agentVars, installVars, keyVars
<1>0. ASSUME upc # "idle"
      PROVE  /\ update.slot \in Slot /\ update.slot # current /\ update.target \in Target
             /\ slot[update.slot] \in Content /\ ipc = "none" /\ proc.pc = "serve"
    <2>1. update.slot \in Slot /\ update.target \in Target /\ update.slot = InactiveSlot
        BY <1>0, Constants DEF SlotInv, TypeOK, LockInv
    <2>2. lock = "agent" /\ ipc = "none" /\ proc.pc = "serve"
        BY <1>0 DEF SlotInv, LockInv, Boot, ProcInv
    <2> QED BY <2>1, <2>2, InactiveIsOther DEF SlotInv, TypeOK
<1>1. CASE ApplyBegins \/ SixHours \/ ApplyFails
    <2>1. /\ UNCHANGED <<slot, current, proc, ipc, install, unit>>
          /\ upc' = "idle" \/ (upc' = "clear" /\ proc.pc = "serve")
        BY <1>1 DEF ApplyBegins, SixHours, ApplyFails
    <2>2. WriterInv'
        BY <2>1 DEF Boot, WriterInv
    <2>3. ProcInv'
        BY <2>1 DEF Boot, ProcInv
    <2>4. ServeInv'
        BY <2>1 DEF Boot, ServeInv, CurrentIsComplete, Complete
    <2> QED BY <2>2, <2>3, <2>4 DEF Boot
<1>2. CASE RecordAttempt
    <2>1. UNCHANGED <<slot, current, proc, ipc, install, unit, update>> /\ upc = "record" /\ upc' = "exec"
        BY <1>2 DEF RecordAttempt
    <2>2. WriterInv'
        BY <2>1 DEF Boot, WriterInv
    <2>3. ProcInv'
        BY <2>1 DEF Boot, ProcInv
    <2>4. ServeInv'
        BY <2>1 DEF Boot, ServeInv, CurrentIsComplete, Complete
    <2> QED BY <2>2, <2>3, <2>4 DEF Boot
<1>3. ASSUME NEW from \in {"clear", "binary", "config"}, NEW to \in {"binary", "config", "record"},
             NEW c \in Content, Write(update, from, to, c),
             UNCHANGED <<record, lock, update, updateUnchanged, tries, faults>>,
             to = "config" => c.bin = update.target,
             to = "record" => c = Whole(update.target)
      PROVE  Boot'
    <2>1. /\ upc = from /\ upc' = to /\ UNCHANGED <<current, proc, ipc, install, unit, update>>
          /\ slot' = [slot EXCEPT ![update.slot] = c]
        BY <1>3 DEF Write
    <2>2. /\ update.slot \in Slot /\ update.slot # current
          /\ ipc = "none" /\ proc.pc = "serve"
        BY <1>0, <2>1
    <2>3. slot'[update.slot] = c /\ (current # NoSlot => slot'[current] = slot[current])
        BY <2>1, <2>2 DEF SlotInv, TypeOK
    <2>4. WriterInv'
        BY <1>3, <2>1, <2>2, <2>3 DEF WriterInv
    <2>5. ProcInv'
        BY <2>1, <2>2 DEF Boot, ProcInv
    <2>6. ServeInv'
        BY <2>1, <2>2, <2>3 DEF Boot, ServeInv, CurrentIsComplete, Complete, Booting
    <2> QED BY <2>4, <2>5, <2>6 DEF Boot
<1>4. CASE PrepareSlot
    BY <1>4, <1>3, Constants DEF PrepareSlot
<1>5. CASE WriteBinary
    <2> DEFINE c == [slot[update.slot] EXCEPT !.bin = update.target]
    <2>1. c \in Content /\ c.bin = update.target
        BY <1>5, <1>0 DEF WriteBinary, Write, Content
    <2>2. Write(update, "binary", "config", c)
        BY <1>5 DEF WriteBinary
    <2> HIDE DEF c
    <2> QED BY <1>5, <1>3, <2>1, <2>2 DEF WriteBinary
<1>6. CASE WriteConfig
    <2> DEFINE c == [slot[update.slot] EXCEPT !.cfg = update.target]
    <2>1. upc = "config" /\ slot[update.slot].bin = update.target
        BY <1>6 DEF WriteConfig, Write, Boot, WriterInv
    <2>2. c \in Content /\ c = Whole(update.target)
        BY <2>1, <1>0 DEF Content, Whole
    <2>3. Write(update, "config", "record", c)
        BY <1>6 DEF WriteConfig
    <2> HIDE DEF c
    <2> QED BY <1>6, <1>3, <2>2, <2>3 DEF WriteConfig
<1>7. CASE Exec
    <2>1. /\ upc = "exec" /\ upc' = "idle" /\ UNCHANGED <<slot, current, ipc, install, unit>>
          /\ proc' = Process("boot", update.slot, [slot[update.slot] EXCEPT !.cfg = 0], 0)
        BY <1>7 DEF Exec
    <2>2. /\ update.slot \in Slot /\ update.slot # current /\ update.target \in Target
          /\ ipc = "none" /\ slot[update.slot] = Whole(update.target) /\ proc.pc = "serve"
        BY <2>1, <1>0 DEF Boot, WriterInv
    <2>3. proc'.pc = "boot" /\ proc'.slot = update.slot /\ proc'.bin = update.target
        BY <2>1, <2>2, Phases DEF Whole
    <2>4. update.target # 0 /\ Complete(update.slot)
        BY <2>2 DEF Complete, Whole, Target
    <2>5. WriterInv'
        BY <2>1, <2>2 DEF Boot, WriterInv
    <2>6. ProcInv'
        BY <2>1, <2>2, <2>3, Phases DEF Boot, ProcInv
    <2>7. ServeInv'
        BY <2>1, <2>2, <2>3, <2>4 DEF Boot, ServeInv, CurrentIsComplete, Complete, Booting, Whole
    <2> QED BY <2>5, <2>6, <2>7 DEF Boot
<1> QED BY <1>1, <1>2, <1>4, <1>5, <1>6, <1>7 DEF Apply

\* A candidate becomes current only when no installer can have taken its slot.
LEMMA CandidateBoots == ASSUME SlotInv, Boot, Candidate \/ CandidateFails PROVE Boot'
<1> USE DEF candidateUnchanged, installVars, keyVars
<1>0. current # NoSlot => Complete(current)
    BY DEF Boot, ServeInv, CurrentIsComplete
<1>p. proc \in ProcType
    BY DEF SlotInv, TypeOK, ProcType
<1>u. proc.pc \in Booting => upc = "idle" /\ unit /\ ipc \notin {"identity", "activate", "clean", "unit", "restart", "done"}
    BY Phases DEF Boot, ProcInv, Booting
<1>1. CASE CandidateFails
    <2>1. Exit /\ UNCHANGED <<slot, current, installVars, unit>> /\ proc.pc = "candidate"
        BY <1>1 DEF CandidateFails
    <2>2. current' # NoSlot => Complete(current')
        BY <2>1, <1>0
    <2> QED BY <2>1, <2>2, ExitBoots
<1>2. ASSUME NEW pc \in {"candidate", "activate"}, NEW cfg, NEW key, proc.pc \in Booting,
             proc' = [proc EXCEPT !.cfg = cfg, !.key = key, !.pc = pc], cfg = slot[proc.slot].cfg \/ ipc # "none",
             UNCHANGED <<slot, current, upc, update, ipc, install, unit>>
      PROVE  Boot'
    <2>1. proc'.pc = pc /\ proc'.slot = proc.slot /\ proc'.bin = proc.bin /\ proc'.cfg = cfg
        BY <1>2, <1>p DEF ProcType
    <2>2. WriterInv'
        BY <1>2 DEF Boot, WriterInv
    <2>3. ProcInv'
        BY <1>2, <1>u, <2>1 DEF ProcInv
    <2>4. ServeInv'
        BY <1>2, <2>1 DEF Boot, ServeInv, CurrentIsComplete, Complete, Booting
    <2> QED BY <2>2, <2>3, <2>4 DEF Boot
<1>3. CASE CandidateLoads
    <2>1. proc.pc = "boot" /\ UNCHANGED <<slot, current, installVars, unit>>
        BY <1>3 DEF CandidateLoads
    <2>2. CASE slot[proc.slot].cfg = 0
        <3>1. current' # NoSlot => Complete(current')
            BY <2>1, <1>0
        <3> QED BY <1>3, <2>1, <2>2, <3>1, ExitBoots DEF CandidateLoads
    <2>3. CASE slot[proc.slot].cfg # 0
        <3>1. proc.slot # current
            BY <2>1 DEF Boot, ServeInv, Booting
        <3>2. /\ proc' = [proc EXCEPT !.cfg = slot[proc.slot].cfg, !.key = diskKey, !.pc = "candidate"]
              /\ UNCHANGED <<lock, upc, update>>
            BY <1>3, <2>3, <3>1 DEF CandidateLoads
        <3>3. PICK cfg, key : /\ proc' = [proc EXCEPT !.cfg = cfg, !.key = key, !.pc = "candidate"]
                              /\ cfg = slot[proc.slot].cfg
            BY <3>2
        <3>4. proc.pc \in Booting /\ UNCHANGED <<slot, current, upc, update, ipc, install, unit>>
            BY <2>1, <3>2 DEF Booting
        <3> QED BY <1>2, <3>3, <3>4
    <2> QED BY <2>2, <2>3
<1>4. CASE CandidateAccepted
    <2>1. /\ proc.pc = "candidate" /\ proc' = [proc EXCEPT !.pc = "activate"]
          /\ UNCHANGED <<slot, current, upc, update, ipc, install, unit>>
        BY <1>4 DEF CandidateAccepted
    <2>2. proc' = [proc EXCEPT !.cfg = proc.cfg, !.key = proc.key, !.pc = "activate"]
        BY <2>1, <1>p DEF ProcType
    <2>3. proc.cfg = slot[proc.slot].cfg \/ ipc # "none"
        BY <2>1 DEF Boot, ServeInv, Booting
    <2>4. PICK cfg, key : /\ proc' = [proc EXCEPT !.cfg = cfg, !.key = key, !.pc = "activate"]
                          /\ cfg = slot[proc.slot].cfg \/ ipc # "none"
        BY <2>2, <2>3
    <2>5. proc.pc \in Booting
        BY <2>1 DEF Booting
    <2> QED BY <1>2, <2>1, <2>4, <2>5
<1>5. CASE Activate
    <2>1. proc.pc = "activate" /\ UNCHANGED <<slot, ipc, install, unit>>
        BY <1>5 DEF Activate
    <2>2. CASE lock # "free"
        <3>1. Exit /\ current' = current
            BY <1>5, <2>2 DEF Activate
        <3>2. current' # NoSlot => Complete(current')
            BY <2>1, <3>1, <1>0
        <3> QED BY <2>1, <3>1, <3>2, ExitBoots
    <2>3. CASE lock = "free"
        <3>1. ipc = "none" /\ proc.slot \in Slot
            BY <2>1, <2>3 DEF SlotInv, LockInv
        <3>2. /\ Complete(proc.slot) /\ slot[proc.slot].bin = proc.bin
              /\ slot[proc.slot].cfg = proc.cfg
            BY <2>1, <3>1 DEF Boot, ServeInv, Booting
        <3>3. slot[proc.slot] = [bin |-> proc.bin, cfg |-> proc.cfg]
            BY <3>1, <3>2 DEF SlotInv, TypeOK, Content
        <3>4. CASE Exit /\ current' \in {current, proc.slot}
            <4>1. current' # NoSlot => Complete(current')
                BY <3>4, <3>2, <1>0
            <4> QED BY <2>1, <3>4, <4>1, ExitBoots
        <3>5. CASE /\ current' = proc.slot /\ proc' = [proc EXCEPT !.pc = "serve", !.slot = NoSlot]
                   /\ UNCHANGED <<lock, upc, update, faults>>
            <4>1. proc'.pc = "serve" /\ proc'.bin = proc.bin /\ proc'.cfg = proc.cfg
                BY <3>5, <1>p DEF ProcType
            <4>2. current' # NoSlot
                BY <3>1, <3>5 DEF Slot, NoSlot
            <4>3. WriterInv'
                BY <2>1, <3>5 DEF Boot, WriterInv
            <4>4. ProcInv'
                BY <2>1, <3>1, <3>5, <4>1, <1>u DEF ProcInv, Booting
            <4>5. ServeInv'
                BY <2>1, <3>2, <3>3, <3>5, <4>1, <4>2 DEF ServeInv, CurrentIsComplete, Complete, Booting
            <4> QED BY <4>3, <4>4, <4>5 DEF Boot
        <3> QED BY <1>5, <2>3, <3>4, <3>5 DEF Activate
    <2> QED BY <2>2, <2>3
<1> QED BY <1>1, <1>3, <1>4, <1>5 DEF Candidate

\* The installer stops the process before it moves the link, and moves it to a slot it
\* completed.
LEMMA InstallerBoots == ASSUME SlotInv, Boot, InstallBegins \/ Installer PROVE Boot'
<1> USE DEF installUnchanged, diskVars, installVars, keyVars
<1>0. ASSUME ipc # "none"
      PROVE  /\ install.slot \in Slot /\ install.target \in Target
             /\ slot[install.slot] \in Content /\ upc = "idle"
             /\ ipc \in {"clear", "binary", "config"} => install.slot # current
    BY <1>0, Constants, InactiveIsOther DEF SlotInv, TypeOK, LockInv
<1>1. CASE InstallBegins
    <2>1. UNCHANGED <<slot, current, proc, upc, update, unit>> /\ ipc = "none" /\ ipc' = "clear"
        BY <1>1 DEF InstallBegins
    <2>2. WriterInv'
        BY <2>1 DEF Boot, WriterInv
    <2>3. ProcInv'
        BY <2>1 DEF Boot, ProcInv
    <2>4. ServeInv'
        BY <2>1 DEF Boot, ServeInv, CurrentIsComplete, Complete
    <2> QED BY <2>2, <2>3, <2>4 DEF Boot
<1>2. ASSUME NEW from \in {"clear", "binary", "config"}, NEW to \in {"binary", "config", "enroll"},
             NEW c \in Content, InstallWrites(from, to, c),
             to = "config" => c.bin = install.target,
             to = "enroll" => c = Whole(install.target)
      PROVE  Boot'
    <2>1. /\ ipc = from /\ ipc' = to /\ UNCHANGED <<current, proc, install, unit, upc, update>>
          /\ slot' = [slot EXCEPT ![install.slot] = c]
        BY <1>2 DEF InstallWrites
    <2>2. install.slot \in Slot /\ install.slot # current /\ upc = "idle" /\ ipc # "none" /\ ipc' # "none"
        BY <1>0, <2>1
    <2>3. slot'[install.slot] = c /\ (current # NoSlot => slot'[current] = slot[current])
        BY <2>1, <2>2 DEF SlotInv, TypeOK
    <2>4. WriterInv'
        BY <1>2, <2>1, <2>2, <2>3 DEF WriterInv
    <2>5. ProcInv'
        BY <2>1, <2>2 DEF Boot, ProcInv
    <2>6. ServeInv'
        BY <2>1, <2>2, <2>3 DEF Boot, ServeInv, CurrentIsComplete, Complete, Booting
    <2> QED BY <2>4, <2>5, <2>6 DEF Boot
<1>3. CASE InstallClears
    BY <1>3, <1>2, Constants DEF InstallClears
<1>4. CASE InstallBinary
    <2> DEFINE c == [slot[install.slot] EXCEPT !.bin = install.target]
    <2>1. c \in Content /\ c.bin = install.target
        BY <1>4, <1>0 DEF InstallBinary, InstallWrites, Content
    <2>2. InstallWrites("binary", "config", c)
        BY <1>4 DEF InstallBinary
    <2> HIDE DEF c
    <2> QED BY <1>2, <2>1, <2>2
<1>5. CASE InstallConfig
    <2> DEFINE c == [slot[install.slot] EXCEPT !.cfg = install.target]
    <2>1. ipc = "config" /\ slot[install.slot].bin = install.target
        BY <1>5 DEF InstallConfig, InstallWrites, Boot, WriterInv
    <2>2. c \in Content /\ c = Whole(install.target)
        BY <2>1, <1>0 DEF Content, Whole
    <2>3. InstallWrites("config", "enroll", c)
        BY <1>5 DEF InstallConfig
    <2> HIDE DEF c
    <2> QED BY <1>2, <2>2, <2>3
<1>6. CASE Enroll
    <2>1. UNCHANGED <<slot, current, proc, upc, update, unit, install>> /\ ipc = "enroll" /\ ipc' = "stop"
        BY <1>6 DEF Enroll
    <2>2. WriterInv'
        BY <2>1 DEF Boot, WriterInv
    <2>3. ProcInv'
        BY <2>1 DEF Boot, ProcInv
    <2>4. ServeInv'
        BY <2>1 DEF Boot, ServeInv, CurrentIsComplete, Complete
    <2> QED BY <2>2, <2>3, <2>4 DEF Boot
<1>7. CASE InstallStops
    <2>1. /\ UNCHANGED <<slot, current, upc, update, unit, install>> /\ ipc = "stop" /\ ipc' = "identity"
          /\ proc' = Stopped
        BY <1>7 DEF InstallStops, Boot, ProcInv
    <2>2. WriterInv'
        BY <2>1 DEF Boot, WriterInv
    <2>3. ProcInv'
        BY <2>1, <1>0 DEF ProcInv
    <2>4. ServeInv'
        BY <2>1, Phases DEF Boot, ServeInv, CurrentIsComplete, Complete, Booting
    <2> QED BY <2>2, <2>3, <2>4 DEF Boot
<1>8. CASE SaveIdentity
    <2>1. UNCHANGED <<slot, current, proc, upc, update, unit, install>> /\ ipc = "identity" /\ ipc' = "activate"
        BY <1>8 DEF SaveIdentity
    <2>2. WriterInv'
        BY <2>1 DEF Boot, WriterInv
    <2>3. ProcInv'
        BY <2>1 DEF Boot, ProcInv
    <2>4. ServeInv'
        BY <2>1 DEF Boot, ServeInv, CurrentIsComplete, Complete
    <2> QED BY <2>2, <2>3, <2>4 DEF Boot
<1>9. CASE InstallActivates
    <2>1. /\ UNCHANGED <<slot, proc, upc, update, unit, install>> /\ ipc = "activate" /\ ipc' = "clean"
          /\ current' = install.slot
        BY <1>9 DEF InstallActivates
    <2>2. proc = Stopped /\ slot[install.slot] = Whole(install.target) /\ install.target \in Target
        BY <2>1, <1>0 DEF Boot, ProcInv, WriterInv
    <2>3. Complete(install.slot)
        BY <2>2 DEF Complete, Whole, Target
    <2>4. WriterInv'
        BY <2>1 DEF Boot, WriterInv
    <2>5. ProcInv'
        BY <2>1 DEF Boot, ProcInv
    <2>6. ServeInv'
        BY <2>1, <2>2, <2>3, Phases DEF ServeInv, CurrentIsComplete, Complete, Booting
    <2> QED BY <2>4, <2>5, <2>6 DEF Boot
<1>10. CASE RemoveAttempts \/ WriteUnit
    <2>1. /\ UNCHANGED <<slot, current, proc, upc, update, install>>
          /\ unit' = unit \/ unit' = TRUE
          /\ ipc \in {"clean", "unit"} /\ ipc' \in {"unit", "restart"}
          /\ ipc' = "restart" => unit'
        BY <1>10 DEF RemoveAttempts, WriteUnit
    <2>2. WriterInv'
        BY <2>1 DEF Boot, WriterInv
    <2>3. ProcInv'
        BY <2>1, Zenon DEF Boot, ProcInv
    <2>4. ServeInv'
        BY <2>1 DEF Boot, ServeInv, CurrentIsComplete, Complete
    <2> QED BY <2>2, <2>3, <2>4 DEF Boot
<1>11. CASE InstallRestarts
    <2>1. /\ UNCHANGED <<slot, current, upc, update, unit, install>> /\ ipc = "restart" /\ ipc' = "done"
          /\ proc' = Down /\ unit
        BY <1>11 DEF InstallRestarts, Boot, ProcInv
    <2>2. WriterInv'
        BY <2>1 DEF Boot, WriterInv
    <2>3. ProcInv'
        BY <2>1, <1>0, Phases DEF ProcInv
    <2>4. ServeInv'
        BY <2>1, Phases DEF Boot, ServeInv, CurrentIsComplete, Complete, Booting
    <2> QED BY <2>2, <2>3, <2>4 DEF Boot
<1>12. CASE InstallEnds
    <2>1. UNCHANGED <<slot, current, proc, upc, update, unit>> /\ ipc = "done" /\ ipc' = "none"
        BY <1>12 DEF InstallEnds
    <2>2. WriterInv'
        BY <2>1, <1>0 DEF WriterInv
    <2>3. ProcInv'
        BY <2>1 DEF Boot, ProcInv
    <2>4. ServeInv'
        BY <2>1 DEF Boot, ProcInv, ServeInv, CurrentIsComplete, Complete, Booting
    <2> QED BY <2>2, <2>3, <2>4 DEF Boot
<1> QED BY <1>1, <1>3, <1>4, <1>5, <1>6, <1>7, <1>8, <1>9, <1>10, <1>11, <1>12 DEF Installer

\* BootInv is inductive.
LEMMA BootInvKept == SlotInv /\ BootInv /\ [Next]_vars => BootInv'
<1> SUFFICES ASSUME SlotInv, BootInv, [Next]_vars PROVE BootInv'
    OBVIOUS
<1>1. /\ faults' \in [FaultKind -> Nat]
      /\ faults'["installFails"] = 0 => faults["installFails"] = 0 /\ ~InstallFails
    BY FaultsCount DEF BootInv
<1>2. ASSUME faults'["installFails"] = 0 PROVE Boot'
    <2>1. Boot /\ ~InstallFails
        BY <1>1, <1>2 DEF BootInv, Boot
    <2>2. CASE Approve \/ UNCHANGED vars
        <3>1. UNCHANGED <<slot, current, proc, upc, update, ipc, install, unit>>
            BY <2>2 DEF Approve, vars, diskVars, agentVars, installVars
        <3> QED BY <2>1, <3>1 DEF Boot, WriterInv, ProcInv, ServeInv, CurrentIsComplete, Complete
    <2> QED BY <2>1, <2>2, ProcessBoots, UpdaterBoots, CandidateBoots, InstallerBoots DEF Next
<1> QED BY <1>1, <1>2 DEF BootInv, Boot

\* Initially current holds the first target, or there is nothing to boot.
LEMMA InitBoots == Init => BootInv
<1> SUFFICES ASSUME Init PROVE BootInv
    OBVIOUS
<1>1. faults \in [FaultKind -> Nat] /\ upc = "idle" /\ ipc = "none"
    BY DEF Init
<1>2. CASE current = NoSlot /\ proc = Stopped
    BY <1>1, <1>2, Phases DEF BootInv, WriterInv, ProcInv, ServeInv, CurrentIsComplete, Booting
<1>3. CASE /\ slot = [s \in Slot |-> IF s = "a" THEN Whole(1) ELSE Empty]
           /\ current = "a" /\ unit = TRUE /\ proc = Process("serve", NoSlot, Whole(1), 1)
    <2>1. slot[current] = Whole(1) /\ Whole(1).bin = 1 /\ Whole(1).cfg = 1
        BY <1>3 DEF Slot, Whole
    <2>2. proc.pc = "serve" /\ proc.bin = 1 /\ proc.cfg = 1
        BY <1>3, <2>1, Phases
    <2>3. ServeInv
        BY <1>3, <2>1, <2>2 DEF ServeInv, CurrentIsComplete, Complete, Booting, Whole, NoSlot
    <2> QED BY <1>1, <1>3, <2>2, <2>3 DEF BootInv, WriterInv, ProcInv
<1> QED BY <1>2, <1>3 DEF Init

\* As long as no installation fails, current never points to a slot without a binary or
\* a configuration, whenever a candidate activates itself and whatever it races with.
THEOREM CurrentCanBoot == Spec => []CurrentIsBootable
<1>1. BootInv => CurrentIsBootable
    BY DEF BootInv, ServeInv, CurrentIsBootable
<1> QED BY InitTyped, SlotInvKept, InitBoots, BootInvKept, <1>1, PTL DEF Spec

\* As long as no installation fails, a serving process runs what current holds, so a
\* restart never changes the version or the configuration behind Cloud's back.
THEOREM RestartChangesNothing == Spec => []RunningIsCurrent
<1>1. BootInv => RunningIsCurrent
    BY DEF BootInv, ServeInv, RunningIsCurrent
<1> QED BY InitTyped, SlotInvKept, InitBoots, BootInvKept, <1>1, PTL DEF Spec
==============================================================================
