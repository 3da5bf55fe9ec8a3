-------------------------- MODULE CommandPathProofs --------------------------
(***************************************************************************)
(* Proofs about CommandPath for every set of commands and groups, every    *)
(* history limit and every number of faults.                               *)
(***************************************************************************)
EXTENDS CommandPath, SequenceTheorems, FiniteSetTheorems, TLAPS

-----------------------------------------------------------------------------
(* What the journal's operators preserve. *)

\* Begin saves a snapshot of the same shape.
LEMMA BeginType ==
    ASSUME NEW s \in Snapshot, NEW c \in Command
    PROVE  BeginSnapshot(s, c) \in Snapshot
<1>1. s.active \in Holders /\ s.recent \in History
  BY DEF Snapshot
<1>2. [s.active EXCEPT ![GroupOf[c]] = c] \in Holders
  BY <1>1, GroupOfType DEF Holders
<1>3. BeginSnapshot(s, c) = [active |-> [s.active EXCEPT ![GroupOf[c]] = c], recent |-> s.recent]
  BY DEF BeginSnapshot, Snapshot
<1> QED BY <1>1, <1>2, <1>3 DEF Snapshot

\* Begin forgets nobody when the group is free, and knows the new command.
LEMMA BeginKnown ==
    ASSUME NEW s \in Snapshot, NEW c \in Command, NEW d \in Command,
           ~Conflicts(s, c)
    PROVE  /\ IsActive(BeginSnapshot(s, c), c)
           /\ Known(s, d) => Known(BeginSnapshot(s, c), d)
           /\ IsActive(s, d) => IsActive(BeginSnapshot(s, c), d)
BY GroupOfType, NoCommandFresh
   DEF BeginSnapshot, Snapshot, Holders, Conflicts, Known, IsActive, IsRecent

\* A history one record over its limit loses its first record and no other.
LEMMA TrimDropsFirst ==
    ASSUME NEW q \in Seq(Record), Len(q) = RecentLimit + 1
    PROVE  /\ Trim(q) \in Seq(Record)
           /\ Len(Trim(q)) = RecentLimit
           /\ \A i \in 1..RecentLimit : Trim(q)[i] = q[i + 1]
<1>1. RecentLimit \in Nat /\ RecentLimit >= 1
  BY RecentLimitPositive
<1>2. Trim(q) = SubSeq(q, 2, RecentLimit + 1)
  BY <1>1 DEF Trim
<1>3. \A i \in 2..(RecentLimit + 1) : q[i] \in Record
  BY <1>1
<1>4. /\ SubSeq(q, 2, RecentLimit + 1) \in Seq(Record)
      /\ Len(SubSeq(q, 2, RecentLimit + 1)) = RecentLimit
      /\ \A i \in 1..RecentLimit : SubSeq(q, 2, RecentLimit + 1)[i] = q[2 + i - 1]
  BY <1>1, <1>3, SubSeqProperties
<1> QED BY <1>1, <1>2, <1>4

\* Finish saves a snapshot of the same shape: the history keeps its bound.
LEMMA FinishType ==
    ASSUME NEW s \in Snapshot, NEW c \in Command, NEW r \in Terminal
    PROVE  FinishSnapshot(s, c, r) \in Snapshot
<1> DEFINE all == Append(s.recent, [id |-> c, res |-> r])
<1>1. /\ s.recent \in Seq(Record)
      /\ Len(s.recent) \in Nat
      /\ Len(s.recent) <= RecentLimit
      /\ RecentLimit \in Nat \ {0}
  BY RecentLimitPositive DEF Snapshot, History
<1>2. all \in Seq(Record) /\ Len(all) = Len(s.recent) + 1
  BY <1>1 DEF Record
<1>3. Trim(all) \in History
  <2>1. CASE Len(all) > RecentLimit
    <3>1. Len(all) = RecentLimit + 1
      BY <1>1, <1>2, <2>1
    <3>2. Trim(all) \in Seq(Record) /\ Len(Trim(all)) = RecentLimit
      BY <3>1, <1>2, TrimDropsFirst
    <3>3. Len(Trim(all)) <= RecentLimit
      BY <3>2, <1>1
    <3> QED BY ONLY <3>2, <3>3 DEF History
  <2>2. CASE ~(Len(all) > RecentLimit)
    BY <2>2, <1>1, <1>2 DEF Trim, History
  <2> QED BY <2>1, <2>2
<1>4. [s.active EXCEPT ![GroupOf[c]] = NoCommand] \in Holders
  BY GroupOfType DEF Snapshot, Holders
<1> QED BY <1>3, <1>4 DEF FinishSnapshot, Snapshot

\* Finish forgets nobody but the one command a full history drops.
LEMMA FinishKnown ==
    ASSUME NEW s \in Snapshot, NEW c \in Command, NEW d \in Command, NEW r \in Terminal,
           IsActive(s, c), Known(s, d)
    PROVE  Known(FinishSnapshot(s, c, r), d) \/ d \in Dropped(s)
<1> DEFINE all == Append(s.recent, [id |-> c, res |-> r])
           new == FinishSnapshot(s, c, r)
<1>1. /\ s.recent \in Seq(Record)
      /\ Len(s.recent) \in Nat
      /\ Len(s.recent) <= RecentLimit
      /\ RecentLimit \in Nat \ {0}
  BY RecentLimitPositive DEF Snapshot, History
<1>2. /\ all \in Seq(Record)
      /\ Len(all) = Len(s.recent) + 1
      /\ all[Len(all)] = [id |-> c, res |-> r]
      /\ \A i \in 1..Len(s.recent) : all[i] = s.recent[i]
  BY <1>1 DEF Record
<1>3. new.recent = Trim(all)
  BY DEF FinishSnapshot
<1>4. ASSUME NEW i \in 1..Len(all), all[i].id = d, d \notin Dropped(s)
      PROVE  d \in Ids(Trim(all))
  <2>1. CASE Len(all) > RecentLimit
    <3>1. Len(all) = RecentLimit + 1 /\ Len(s.recent) = RecentLimit
      BY <1>1, <1>2, <2>1
    <3>2. /\ Trim(all) \in Seq(Record)
          /\ Len(Trim(all)) = RecentLimit
          /\ \A k \in 1..RecentLimit : Trim(all)[k] = all[k + 1]
      BY <3>1, <1>2, TrimDropsFirst
    <3>3. i # 1
      <4> SUFFICES ASSUME i = 1 PROVE FALSE
        OBVIOUS
      <4>1. all[1] = s.recent[1]
        BY <1>1, <1>2, <3>1
      <4>2. s.recent[1].id = d
        BY <4>1, <1>4
      <4> QED BY <4>2, <3>1, <1>4 DEF Dropped
    <3>4. i - 1 \in 1..RecentLimit
      BY <3>1, <3>3, <1>1, <1>4
    <3>5. Trim(all)[i - 1] = all[i]
      BY <3>2, <3>4, <1>1
    <3>6. i - 1 \in DOMAIN Trim(all)
      BY <3>2, <3>4
    <3> QED BY <3>5, <3>6, <1>4 DEF Ids
  <2>2. CASE ~(Len(all) > RecentLimit)
    BY <2>2, <1>1, <1>2, <1>4 DEF Trim, Ids
  <2> QED BY <2>1, <2>2
<1>5. CASE IsRecent(s, d)
  <2>1. PICK i \in DOMAIN s.recent : s.recent[i].id = d
    BY <1>5 DEF IsRecent, Ids
  <2>2. i \in 1..Len(all) /\ all[i].id = d
    BY <2>1, <1>1, <1>2
  <2> QED BY <2>2, <1>4, <1>3 DEF Known, IsRecent
<1>6. CASE IsActive(s, d) /\ d = c
  <2>1. Len(all) \in 1..Len(all) /\ all[Len(all)].id = d
    BY <1>6, <1>1, <1>2
  <2> QED BY <2>1, <1>4, <1>3 DEF Known, IsRecent
<1>7. CASE IsActive(s, d) /\ d # c
  <2>1. GroupOf[d] # GroupOf[c]
    BY <1>7 DEF IsActive
  <2>2. IsActive(new, d)
    BY <2>1, <1>7, GroupOfType DEF IsActive, FinishSnapshot, Snapshot, Holders
  <2> QED BY <2>2 DEF Known
<1> QED BY <1>5, <1>6, <1>7 DEF Known

\* Finish frees the group of the finished command and no other.
LEMMA FinishActive ==
    ASSUME NEW s \in Snapshot, NEW c \in Command, NEW d \in Command, NEW r \in Terminal,
           IsActive(s, c), IsActive(s, d), c # d
    PROVE  IsActive(FinishSnapshot(s, c, r), d)
BY GroupOfType DEF IsActive, FinishSnapshot, Snapshot, Holders

-----------------------------------------------------------------------------
(* Type correctness. *)

\* Whichever way a save ends, memory and disk stay snapshots.
LEMMA SaveType ==
    ASSUME JournalType, faults \in [FaultKind -> Nat],
           NEW next \in Snapshot, NEW dropped \in SUBSET Command,
           NEW outcome \in SaveOutcome, Save(next, dropped, outcome)
    PROVE  JournalType' /\ faults' \in [FaultKind -> Nat]
BY DEF JournalType, Save, Fault, FaultKind

\* The command a full history drops is a command.
LEMMA DroppedType ==
    ASSUME NEW s \in Snapshot
    PROVE  Dropped(s) \subseteq Command
<1>1. RecentLimit \in Nat \ {0} /\ s.recent \in Seq(Record)
  BY RecentLimitPositive DEF Snapshot, History
<1>2. Len(s.recent) = RecentLimit => s.recent[1] \in Record
  BY <1>1
<1> QED BY <1>2 DEF Dropped, Record

\* A replayed result is one that was journaled.
LEMMA RecentResultType ==
    ASSUME NEW s \in Snapshot, NEW c \in Command, IsRecent(s, c)
    PROVE  RecentResult(s, c) \in Terminal
<1>1. \E i \in DOMAIN s.recent : s.recent[i].id = c
  BY DEF IsRecent, Ids
<1>2. s.recent \in Seq(Record)
  BY DEF Snapshot, History
<1>3. \A i \in DOMAIN s.recent : s.recent[i] \in Record
  BY <1>2
<1> QED BY <1>1, <1>3 DEF RecentResult, Record

\* A snapshot's groups hold commands.
LEMMA ActiveType ==
    ASSUME NEW s \in Snapshot, NEW c \in Command
    PROVE  /\ s.active[GroupOf[c]] \in Command \cup {NoCommand}
           /\ s.active[GroupOf[c]] # NoCommand => IsActive(s, s.active[GroupOf[c]])
BY GroupOfType DEF Snapshot, Holders, IsActive

\* The initial state is well typed.
LEMMA InitTypeOK == Init => TypeOK
<1> SUFFICES ASSUME Init PROVE TypeOK
  OBVIOUS
<1>1. JournalType
  <2>1. <<>> \in History
    BY RecentLimitPositive DEF History
  <2> QED BY <2>1 DEF EmptySnapshot, Snapshot, Holders, Init, JournalType
<1>2. ExecutorType
  BY DEF Init, Exec, Idle, Phase, NoResult, ExecutorType, HasResult
<1>3. WireType /\ ClientType /\ CloudType /\ CountType
  BY DEF Init, WireType, ClientType, CloudType, CountType
<1>4. FlagType
  BY DEF Init, FlagType
<1> QED BY <1>1, <1>2, <1>3, <1>4 DEF TypeOK

\* A new process is well typed.
LEMMA NewProcessTypeOK ==
    ASSUME TypeOK, NewProcess, faults' \in [FaultKind -> Nat]
    PROVE  TypeOK'
<1>1. JournalType'
  BY DEF NewProcess, JournalType, TypeOK
<1>2. ExecutorType'
  BY DEF NewProcess, Exec, Idle, Phase, NoResult, ExecutorType, HasResult
<1>3. WireType' /\ ClientType'
  BY DEF NewProcess, WireType, ClientType
<1>4. FlagType'
  BY DEF NewProcess, FlagType
<1>5. CloudType' /\ CountType'
  BY DEF NewProcess, CloudType, CountType, cloudVars, TypeOK
<1> QED BY <1>1, <1>2, <1>3, <1>4, <1>5 DEF TypeOK

ExecOK == exec \in [Command -> Exec] /\ \A c \in Command : HasResult(exec[c])

\* Moving a goroutine on keeps exec well typed.
LEMMA GotoType ==
    ASSUME ExecOK, NEW c \in Command, NEW p \in Phase, Goto(c, p),
           \/ p \notin {"finish", "deregister", "return"}
           \/ p = "return" /\ At(c, "deregister")
    PROVE  ExecOK'
<1>1. exec' \in [Command -> Exec]
  BY DEF ExecOK, Exec, Goto
<1>2. ASSUME NEW d \in Command PROVE HasResult(exec[d])'
  <2>1. CASE d = c
    <3>1. exec'[d].phase = p /\ exec'[d].res = exec[d].res
      BY <2>1 DEF ExecOK, Exec, Goto
    <3> QED BY <2>1, <3>1 DEF HasResult, At, ExecOK
  <2>2. CASE d # c
    BY <2>2 DEF ExecOK, Goto, HasResult
  <2> QED BY <2>1, <2>2
<1> QED BY <1>1, <1>2 DEF ExecOK

\* The same for a move that sets the goroutine's result.
LEMMA GotoWithType ==
    ASSUME ExecOK, NEW c \in Command, NEW p \in Phase, NEW r, GotoWith(c, p, r),
           \/ p = "deregister" /\ r \in Result \cup {Failed}
           \/ p = "finish" /\ r \in Terminal
    PROVE  ExecOK'
<1>0. r \in Result \cup {NoResult, Failed}
  BY DEF Result
<1>1. exec' \in [Command -> Exec]
  BY <1>0 DEF ExecOK, Exec, GotoWith
<1>2. ASSUME NEW d \in Command PROVE HasResult(exec[d])'
  <2>1. CASE d = c
    <3>1. exec'[d].phase = p /\ exec'[d].res = r
      BY <2>1 DEF ExecOK, Exec, GotoWith
    <3> QED BY <2>1, <3>1 DEF HasResult
  <2>2. CASE d # c
    BY <2>2 DEF ExecOK, GotoWith, HasResult
  <2> QED BY <2>1, <2>2
<1> QED BY <1>1, <1>2 DEF ExecOK

\* A step of a goroutine that leaves Client and Cloud alone.
LEMMA ExecutorStepTypeOK ==
    ASSUME TypeOK, NEW c \in Command,
           \/ Register(c) \/ CheckRecent(c) \/ Replay(c) \/ Begin(c)
           \/ FinishLeftover(c) \/ Resolve(c) \/ Run(c) \/ RunReturns(c)
           \/ Finish(c) \/ Deregister(c)
    PROVE  TypeOK'
<1> USE DEF Phase
<1>0. /\ JournalType /\ ExecutorType /\ CountType
      /\ ExecOK
      /\ exec[c] \in Exec
      /\ mem \in Snapshot
      /\ faults \in [FaultKind -> Nat]
  BY DEF TypeOK, JournalType, ExecutorType, CountType, ExecOK
<1>1. UNCHANGED execUnchanged
  BY DEF Register, CheckRecent, Replay, Begin, FinishLeftover, Resolve, Run, RunReturns,
         Finish, Deregister
<1>2. ClientType' /\ FlagType' /\ WireType' /\ CloudType'
  BY <1>1 DEF execUnchanged, clientVars, wireVars, cloudVars, TypeOK, ClientType, FlagType,
              WireType, CloudType
<1>3. CASE Register(c) \/ CheckRecent(c) \/ Deregister(c)
  <2>1. ExecOK'
    BY <1>0, <1>3, GotoType DEF Register, CheckRecent, Deregister
  <2>2. ExecutorType' /\ JournalType' /\ CountType'
    BY <2>1, <1>0, <1>3 DEF Register, CheckRecent, Deregister, ExecutorType, ExecOK, JournalType,
                            CountType, journalVars
  <2> QED BY <2>2, <1>2 DEF TypeOK
<1>4. CASE Replay(c) \/ Resolve(c) \/ RunReturns(c)
  <2>1. ExecOK'
    <3>1. CASE Replay(c)
      BY <3>1, <1>0, GotoWithType, RecentResultType DEF Replay, Result
    <3>2. CASE Resolve(c)
      BY <3>2, <1>0, GotoWithType DEF Resolve, Result, Terminal
    <3>3. CASE RunReturns(c)
      BY <3>3, <1>0, GotoWithType DEF RunReturns, Result, Terminal
    <3> QED BY <1>4, <3>1, <3>2, <3>3
  <2>2. ExecutorType' /\ JournalType' /\ CountType'
    BY <2>1, <1>0, <1>4 DEF Replay, Resolve, RunReturns, ExecutorType, ExecOK, JournalType,
                            CountType, journalVars
  <2> QED BY <2>2, <1>2 DEF TypeOK
<1>5. CASE Run(c)
  <2>1. ExecOK'
    BY <1>0, <1>5, GotoType DEF Run
  <2>2. started' \in [Command -> Nat]
    BY <1>0, <1>5 DEF Run, CountType
  <2>3. ExecutorType' /\ JournalType' /\ CountType'
    BY <2>1, <2>2, <1>0, <1>5 DEF Run, ExecutorType, ExecOK, JournalType, CountType, journalVars
  <2> QED BY <2>3, <1>2 DEF TypeOK
<1>6. CASE Begin(c)
  <2>1. UNCHANGED <<registered, started>>
    BY <1>6 DEF Begin
  <2>2. CASE /\ Goto(c, IF At(c, "begin") THEN "conflict" ELSE "resolve")
             /\ UNCHANGED <<journalVars, faults>>
    <3>1. ExecOK'
      BY <1>0, <2>2, GotoType
    <3> QED BY <3>1, <2>1, <2>2, <1>0, <1>2
            DEF TypeOK, ExecutorType, ExecOK, JournalType, CountType, journalVars
  <2>3. CASE GotoWith(c, "deregister", Failed) /\ UNCHANGED <<journalVars, faults>>
    <3>1. ExecOK'
      BY <1>0, <2>3, GotoWithType
    <3> QED BY <3>1, <2>1, <2>3, <1>0, <1>2
            DEF TypeOK, ExecutorType, ExecOK, JournalType, CountType, journalVars
  <2>4. ASSUME NEW outcome \in SaveOutcome, Save(BeginSnapshot(mem, c), {}, outcome),
               IF outcome = "ok" THEN Goto(c, "run") ELSE GotoWith(c, "deregister", Failed)
        PROVE  TypeOK'
    <3>1. ExecOK'
      BY <1>0, <2>4, GotoType, GotoWithType
    <3>2. JournalType' /\ faults' \in [FaultKind -> Nat]
      BY <1>0, <2>4, BeginType, SaveType
    <3> QED BY <3>1, <3>2, <2>1, <1>0, <1>2 DEF TypeOK, ExecutorType, ExecOK, CountType
  <2> QED BY <1>6, <2>2, <2>3, <2>4 DEF Begin
<1>7. CASE FinishLeftover(c)
  <2> DEFINE left == mem.active[GroupOf[c]]
  <2>1. UNCHANGED <<registered, started>>
    BY <1>7 DEF FinishLeftover
  <2>2. CASE Goto(c, "resolve") /\ UNCHANGED <<journalVars, faults>>
    <3>1. ExecOK'
      BY <1>0, <2>2, GotoType
    <3> QED BY <3>1, <2>1, <2>2, <1>0, <1>2
            DEF TypeOK, ExecutorType, ExecOK, JournalType, CountType, journalVars
  <2>3. ASSUME NEW outcome \in SaveOutcome, left # NoCommand,
               Save(FinishSnapshot(mem, left, Recovered), Dropped(mem), outcome),
               Goto(c, IF outcome = "ok" THEN "begin2" ELSE "resolve")
        PROVE  TypeOK'
    <3>1. ExecOK'
      BY <1>0, <2>3, GotoType
    <3>2. left \in Command
      BY <2>3, <1>0, ActiveType
    <3>3. FinishSnapshot(mem, left, Recovered) \in Snapshot /\ Dropped(mem) \in SUBSET Command
      BY <3>2, <1>0, FinishType, DroppedType DEF Terminal
    <3>4. JournalType' /\ faults' \in [FaultKind -> Nat]
      BY <1>0, <2>3, <3>3, SaveType
    <3> QED BY <3>1, <3>4, <2>1, <1>0, <1>2 DEF TypeOK, ExecutorType, ExecOK, CountType
  <2> QED BY <1>7, <2>2, <2>3 DEF FinishLeftover
<1>8. CASE Finish(c)
  <2> DEFINE r == exec[c].res
  <2>1. UNCHANGED <<registered, started>>
    BY <1>8 DEF Finish
  <2>2. CASE GotoWith(c, "deregister", Failed) /\ UNCHANGED <<journalVars, faults>>
    <3>1. ExecOK'
      BY <1>0, <2>2, GotoWithType
    <3> QED BY <3>1, <2>1, <2>2, <1>0, <1>2
            DEF TypeOK, ExecutorType, ExecOK, JournalType, CountType, journalVars
  <2>3. ASSUME NEW outcome \in SaveOutcome, IsActive(mem, c),
               Save(FinishSnapshot(mem, c, r), Dropped(mem), outcome),
               GotoWith(c, "deregister", IF outcome = "ok" THEN r ELSE Failed)
        PROVE  TypeOK'
    <3>1. r \in Terminal
      BY <1>0, <1>8 DEF Finish, At, ExecOK, HasResult
    <3>2. ExecOK'
      BY <1>0, <2>3, <3>1, GotoWithType DEF Result
    <3>4. FinishSnapshot(mem, c, r) \in Snapshot /\ Dropped(mem) \in SUBSET Command
      BY <3>1, <1>0, FinishType, DroppedType
    <3>5. JournalType' /\ faults' \in [FaultKind -> Nat]
      BY <1>0, <2>3, <3>4, SaveType
    <3> QED BY <3>2, <3>5, <2>1, <1>0, <1>2 DEF TypeOK, ExecutorType, ExecOK, CountType
  <2> QED BY <1>8, <2>2, <2>3 DEF Finish
<1> QED BY <1>3, <1>4, <1>5, <1>6, <1>7, <1>8

\* Cutting the session drops what is in flight.
LEMMA CutType ==
    ASSUME CutSession
    PROVE  WireType' /\ session' = "broken"
BY DEF CutSession, WireType

\* Reading one message leaves a sequence of messages.
LEMMA TailType ==
    ASSUME NEW S, NEW q \in Seq(S), q # <<>>
    PROVE  Tail(q) \in Seq(S)
BY HeadTailProperties

\* Every step keeps every variable in its type.
LEMMA NextTypeOK == TypeOK /\ [Next]_vars => TypeOK'
<1> SUFFICES ASSUME TypeOK, [Next]_vars PROVE TypeOK'
  OBVIOUS
<1>0. /\ JournalType /\ ExecutorType /\ ClientType /\ FlagType /\ WireType
      /\ CloudType /\ CountType
  BY DEF TypeOK
<1> DEFINE JE == UNCHANGED <<journalVars, exec, registered>>
<1>a. ASSUME JE PROVE JournalType' /\ ExecutorType'
  BY <1>a, <1>0 DEF journalVars, JournalType, ExecutorType
<1>b. ASSUME UNCHANGED cloudVars PROVE CloudType'
  BY <1>b, <1>0 DEF cloudVars, CloudType
<1>c. ASSUME UNCHANGED <<faults, started>> PROVE CountType'
  BY <1>c, <1>0 DEF CountType
<1>d. ASSUME NEW k \in FaultKind, Fault(k), UNCHANGED started PROVE CountType'
  BY <1>d, <1>0 DEF CountType, Fault
<1>e. ASSUME UNCHANGED clientVars PROVE ClientType' /\ FlagType'
  BY <1>e, <1>0 DEF clientVars, ClientType, FlagType
<1>f. ASSUME NEW S \in SUBSET Command PROVE IsFiniteSet(S) /\ Cardinality(S) \in Nat
  BY CommandFinite, FS_Subset, FS_CardinalityType
<1>1. CASE Crash
  <2>1. faults' \in [FaultKind -> Nat]
    BY <1>1, <1>0 DEF Crash, Fault, CountType, FaultKind
  <2> QED BY <2>1, <1>1, NewProcessTypeOK DEF Crash
<1>2. CASE ExitFatal \/ ExecCandidate
  BY <1>2, <1>0, NewProcessTypeOK DEF ExitFatal, ExecCandidate, CountType
<1>3. CASE Connect
  <2>1. ClientType' /\ FlagType' /\ WireType'
    BY <1>3, <1>0 DEF Connect, ClientType, FlagType, WireType, wireVars
  <2> QED BY <2>1, <1>3, <1>a, <1>b, <1>c DEF Connect, TypeOK
<1>4. CASE Break
  <2>1. ClientType' /\ FlagType' /\ WireType'
    BY <1>4, <1>0, CutType DEF Break, ClientType, FlagType
  <2> QED BY <2>1, <1>4, <1>a, <1>b, <1>d DEF Break, TypeOK, FaultKind
<1>5. CASE EndSession
  <2>1. ClientType' /\ FlagType' /\ WireType'
    BY <1>5, <1>0, <1>f DEF EndSession, ClientType, FlagType, WireType, wireVars
  <2> QED BY <2>1, <1>5, <1>a, <1>b, <1>c DEF EndSession, TypeOK
<1>6. CASE TryUpdate
  <2>1. ClientType' /\ WireType'
    BY <1>6, <1>0 DEF TryUpdate, ClientType, WireType, wireVars
  <2>2. FlagType'
    BY <1>6, <1>0 DEF TryUpdate, FlagType
  <2> QED BY <2>1, <2>2, <1>6, <1>a, <1>b, <1>d DEF TryUpdate, TypeOK, FaultKind
<1>7. CASE ReleaseUpdate
  <2>1. ClientType' /\ WireType'
    BY <1>7, <1>0 DEF ReleaseUpdate, ClientType, WireType, wireVars
  <2>2. FlagType'
    BY <1>7, <1>0 DEF ReleaseUpdate, FlagType
  <2> QED BY <2>1, <2>2, <1>7, <1>a, <1>b, <1>c DEF ReleaseUpdate, TypeOK
<1>8. ASSUME NEW c \in Command, AcceptOffer(c) PROVE TypeOK'
  <2>1. WireType'
    <3>1. Accepted(c) \in UpMsg
      BY DEF Accepted, UpMsg
    <3>2. down' \in Seq(DownMsg)
      BY <1>8, <1>0, TailType DEF AcceptOffer, Receive, WireType
    <3>3. up' \in Seq(UpMsg)
      BY <3>1, <1>8, <1>0 DEF AcceptOffer, WireType
    <3> QED BY <3>2, <3>3 DEF WireType
  <2>2. ClientType' /\ FlagType'
    BY <1>8, <1>0 DEF AcceptOffer, ClientType, FlagType
  <2> QED BY <2>1, <2>2, <1>8, <1>a, <1>b, <1>c DEF AcceptOffer, TypeOK
<1>9. ASSUME NEW c \in Command, DeclineOffer(c) PROVE TypeOK'
  <2>1. WireType'
    BY <1>9, <1>0, TailType DEF DeclineOffer, Receive, WireType
  <2> QED BY <2>1, <1>9, <1>a, <1>b, <1>c, <1>e DEF DeclineOffer, TypeOK
<1>10. ASSUME NEW c \in Command, NEW ok \in BOOLEAN, HandleAcceptedAck(c, ok) PROVE TypeOK'
  <2>1. WireType'
    BY <1>10, <1>0, TailType DEF HandleAcceptedAck, Receive, WireType
  <2>2. ClientType' /\ FlagType'
    BY <1>10, <1>0 DEF HandleAcceptedAck, ClientType, FlagType
  <2>3. JournalType'
    BY <1>10, <1>0 DEF HandleAcceptedAck, JournalType, journalVars
  <2>4. ExecutorType'
    <3>1. CASE UNCHANGED exec
      BY <3>1, <1>10, <1>0 DEF HandleAcceptedAck, ExecutorType
    <3>2. CASE exec' = [exec EXCEPT ![c].phase = "queued"]
      <4>1. Goto(c, "queued") /\ ExecOK
        BY <3>2, <1>0 DEF Goto, ExecOK, ExecutorType
      <4>2. ExecOK'
        BY <4>1, GotoType DEF Phase
      <4> QED BY <4>2, <1>10, <1>0 DEF HandleAcceptedAck, ExecutorType, ExecOK
    <3> QED BY <3>1, <3>2, <1>10 DEF HandleAcceptedAck
  <2> QED BY <2>1, <2>2, <2>3, <2>4, <1>10, <1>b, <1>c DEF HandleAcceptedAck, TypeOK
<1>11. ASSUME NEW c \in Command, Goroutine(c) PROVE TypeOK'
  <2>1. CASE ReturnResult(c) \/ ReturnError(c)
    <3>1. exec' = [exec EXCEPT ![c] = Idle]
      BY <2>1 DEF ReturnResult, ReturnError
    <3>2. Idle \in Exec /\ HasResult(Idle)
      BY DEF Idle, Exec, Phase, NoResult, HasResult
    <3>3. JournalType' /\ ExecutorType'
      BY <3>1, <3>2, <2>1, <1>0 DEF ReturnResult, ReturnError, journalVars, JournalType, ExecutorType
    <3>4. CASE ReturnResult(c)
      <4>1. exec[c].res \in Result
        BY <3>4, <1>0 DEF ReturnResult, At, ExecutorType, HasResult
      <4>2. [type |-> "result", cmd |-> c, res |-> exec[c].res] \in ResultMsg
        BY <4>1 DEF ResultMsg
      <4>3. ClientType' /\ FlagType' /\ WireType'
        BY <4>2, <3>4, <1>0 DEF ReturnResult, ClientType, FlagType, WireType, wireVars
      <4> QED BY <4>3, <3>3, <3>4, <1>b, <1>c DEF ReturnResult, TypeOK
    <3>5. CASE ReturnError(c)
      <4>1. WireType' /\ ClientType'
        BY <3>5, <1>0, CutType DEF ReturnError, ClientType, WireType, wireVars
      <4>2. FlagType'
        BY <3>5, <1>0 DEF ReturnError, FlagType
      <4> QED BY <4>1, <4>2, <3>3, <3>5, <1>b, <1>c DEF ReturnError, TypeOK
    <3> QED BY <2>1, <3>4, <3>5
  <2> QED BY <1>11, <2>1, ExecutorStepTypeOK DEF Goroutine
<1>12. ASSUME NEW m \in outbox, WriteResult(m) PROVE TypeOK'
  <2>1. m \in UpMsg
    BY <1>0 DEF ClientType, UpMsg
  <2>2. ClientType' /\ FlagType' /\ WireType'
    BY <2>1, <1>12, <1>0 DEF WriteResult, ClientType, FlagType, WireType
  <2> QED BY <2>2, <1>12, <1>a, <1>b, <1>c DEF WriteResult, TypeOK
<1>13. ASSUME NEW c \in Command,
              CloudOffer(c) \/ CloudAccepts(c) \/ CloudResult(c) \/ CloudAbandon(c)
       PROVE  TypeOK'
  <2>1. UNCHANGED cloudUnchanged
    BY <1>13 DEF CloudOffer, CloudAccepts, CloudResult, CloudAbandon
  <2>2. JournalType' /\ ExecutorType' /\ ClientType' /\ FlagType' /\ CountType'
    BY <2>1, <1>a, <1>c, <1>e DEF cloudUnchanged
  <2>3. WireType'
    <3>1. CASE CloudOffer(c)
      <4>1. [type |-> "offer", cmd |-> c] \in DownMsg
        BY DEF DownMsg
      <4> QED BY <4>1, <3>1, <1>0 DEF CloudOffer, WireType
    <3>2. CASE CloudAccepts(c)
      <4>1. [type |-> "ack", cmd |-> c, ok |-> cloud[c] \in {"offered", "accepted"}] \in DownMsg
        BY DEF DownMsg
      <4>2. down' \in Seq(DownMsg)
        BY <4>1, <3>2, <1>0 DEF CloudAccepts, WireType
      <4>3. up' \in Seq(UpMsg)
        BY <3>2, <1>0, TailType DEF CloudAccepts, WireType
      <4> QED BY <4>2, <4>3 DEF WireType
    <3>3. CASE CloudResult(c)
      BY <3>3, <1>0, TailType DEF CloudResult, WireType
    <3>4. CASE CloudAbandon(c)
      BY <3>4, <1>0 DEF CloudAbandon, WireType, wireVars
    <3> QED BY <1>13, <3>1, <3>2, <3>3, <3>4
  <2>4. CloudType'
    <3>1. CASE CloudResult(c)
      <4>1. Head(up) \in UpMsg
        BY <3>1, <1>0, HeadTailProperties DEF CloudResult, WireType
      <4>2. Head(up).res \in Result
        BY <4>1, <3>1 DEF CloudResult, UpMsg, ResultMsg
      <4> QED BY <4>2, <3>1, <1>0 DEF CloudResult, CloudType, cloudVars
    <3>2. CASE CloudOffer(c) \/ CloudAccepts(c) \/ CloudAbandon(c)
      BY <3>2, <1>0 DEF CloudOffer, CloudAccepts, CloudAbandon, CloudType
    <3> QED BY <1>13, <3>1, <3>2
  <2> QED BY <2>2, <2>3, <2>4 DEF TypeOK
<1>14. CASE UNCHANGED vars
  <2>1. JE /\ UNCHANGED <<clientVars, cloudVars, faults, started>>
    BY <1>14 DEF vars
  <2>2. WireType'
    BY <1>14, <1>0 DEF vars, wireVars, WireType
  <2> QED BY <2>1, <2>2, <1>a, <1>b, <1>c, <1>e DEF TypeOK
<1> QED
  BY <1>1, <1>2, <1>3, <1>4, <1>5, <1>6, <1>7, <1>8, <1>9, <1>10, <1>11, <1>12, <1>13, <1>14
     DEF Next

\* Every variable of the command path keeps its type in every behaviour.
THEOREM TypeCorrect == Spec => []TypeOK
BY InitTypeOK, NextTypeOK, PTL DEF Spec

-----------------------------------------------------------------------------
(* At most one run per command. *)

\* A step of the executor forgets nobody the history has not dropped.
LEMMA JournalStep ==
    ASSUME TypeOK, NEW c \in Command, NEW d \in Command,
           Begin(c) \/ FinishLeftover(c) \/ Finish(c),
           Remembered(d), d \notin evicted'
    PROVE  Remembered(d)' /\ d \notin evicted
<1>0. mem \in Snapshot /\ disk \in Snapshot /\ exec \in [Command -> Exec] /\ HasResult(exec[c])
  BY DEF TypeOK, JournalType, ExecutorType
<1>1. ASSUME NEW next, NEW dropped, NEW outcome \in SaveOutcome, Save(next, dropped, outcome),
             Known(next, d) \/ d \in dropped
      PROVE  Remembered(d)' /\ d \notin evicted
  BY <1>1 DEF Save, Remembered, SaveOutcome, Known, IsActive, IsRecent
<1>2. CASE UNCHANGED journalVars
  BY <1>2 DEF journalVars, Remembered, Known, IsActive, IsRecent
<1>3. CASE Begin(c) /\ ~UNCHANGED journalVars
  <2>1. PICK outcome \in SaveOutcome : Save(BeginSnapshot(mem, c), {}, outcome)
    BY <1>3 DEF Begin, journalVars
  <2>2. ~Conflicts(mem, c)
    BY <1>3 DEF Begin
  <2>3. Known(BeginSnapshot(mem, c), d)
    BY <2>2, <1>0, BeginKnown DEF Remembered
  <2> QED BY <2>1, <2>3, <1>1
<1>4. CASE FinishLeftover(c) /\ ~UNCHANGED journalVars
  <2> DEFINE left == mem.active[GroupOf[c]]
  <2>1. PICK outcome \in SaveOutcome :
           Save(FinishSnapshot(mem, left, Recovered), Dropped(mem), outcome)
    BY <1>4 DEF FinishLeftover
  <2>2. left \in Command /\ left # NoCommand
    BY <1>4, <1>0, ActiveType DEF FinishLeftover
  <2>3. Known(FinishSnapshot(mem, left, Recovered), d) \/ d \in Dropped(mem)
    BY <2>2, <1>0, ActiveType, FinishKnown DEF Remembered, Terminal
  <2> QED BY <2>1, <2>3, <1>1
<1>5. CASE Finish(c) /\ ~UNCHANGED journalVars
  <2>1. PICK outcome \in SaveOutcome : Save(FinishSnapshot(mem, c, exec[c].res), Dropped(mem), outcome)
    BY <1>5 DEF Finish
  <2>2. IsActive(mem, c) /\ exec[c].res \in Terminal
    BY <1>5, <1>0 DEF Finish, HasResult, At
  <2>3. Known(FinishSnapshot(mem, c, exec[c].res), d) \/ d \in Dropped(mem)
    BY <2>2, <1>0, FinishKnown DEF Remembered
  <2> QED BY <2>1, <2>3, <1>1
<1> QED BY <1>2, <1>3, <1>4, <1>5

\* What each goroutine's step does to the phases: nobody else moves.
LEMMA GoroutineMoves ==
    ASSUME TypeOK, NEW c \in Command, Goroutine(c)
    PROVE  /\ \A d \in Command \ {c} : exec'[d] = exec[d]
           /\ Run(c) \/ UNCHANGED started
           /\ (Begin(c) \/ FinishLeftover(c) \/ Finish(c)) \/ UNCHANGED journalVars
<1>0. exec \in [Command -> Exec]
  BY DEF TypeOK, ExecutorType
<1>1. CASE Register(c) \/ CheckRecent(c) \/ Replay(c) \/ Resolve(c) \/ Run(c) \/ Deregister(c)
  BY <1>0, <1>1 DEF Register, CheckRecent, Replay, Resolve, Run, Deregister, Goto, GotoWith
<1>2. CASE Begin(c)
  BY <1>0, <1>2 DEF Begin, Goto, GotoWith
<1>3. CASE FinishLeftover(c)
  BY <1>0, <1>3 DEF FinishLeftover, Goto, GotoWith
<1>4. CASE Finish(c)
  BY <1>0, <1>4 DEF Finish, Goto, GotoWith
<1>5. CASE RunReturns(c) \/ ReturnResult(c) \/ ReturnError(c)
  BY <1>0, <1>5 DEF RunReturns, ReturnResult, ReturnError, GotoWith
<1> QED BY <1>1, <1>2, <1>3, <1>4, <1>5 DEF Goroutine

\* Only Begin moves a goroutine to the start of its run, and only a command that
\* neither copy of the journal knew; both know it afterwards.
LEMMA RunFollowsBegin ==
    ASSUME TypeOK, NEW c \in Command, Goroutine(c), At(c, "run")'
    PROVE  ~Known(mem, c) /\ Remembered(c)' /\ IsActive(mem, c)'
<1>0. exec \in [Command -> Exec] /\ mem \in Snapshot
  BY DEF TypeOK, ExecutorType, JournalType
<1>1. Begin(c)
  <2>1. CASE Register(c) \/ Replay(c) \/ Resolve(c) \/ Run(c) \/ Deregister(c)
    BY <1>0, <2>1 DEF Register, Replay, Resolve, Run, Deregister, Goto, GotoWith, At, Exec
  <2>2. CASE CheckRecent(c)
    BY <1>0, <2>2 DEF CheckRecent, Goto, At, Exec
  <2>3. CASE FinishLeftover(c)
    BY <1>0, <2>3 DEF FinishLeftover, Goto, At, Exec
  <2>4. CASE Finish(c)
    BY <1>0, <2>4 DEF Finish, GotoWith, At, Exec
  <2>5. CASE RunReturns(c) \/ ReturnResult(c) \/ ReturnError(c)
    BY <1>0, <2>5 DEF RunReturns, ReturnResult, ReturnError, GotoWith, At, Exec, Idle
  <2> QED BY <2>1, <2>2, <2>3, <2>4, <2>5 DEF Goroutine
<1>2. /\ ~Conflicts(mem, c) /\ ~IsRecent(mem, c)
      /\ \E outcome \in SaveOutcome :
           /\ Save(BeginSnapshot(mem, c), {}, outcome)
           /\ IF outcome = "ok" THEN Goto(c, "run") ELSE GotoWith(c, "deregister", Failed)
  <2>1. ASSUME NEW p \in {"conflict", "resolve"} PROVE ~Goto(c, p)
    BY <1>0 DEF Goto, At, Exec
  <2>2. ~GotoWith(c, "deregister", Failed)
    BY <1>0 DEF GotoWith, At, Exec
  <2> QED BY <1>1, <2>1, <2>2 DEF Begin
<1>3. Save(BeginSnapshot(mem, c), {}, "ok")
  BY <1>2, <1>0 DEF GotoWith, At, Exec
<1>4. mem' = BeginSnapshot(mem, c) /\ disk' = BeginSnapshot(mem, c)
  BY <1>3 DEF Save
<1>5. IsActive(BeginSnapshot(mem, c), c)
  BY <1>0, <1>2, BeginKnown
<1>6. ~IsActive(mem, c)
  BY <1>2, NoCommandFresh DEF Conflicts, IsActive
<1> QED BY <1>2, <1>4, <1>5, <1>6 DEF Known, Remembered, IsActive, IsRecent

\* Reading an ack starts no run by itself.
LEMMA AckMoves ==
    ASSUME TypeOK, NEW c \in Command, NEW ok \in BOOLEAN, HandleAcceptedAck(c, ok),
           NEW d \in Command
    PROVE  exec'[d] = exec[d] \/ exec'[d].phase = "queued"
BY DEF HandleAcceptedAck, TypeOK, ExecutorType, Exec

\* The steps that touch neither the journal nor the goroutines.
Outside ==
    \/ Connect \/ Break \/ EndSession \/ TryUpdate \/ ReleaseUpdate
    \/ \E c \in Command :
          \/ AcceptOffer(c) \/ DeclineOffer(c)
          \/ CloudOffer(c) \/ CloudAccepts(c) \/ CloudResult(c) \/ CloudAbandon(c)
    \/ \E m \in outbox : WriteResult(m)
    \/ UNCHANGED vars

\* Those steps leave the journal, the goroutines and the count of runs alone.
LEMMA OutsideUnchanged ==
    ASSUME Outside
    PROVE  UNCHANGED <<disk, mem, evicted, exec, registered, started>>
BY DEF Outside, Connect, Break, EndSession, TryUpdate, ReleaseUpdate, AcceptOffer, DeclineOffer,
       CloudOffer, CloudAccepts, CloudResult, CloudAbandon, WriteResult, cloudUnchanged,
       journalVars, vars

\* A new process starts with the journal file and no goroutine.
LEMMA NewProcessSteps ==
    ASSUME Crash \/ ExitFatal \/ ExecCandidate
    PROVE  NewProcess
BY DEF Crash, ExitFatal, ExecCandidate

\* OnceInv is inductive.
LEMMA OnceInductive == TypeOK /\ OnceInv /\ [Next]_vars => OnceInv'
<1> SUFFICES ASSUME TypeOK, OnceInv, [Next]_vars, NEW d \in Command, d \notin evicted'
             PROVE  /\ started'[d] <= 1
                    /\ started'[d] > 0 \/ At(d, "run")' => Remembered(d)'
                    /\ At(d, "run")' => started'[d] = 0
  BY DEF OnceInv
<1>0. started \in [Command -> Nat] /\ exec \in [Command -> Exec]
  BY DEF TypeOK, CountType, ExecutorType
<1>i. d \notin evicted =>
         /\ started[d] <= 1
         /\ started[d] > 0 \/ At(d, "run") => Remembered(d)
         /\ At(d, "run") => started[d] = 0
  BY DEF OnceInv
<1>1. CASE Outside
  BY <1>1, <1>i, OutsideUnchanged DEF At, Remembered, Known, IsActive, IsRecent
<1>2. CASE Crash \/ ExitFatal \/ ExecCandidate
  <2>1. mem' = disk /\ UNCHANGED <<disk, evicted, started>> /\ exec'[d] = Idle
    BY <1>2, NewProcessSteps DEF NewProcess
  <2>2. ~At(d, "run")'
    BY <2>1 DEF At, Idle
  <2> QED BY <2>1, <2>2, <1>i DEF Remembered, Known, IsActive, IsRecent
<1>3. ASSUME NEW c \in Command, NEW ok \in BOOLEAN, HandleAcceptedAck(c, ok)
      PROVE  /\ started'[d] <= 1
             /\ started'[d] > 0 \/ At(d, "run")' => Remembered(d)'
             /\ At(d, "run")' => started'[d] = 0
  <2>1. UNCHANGED <<disk, mem, evicted, started>>
    BY <1>3 DEF HandleAcceptedAck, journalVars
  <2>2. At(d, "run")' => At(d, "run")
    BY <1>3, AckMoves DEF At
  <2> QED BY <2>1, <2>2, <1>i DEF Remembered, Known, IsActive, IsRecent
<1>4. ASSUME NEW c \in Command, Goroutine(c)
      PROVE  /\ started'[d] <= 1
             /\ started'[d] > 0 \/ At(d, "run")' => Remembered(d)'
             /\ At(d, "run")' => started'[d] = 0
  <2>1. d \notin evicted /\ (Remembered(d) => Remembered(d)')
    <3>1. CASE Begin(c) \/ FinishLeftover(c) \/ Finish(c)
      <4>1. evicted \subseteq evicted'
        BY <3>1 DEF Begin, FinishLeftover, Finish, Save, journalVars
      <4> QED BY <3>1, <4>1, JournalStep
    <3>2. CASE UNCHANGED journalVars
      BY <3>2 DEF journalVars, Remembered, Known, IsActive, IsRecent
    <3> QED BY <3>1, <3>2, <1>4, GoroutineMoves
  <2>2. CASE Run(c) /\ d = c
    <3>1. started[d] = 0 /\ Remembered(d) /\ started'[d] = 1
      BY <2>1, <2>2, <1>0, <1>i DEF Run, MaxStarts
    <3>2. ~At(d, "run")'
      BY <2>2, <1>0 DEF Run, Goto, At, Exec
    <3> QED BY <2>1, <3>1, <3>2
  <2>3. CASE ~(Run(c) /\ d = c)
    <3>1. started'[d] = started[d]
      BY <2>3, <1>4, <1>0, GoroutineMoves DEF Run
    <3>2. CASE d # c
      <4>1. At(d, "run")' <=> At(d, "run")
        BY <3>2, <1>4, GoroutineMoves DEF At
      <4> QED BY <4>1, <3>1, <2>1, <1>i
    <3>3. CASE d = c
      <4>1. CASE At(d, "run")'
        <5>1. ~Known(mem, d) /\ Remembered(d)'
          BY <4>1, <3>3, <1>4, RunFollowsBegin
        <5>2. started[d] = 0
          BY <5>1, <2>1, <1>i, <1>0 DEF Remembered
        <5> QED BY <5>1, <5>2, <3>1
      <4>2. CASE ~At(d, "run")'
        BY <4>2, <3>1, <2>1, <1>i
      <4> QED BY <4>1, <4>2
    <3> QED BY <3>2, <3>3
  <2> QED BY <2>2, <2>3
<1> QED BY <1>1, <1>2, <1>3, <1>4 DEF Next, Outside

\* Over any number of crashes, failed saves, repeated offers and replacements of the
\* process, a command's side effect is triggered at most once while the journal's
\* bounded history still knows it.
THEOREM RunsAtMostOnce == Spec => []AtMostOnce
<1>1. Init => OnceInv
  BY DEF Init, OnceInv, At, Idle
<1>2. TypeOK /\ OnceInv => AtMostOnce
  BY DEF OnceInv, AtMostOnce
<1> QED BY <1>1, <1>2, TypeCorrect, OnceInductive, PTL DEF Spec

-----------------------------------------------------------------------------
(* Exclusive groups. *)

\* Whom a step of the executor deregisters, and who is then inside it.
LEMMA RegisteredMoves ==
    ASSUME TypeOK, OwnerInv, NEW c \in Command, Goroutine(c), NEW d \in Command,
           exec'[d].phase \notin {"idle", "queued", "return"}
    PROVE  d \in registered'
<1>0. exec \in [Command -> Exec]
  BY DEF TypeOK, ExecutorType
<1>1. CASE Register(c)
  BY <1>0, <1>1 DEF Register, Goto, OwnerInv
<1>2. CASE Deregister(c)
  BY <1>0, <1>2 DEF Deregister, Goto, OwnerInv, Exec
<1>3. CASE CheckRecent(c) \/ Replay(c) \/ Begin(c) \/ FinishLeftover(c) \/ Resolve(c)
           \/ Run(c) \/ RunReturns(c) \/ Finish(c)
  <2>1. registered' = registered
    BY <1>3 DEF CheckRecent, Replay, Begin, FinishLeftover, Resolve, Run, RunReturns, Finish
  <2>2. c \in registered
    BY <1>3 DEF OwnerInv, At, CheckRecent, Replay, Begin, FinishLeftover, Resolve, Run,
                RunReturns, Finish
  <2> QED BY <2>1, <2>2, GoroutineMoves DEF OwnerInv
<1>4. CASE ReturnResult(c) \/ ReturnError(c)
  BY <1>0, <1>4 DEF ReturnResult, ReturnError, Idle, OwnerInv
<1> QED BY <1>1, <1>2, <1>3, <1>4 DEF Goroutine

\* A step of another goroutine never takes a registered command's active record.
LEMMA OthersKeepActive ==
    ASSUME TypeOK, NEW c \in Command, Goroutine(c), NEW d \in Command, d # c,
           d \in registered, IsActive(mem, d)
    PROVE  IsActive(mem, d)'
<1>0. mem \in Snapshot /\ HasResult(exec[c])
  BY DEF TypeOK, JournalType, ExecutorType
<1>1. ASSUME NEW next, NEW dropped, NEW outcome, Save(next, dropped, outcome), IsActive(next, d)
      PROVE  IsActive(mem, d)'
  BY <1>1 DEF Save, IsActive
<1>2. CASE UNCHANGED journalVars
  BY <1>2 DEF journalVars, IsActive
<1>3. CASE Begin(c) /\ ~UNCHANGED journalVars
  <2>1. PICK outcome \in SaveOutcome : Save(BeginSnapshot(mem, c), {}, outcome)
    BY <1>3 DEF Begin, journalVars
  <2>2. ~Conflicts(mem, c)
    BY <1>3 DEF Begin
  <2> QED BY <2>1, <2>2, <1>0, <1>1, BeginKnown
<1>4. CASE FinishLeftover(c) /\ ~UNCHANGED journalVars
  <2> DEFINE left == mem.active[GroupOf[c]]
  <2>1. PICK outcome \in SaveOutcome :
           Save(FinishSnapshot(mem, left, Recovered), Dropped(mem), outcome)
    BY <1>4 DEF FinishLeftover
  <2>2. left \in Command /\ left # d /\ IsActive(mem, left)
    BY <1>4, <1>0, ActiveType DEF FinishLeftover
  <2>3. IsActive(FinishSnapshot(mem, left, Recovered), d)
    BY <2>2, <1>0, FinishActive DEF Terminal
  <2> QED BY <2>1, <2>3, <1>1
<1>5. CASE Finish(c) /\ ~UNCHANGED journalVars
  <2>1. PICK outcome \in SaveOutcome : Save(FinishSnapshot(mem, c, exec[c].res), Dropped(mem), outcome)
    BY <1>5 DEF Finish
  <2>2. IsActive(mem, c) /\ exec[c].res \in Terminal
    BY <1>5, <1>0 DEF Finish, HasResult, At
  <2> QED BY <2>1, <2>2, <1>0, <1>1, FinishActive
<1> QED BY <1>2, <1>3, <1>4, <1>5, GoroutineMoves

\* A goroutine's own step leaves it with its group whenever it is to run or finish.
LEMMA OwnKeepActive ==
    ASSUME TypeOK, OwnerInv, NEW c \in Command, Goroutine(c), exec'[c].phase \in Journaled
    PROVE  IsActive(mem, c)'
<1>0. exec \in [Command -> Exec]
  BY DEF TypeOK, ExecutorType
<1>1. CASE At(c, "run")'
  BY <1>1, RunFollowsBegin
<1>2. CASE ~At(c, "run")' /\ ~UNCHANGED journalVars
  <2>1. CASE Begin(c)
    BY <1>0, <1>2, <2>1 DEF Begin, Goto, GotoWith, At, Exec, Journaled
  <2>2. CASE FinishLeftover(c)
    BY <1>0, <2>2 DEF FinishLeftover, Goto, Exec, Journaled
  <2>3. CASE Finish(c)
    BY <1>0, <2>3 DEF Finish, GotoWith, Exec, Journaled
  <2> QED BY <1>2, <2>1, <2>2, <2>3, GoroutineMoves
<1>3. CASE ~At(c, "run")' /\ UNCHANGED journalVars
  <2>1. CASE Run(c) \/ RunReturns(c) \/ Finish(c)
    <3>1. exec[c].phase \in Journaled
      BY <2>1 DEF Run, RunReturns, Finish, At, Journaled
    <3> QED BY <3>1, <1>3 DEF OwnerInv, IsActive, journalVars
  <2>2. CASE Resolve(c)
    <3>1. IsActive(mem, c)
      BY <1>0, <2>2 DEF Resolve, GotoWith, Journaled, Exec
    <3> QED BY <3>1, <1>3 DEF IsActive, journalVars
  <2>3. CASE Register(c) \/ CheckRecent(c) \/ Replay(c) \/ Deregister(c)
    BY <1>0, <2>3 DEF Register, CheckRecent, Replay, Deregister, Goto, GotoWith, Exec, Journaled
  <2>4. CASE Begin(c)
    BY <1>0, <1>3, <2>4 DEF Begin, Goto, GotoWith, At, Exec, Journaled
  <2>5. CASE FinishLeftover(c)
    BY <1>0, <2>5 DEF FinishLeftover, Goto, Exec, Journaled
  <2>6. CASE ReturnResult(c) \/ ReturnError(c)
    BY <1>0, <2>6 DEF ReturnResult, ReturnError, Idle, Journaled
  <2> QED BY <2>1, <2>2, <2>3, <2>4, <2>5, <2>6 DEF Goroutine
<1> QED BY <1>1, <1>2, <1>3

\* OwnerInv is inductive.
LEMMA OwnerInductive == TypeOK /\ OwnerInv /\ [Next]_vars => OwnerInv'
<1> SUFFICES ASSUME TypeOK, OwnerInv, [Next]_vars, NEW d \in Command
             PROVE  /\ exec'[d].phase \notin {"idle", "queued", "return"} => d \in registered'
                    /\ exec'[d].phase \in Journaled => IsActive(mem, d)'
  BY DEF OwnerInv
<1>1. CASE Outside
  BY <1>1, OutsideUnchanged DEF OwnerInv, IsActive
<1>2. CASE Crash \/ ExitFatal \/ ExecCandidate
  <2>1. exec'[d] = Idle
    BY <1>2, NewProcessSteps DEF NewProcess
  <2> QED BY <2>1 DEF Idle, Journaled
<1>3. ASSUME NEW c \in Command, NEW ok \in BOOLEAN, HandleAcceptedAck(c, ok)
      PROVE  /\ exec'[d].phase \notin {"idle", "queued", "return"} => d \in registered'
             /\ exec'[d].phase \in Journaled => IsActive(mem, d)'
  <2>1. UNCHANGED <<mem, registered>>
    BY <1>3 DEF HandleAcceptedAck, journalVars
  <2> QED BY <2>1, <1>3, AckMoves DEF OwnerInv, IsActive, Journaled
<1>4. ASSUME NEW c \in Command, Goroutine(c)
      PROVE  /\ exec'[d].phase \notin {"idle", "queued", "return"} => d \in registered'
             /\ exec'[d].phase \in Journaled => IsActive(mem, d)'
  <2>1. exec'[d].phase \notin {"idle", "queued", "return"} => d \in registered'
    BY <1>4, RegisteredMoves
  <2>2. ASSUME exec'[d].phase \in Journaled PROVE IsActive(mem, d)'
    <3>1. CASE d = c
      BY <3>1, <2>2, <1>4, OwnKeepActive
    <3>2. CASE d # c
      <4>1. exec[d].phase \in Journaled
        BY <3>2, <2>2, <1>4, GoroutineMoves
      <4>2. d \in registered /\ IsActive(mem, d)
        BY <4>1 DEF OwnerInv, Journaled
      <4> QED BY <4>2, <3>2, <1>4, OthersKeepActive
    <3> QED BY <3>1, <3>2
  <2> QED BY <2>1, <2>2
<1> QED BY <1>1, <1>2, <1>3, <1>4 DEF Next, Outside

\* No two commands of one exclusive group are ever both between their journaled
\* Begin and their journaled result, whoever recovers whose leftover.
THEOREM GroupsAreExclusive == Spec => []GroupExclusive
<1>1. Init => OwnerInv
  <2> SUFFICES ASSUME Init PROVE OwnerInv
    OBVIOUS
  <2>1. ASSUME NEW c \in Command PROVE exec[c] = Idle
    BY DEF Init
  <2>2. Idle.phase = "idle"
    BY DEF Idle
  <2> QED BY <2>1, <2>2 DEF OwnerInv, Journaled
<1>2. OwnerInv => GroupExclusive
  BY DEF OwnerInv, GroupExclusive, IsActive
<1> QED BY <1>1, <1>2, TypeCorrect, OwnerInductive, PTL DEF Spec

-----------------------------------------------------------------------------
(* The lifecycle gate. *)

\* Sets of commands are finite; one more or one fewer element counts one.
LEMMA CommandSets ==
    ASSUME NEW S \in SUBSET Command, NEW c \in Command
    PROVE  /\ Cardinality(S) \in Nat
           /\ Cardinality(S) = 0 => S = {}
           /\ c \notin S => Cardinality(S \cup {c}) = Cardinality(S) + 1
           /\ c \in S => Cardinality(S \ {c}) = Cardinality(S) - 1
           /\ c \notin S => Cardinality(S \ {c}) = Cardinality(S)
<1>1. IsFiniteSet(S)
  BY CommandFinite, FS_Subset
<1>2. Cardinality(S) \in Nat /\ (Cardinality(S) = 0 => S = {})
  BY <1>1, FS_CardinalityType, FS_EmptySet
<1>3. c \notin S => Cardinality(S \cup {c}) = Cardinality(S) + 1
  BY <1>1, FS_AddElement
<1>4. c \in S => Cardinality(S \ {c}) = Cardinality(S) - 1
  <2> SUFFICES ASSUME c \in S PROVE Cardinality(S \ {c}) = Cardinality(S) - 1
    OBVIOUS
  <2> QED BY <1>1, FS_RemoveElement
<1>5. c \notin S => S \ {c} = S
  OBVIOUS
<1> QED BY <1>2, <1>3, <1>4, <1>5

\* GateInv is inductive.
LEMMA GateInductive == TypeOK /\ GateInv /\ [Next]_vars => GateInv'
<1> SUFFICES ASSUME TypeOK, GateInv, [Next]_vars PROVE GateInv'
  OBVIOUS
<1>0. /\ running \in SUBSET Command /\ pending \in SUBSET Command /\ leases \in Int
      /\ exec \in [Command -> Exec]
  BY DEF TypeOK, ClientType, ExecutorType
<1>i. /\ leases = Cardinality(pending) + Cardinality(running)
      /\ updating => leases = 0
      /\ \A c \in Command : ~At(c, "idle") => c \in running
  BY DEF GateInv, LeaseAccounting
<1>n. Cardinality(pending) \in Nat /\ Cardinality(running) \in Nat
  BY <1>0, CommandFinite, FS_Subset, FS_CardinalityType
<1>e. Cardinality({}) = 0
  BY FS_EmptySet
<1>u. ASSUME updating PROVE pending = {} /\ running = {}
  <2>1. Cardinality(pending) = 0 /\ Cardinality(running) = 0
    BY <1>u, <1>i, <1>n
  <2> QED BY <2>1, <1>0, CommandFinite, FS_Subset, FS_EmptySet
<1>1. CASE UNCHANGED <<running, pending, leases, updating, exec>>
  BY <1>1, <1>i DEF GateInv, LeaseAccounting, At
<1>2. CASE NewProcess
  <2>1. running' = {} /\ pending' = {} /\ leases' = 0 /\ \A c \in Command : exec'[c].phase = "idle"
    BY <1>2 DEF NewProcess, Idle
  <2> QED BY <2>1, <1>e DEF GateInv, LeaseAccounting, At
<1>3. CASE EndSession
  <2>1. /\ UNCHANGED <<running, updating, exec>> /\ pending' = {}
        /\ leases' = leases - Cardinality(pending)
    BY <1>3 DEF EndSession
  <2>2. leases' = Cardinality(pending') + Cardinality(running')
    BY <2>1, <1>i, <1>n, <1>e
  <2>3. updating' => leases' = 0
    BY <2>1, <1>i, <1>u, <1>e
  <2> QED BY <2>1, <2>2, <2>3, <1>i DEF GateInv, LeaseAccounting, At
<1>4. CASE TryUpdate \/ ReleaseUpdate
  BY <1>4, <1>i DEF TryUpdate, ReleaseUpdate, GateInv, LeaseAccounting, At
<1>5. ASSUME NEW c \in Command, AcceptOffer(c) PROVE GateInv'
  <2>1. UNCHANGED <<running, updating, exec>>
    BY <1>5 DEF AcceptOffer
  <2>2. CASE UNCHANGED <<pending, leases>>
    BY <2>1, <2>2, <1>1
  <2>3. CASE c \notin pending /\ ~updating /\ pending' = pending \cup {c} /\ leases' = leases + 1
    <3>1. leases' = Cardinality(pending') + Cardinality(running')
      BY <2>1, <2>3, <1>0, <1>i, <1>n, CommandSets
    <3> QED BY <3>1, <2>1, <2>3, <1>i DEF GateInv, LeaseAccounting, At
  <2> QED BY <1>5, <2>2, <2>3 DEF AcceptOffer
<1>6. ASSUME NEW c \in Command, NEW ok \in BOOLEAN, HandleAcceptedAck(c, ok) PROVE GateInv'
  <2>1. updating' = updating /\ pending' = pending \ {c}
    BY <1>6 DEF HandleAcceptedAck
  <2>2. CASE c \in pending /\ ok /\ c \notin running
    <3>1. /\ running' = running \cup {c} /\ UNCHANGED leases
          /\ exec' = [exec EXCEPT ![c].phase = "queued"]
      BY <1>6, <2>2 DEF HandleAcceptedAck
    <3>2. /\ Cardinality(pending') = Cardinality(pending) - 1
          /\ Cardinality(running') = Cardinality(running) + 1
      BY <2>1, <2>2, <3>1, <1>0, CommandSets
    <3>3. leases' = Cardinality(pending') + Cardinality(running')
      BY <3>1, <3>2, <1>i, <1>n
    <3>4. ~updating'
      BY <2>1, <2>2, <1>u
    <3>5. \A d \in Command : ~At(d, "idle")' => d \in running'
      BY <3>1, <1>0, <1>i DEF At
    <3> QED BY <3>3, <3>4, <3>5 DEF GateInv, LeaseAccounting
  <2>3. CASE ~(c \in pending /\ ok /\ c \notin running)
    <3>1. /\ leases' = IF c \in pending THEN leases - 1 ELSE leases
          /\ UNCHANGED <<running, exec>>
      BY <1>6, <2>3 DEF HandleAcceptedAck
    <3>2. Cardinality(pending') = IF c \in pending THEN Cardinality(pending) - 1
                                  ELSE Cardinality(pending)
      BY <2>1, <1>0, CommandSets
    <3>3. leases' = Cardinality(pending') + Cardinality(running')
      BY <3>1, <3>2, <1>i, <1>n
    <3>4. updating' => leases' = 0
      BY <2>1, <3>1, <1>i, <1>u
    <3> QED BY <3>1, <3>3, <3>4, <1>i DEF GateInv, LeaseAccounting, At
  <2> QED BY <2>2, <2>3
<1>7. ASSUME NEW c \in Command, Goroutine(c) PROVE GateInv'
  <2>1. CASE ReturnResult(c) \/ ReturnError(c)
    <3>1. /\ running' = running \ {c} /\ leases' = leases - 1
          /\ UNCHANGED <<pending, updating>>
          /\ exec' = [exec EXCEPT ![c] = Idle]
          /\ At(c, "return")
      BY <2>1 DEF ReturnResult, ReturnError
    <3>2. c \in running
      BY <3>1, <1>i DEF At
    <3>3. Cardinality(running') = Cardinality(running) - 1
      BY <3>1, <3>2, <1>0, CommandSets
    <3>4. leases' = Cardinality(pending') + Cardinality(running')
      BY <3>1, <3>3, <1>i, <1>n
    <3>5. ~updating'
      BY <3>1, <3>2, <1>u
    <3>6. \A d \in Command : ~At(d, "idle")' => d \in running'
      BY <3>1, <1>0, <1>i DEF At, Idle
    <3> QED BY <3>4, <3>5, <3>6 DEF GateInv, LeaseAccounting
  <2>2. CASE ~(ReturnResult(c) \/ ReturnError(c))
    <3>1. UNCHANGED <<running, pending, leases, updating>>
      BY <1>7, <2>2 DEF Goroutine, Register, CheckRecent, Replay, Begin, FinishLeftover, Resolve,
                        Run, RunReturns, Finish, Deregister, execUnchanged, clientVars
    <3>2. ~At(c, "idle")
      BY <1>7, <2>2 DEF Goroutine, Register, CheckRecent, Replay, Begin, FinishLeftover, Resolve,
                        Run, RunReturns, Finish, Deregister, At
    <3>3. \A d \in Command : ~At(d, "idle")' => d \in running'
      BY <3>1, <3>2, <1>7, <1>i, GoroutineMoves DEF At
    <3> QED BY <3>1, <3>3, <1>i DEF GateInv, LeaseAccounting
  <2> QED BY <2>1, <2>2
<1>8. CASE \/ Connect \/ Break \/ UNCHANGED vars
           \/ \E m \in outbox : WriteResult(m)
           \/ \E c \in Command : \/ DeclineOffer(c) \/ CloudOffer(c) \/ CloudAccepts(c)
                                \/ CloudResult(c) \/ CloudAbandon(c)
  BY <1>8, <1>1 DEF Connect, Break, WriteResult, DeclineOffer, CloudOffer, CloudAccepts,
                    CloudResult, CloudAbandon, cloudUnchanged, clientVars, vars
<1> QED BY <1>1, <1>2, <1>3, <1>4, <1>5, <1>6, <1>7, <1>8, NewProcessSteps DEF Next

\* An update lease is only ever held while no command is pending or executing.
THEOREM UpdatesExcludeWork == Spec => []UpdateExcludesWork
<1>1. Init => GateInv
  BY FS_EmptySet DEF Init, GateInv, LeaseAccounting, At, Idle
<1>2. TypeOK /\ GateInv => UpdateExcludesWork
  <2> SUFFICES ASSUME TypeOK, GateInv, updating PROVE running = {} /\ pending = {}
    BY DEF UpdateExcludesWork
  <2>1. IsFiniteSet(running) /\ IsFiniteSet(pending)
    BY CommandFinite, FS_Subset DEF TypeOK, ClientType
  <2>2. Cardinality(running) = 0 /\ Cardinality(pending) = 0
    BY <2>1, FS_CardinalityType DEF GateInv, LeaseAccounting
  <2> QED BY <2>1, <2>2, FS_EmptySet
<1> QED BY <1>1, <1>2, TypeCorrect, GateInductive, PTL DEF Spec

\* The gate's counter is the number of pending and running commands: no lease leaks
\* and none is released twice.
THEOREM LeasesBalance == Spec => []LeaseAccounting
<1>1. Init => GateInv
  BY FS_EmptySet DEF Init, GateInv, LeaseAccounting, At, Idle
<1>2. GateInv => LeaseAccounting
  BY DEF GateInv
<1> QED BY <1>1, <1>2, TypeCorrect, GateInductive, PTL DEF Spec

-----------------------------------------------------------------------------
(* What Cloud is told. *)

\* The history of a snapshot has this result of a command.
Holds(s, c, r) == \E i \in DOMAIN s.recent : s.recent[i] = [id |-> c, res |-> r]

\* The result a goroutine is about to return.
InHand(c) == IF exec[c].phase \in {"deregister", "return"} THEN {exec[c].res} \ {Failed} ELSE {}

\* Both copies of the journal are what Open accepts; the file holds every result that
\* memory holds, and memory every result that is told or about to be.
DurableInv ==
    /\ ValidSnapshot(mem) /\ ValidSnapshot(disk)
    /\ \A c \in Command : c \notin evicted =>
          /\ \A r \in Terminal : Holds(mem, c, r) => Holds(disk, c, r)
          /\ \A r \in (Told(c) \cup InHand(c)) \ {Busy} : Holds(mem, c, r)

\* A result the history of a valid snapshot holds is the one a replay returns.
LEMMA HeldIsReplayed ==
    ASSUME NEW s \in Snapshot, ValidSnapshot(s), NEW c \in Command, NEW r, Holds(s, c, r)
    PROVE  IsRecent(s, c) /\ RecentResult(s, c) = r /\ r \in Terminal
<1>1. PICK i \in DOMAIN s.recent : s.recent[i] = [id |-> c, res |-> r]
  BY DEF Holds
<1>2. \A j \in DOMAIN s.recent : s.recent[j].id = c => j = i
  BY <1>1 DEF ValidSnapshot
<1>3. (CHOOSE j \in DOMAIN s.recent : s.recent[j].id = c) = i
  BY <1>1, <1>2
<1>4. s.recent[i].id = c /\ s.recent[i].res = r
  BY <1>1
<1>5. s.recent \in Seq(Record)
  BY DEF Snapshot, History
<1>6. s.recent[i] \in Record
  BY <1>5
<1> QED BY <1>3, <1>4, <1>6 DEF IsRecent, Ids, RecentResult, Record

\* What a replay returns is in the history.
LEMMA ReplayedIsHeld ==
    ASSUME NEW s \in Snapshot, NEW c \in Command, IsRecent(s, c)
    PROVE  Holds(s, c, RecentResult(s, c))
<1> DEFINE i == CHOOSE j \in DOMAIN s.recent : s.recent[j].id = c
<1>1. i \in DOMAIN s.recent /\ s.recent[i].id = c
  BY DEF IsRecent, Ids
<1>2. s.recent \in Seq(Record)
  BY DEF Snapshot, History
<1>3. RecentResult(s, c) = s.recent[i].res
  BY DEF RecentResult
<1> HIDE DEF i
<1>4. s.recent[i] \in Record
  BY <1>1, <1>2
<1>5. s.recent[i] = [id |-> c, res |-> s.recent[i].res]
  BY <1>1, <1>4 DEF Record
<1> QED BY <1>1, <1>3, <1>5 DEF Holds

\* Begin of a command nobody knows, in a free group, saves a valid snapshot with the
\* same history.
LEMMA BeginValid ==
    ASSUME NEW s \in Snapshot, ValidSnapshot(s), NEW c \in Command,
           ~Conflicts(s, c), ~IsRecent(s, c)
    PROVE  /\ ValidSnapshot(BeginSnapshot(s, c))
           /\ BeginSnapshot(s, c).recent = s.recent
<1> DEFINE new == BeginSnapshot(s, c)
<1>1. /\ new.recent = s.recent
      /\ new.active = [s.active EXCEPT ![GroupOf[c]] = c]
      /\ s.active \in [Group -> Command \cup {NoCommand}]
  BY DEF BeginSnapshot, Snapshot, Holders
<1>2. \A g \in Group : new.active[g] # NoCommand => GroupOf[new.active[g]] = g
  BY <1>1 DEF ValidSnapshot
<1>3. \A d \in Command : ~(IsActive(new, d) /\ IsRecent(new, d))
  BY <1>1, GroupOfType DEF ValidSnapshot, IsActive, IsRecent
<1>4. \A i, j \in DOMAIN new.recent : new.recent[i].id = new.recent[j].id => i = j
  BY <1>1 DEF ValidSnapshot
<1> HIDE DEF new
<1>5. ValidSnapshot(new)
  BY <1>2, <1>3, <1>4 DEF ValidSnapshot
<1> QED BY <1>1, <1>5 DEF new

\* Finish's history is the old one with the result at its end, less its first record
\* when it was full.
LEMMA FinishHistory ==
    ASSUME NEW s \in Snapshot, NEW c \in Command, NEW r \in Terminal
    PROVE  LET q   == s.recent
               new == FinishSnapshot(s, c, r).recent
           IN  \E k \in {0, 1} :
                 /\ new \in Seq(Record)
                 /\ Len(new) = Len(q) + 1 - k
                 /\ k <= Len(q)
                 /\ \A i \in 1..Len(new) : i + k <= Len(q) => new[i] = q[i + k]
                 /\ new[Len(new)] = [id |-> c, res |-> r]
                 /\ k = 1 => Dropped(s) = {q[1].id}
<1> DEFINE q   == s.recent
           all == Append(q, [id |-> c, res |-> r])
           new == FinishSnapshot(s, c, r).recent
<1>1. /\ q \in Seq(Record)
      /\ Len(q) \in Nat
      /\ Len(q) <= RecentLimit
      /\ RecentLimit \in Nat /\ RecentLimit >= 1
  BY RecentLimitPositive DEF Snapshot, History
<1>2. /\ all \in Seq(Record)
      /\ Len(all) = Len(q) + 1
      /\ all[Len(q) + 1] = [id |-> c, res |-> r]
      /\ \A i \in 1..Len(q) : all[i] = q[i]
  BY <1>1 DEF Record
<1>3. new = Trim(all)
  BY DEF FinishSnapshot
<1>4. Dropped(s) = IF Len(q) = RecentLimit THEN {q[1].id} ELSE {}
  BY DEF Dropped
<1> HIDE DEF q, all, new
<1>5. CASE Len(all) > RecentLimit
  <2>1. Len(all) = RecentLimit + 1 /\ Len(q) = RecentLimit
    BY <1>5, <1>1, <1>2
  <2>2. /\ new \in Seq(Record)
        /\ Len(new) = RecentLimit
        /\ \A i \in 1..RecentLimit : new[i] = all[i + 1]
    BY <2>1, <1>2, <1>3, TrimDropsFirst
  <2>3. new[Len(new)] = [id |-> c, res |-> r]
    <3>1. Len(new) \in 1..RecentLimit /\ Len(new) + 1 = Len(q) + 1
      BY <2>1, <2>2, <1>1
    <3> QED BY <3>1, <2>2, <1>2
  <2>4. \A i \in 1..Len(new) : i + 1 <= Len(q) => new[i] = q[i + 1]
    BY <2>1, <2>2, <1>1, <1>2
  <2>5. Len(new) = Len(q) + 1 - 1 /\ 1 <= Len(q) /\ Dropped(s) = {q[1].id}
    BY <2>1, <2>2, <1>1, <1>4
  <2> QED BY <2>2, <2>3, <2>4, <2>5 DEF q, new
<1>6. CASE ~(Len(all) > RecentLimit)
  <2>1. new = all
    BY <1>6, <1>3 DEF Trim
  <2>2. /\ Len(new) = Len(q) + 1 - 0 /\ 0 <= Len(q)
        /\ new \in Seq(Record) /\ new[Len(new)] = [id |-> c, res |-> r]
    BY <2>1, <1>1, <1>2
  <2>3. \A i \in 1..Len(new) : i + 0 <= Len(q) => new[i] = q[i + 0]
    BY <2>1, <1>1, <1>2
  <2> QED BY <2>2, <2>3 DEF q, new
<1> QED BY <1>5, <1>6

\* Finish of an active command saves a valid snapshot, which holds the new result and
\* every older one that is not dropped.
LEMMA FinishValid ==
    ASSUME NEW s \in Snapshot, ValidSnapshot(s), NEW c \in Command, NEW r \in Terminal,
           IsActive(s, c)
    PROVE  /\ ValidSnapshot(FinishSnapshot(s, c, r))
           /\ Holds(FinishSnapshot(s, c, r), c, r)
           /\ \A d \in Command, x \in Terminal :
                 Holds(s, d, x) => Holds(FinishSnapshot(s, c, r), d, x) \/ d \in Dropped(s)
<1> DEFINE q   == s.recent
           fin == FinishSnapshot(s, c, r)
           new == fin.recent
<1>0. q \in Seq(Record) /\ Len(q) \in Nat /\ DOMAIN q = 1..Len(q)
  BY DEF Snapshot, History
<1>1. PICK k \in {0, 1} :
        /\ new \in Seq(Record)
        /\ Len(new) = Len(q) + 1 - k
        /\ k <= Len(q)
        /\ \A i \in 1..Len(new) : i + k <= Len(q) => new[i] = q[i + k]
        /\ new[Len(new)] = [id |-> c, res |-> r]
        /\ k = 1 => Dropped(s) = {q[1].id}
  BY FinishHistory
<1>2. /\ ~IsRecent(s, c)
      /\ \A i, j \in DOMAIN q : q[i].id = q[j].id => i = j
      /\ \A d \in Command : ~(IsActive(s, d) /\ IsRecent(s, d))
  BY DEF ValidSnapshot
<1>3. \A i \in 1..Len(q) : q[i].id # c
  BY <1>2, <1>0 DEF IsRecent, Ids
<1>4. fin.active = [s.active EXCEPT ![GroupOf[c]] = NoCommand]
  BY DEF FinishSnapshot
<1>5. s.active \in [Group -> Command \cup {NoCommand}]
  BY DEF Snapshot, Holders
<1>c. [id |-> c, res |-> r].id = c
  OBVIOUS
<1>d. DOMAIN new = 1..Len(new) /\ Len(new) \in Nat
  BY <1>1
<1> HIDE DEF q, fin, new
<1>6. \A i \in 1..Len(new) : i = Len(new) \/ (i + k \in 1..Len(q) /\ new[i] = q[i + k])
  BY <1>0, <1>1
<1>7. \A i, j \in DOMAIN new : new[i].id = new[j].id => i = j
  <2> SUFFICES ASSUME NEW i \in 1..Len(new), NEW j \in 1..Len(new), new[i].id = new[j].id
               PROVE  i = j
    BY <1>d
  <2>1. CASE i = Len(new) /\ j # Len(new)
    BY <2>1, <1>6, <1>1, <1>3, <1>c
  <2>2. CASE j = Len(new) /\ i # Len(new)
    BY <2>2, <1>6, <1>1, <1>3, <1>c
  <2>3. CASE i # Len(new) /\ j # Len(new)
    <3>1. i + k \in DOMAIN q /\ j + k \in DOMAIN q /\ q[i + k].id = q[j + k].id
      BY <2>3, <1>0, <1>6
    <3>2. i + k = j + k
      BY <3>1, <1>2
    <3> QED BY <3>2, <1>d, <1>1
  <2> QED BY <2>1, <2>2, <2>3
<1>8. \A g \in Group : fin.active[g] # NoCommand => GroupOf[fin.active[g]] = g
  BY <1>4, <1>5 DEF ValidSnapshot
<1>9. \A d \in Command : ~(IsActive(fin, d) /\ IsRecent(fin, d))
  <2> SUFFICES ASSUME NEW d \in Command, IsActive(fin, d), IsRecent(fin, d) PROVE FALSE
    OBVIOUS
  <2>1. IsActive(s, d) /\ d # c
    BY <1>4, <1>5, GroupOfType, NoCommandFresh DEF IsActive
  <2>2. PICK i \in DOMAIN new : new[i].id = d
    BY DEF IsRecent, Ids, new
  <2>3. i \in 1..Len(new) /\ i # Len(new)
    BY <2>1, <2>2, <1>1, <1>c, <1>d
  <2>4. i + k \in DOMAIN q /\ q[i + k].id = d
    BY <2>2, <2>3, <1>0, <1>6
  <2>5. IsRecent(s, d)
    BY <2>4 DEF IsRecent, Ids, q
  <2> QED BY <2>1, <2>5, <1>2
<1>10. ValidSnapshot(fin)
  BY <1>7, <1>8, <1>9 DEF ValidSnapshot, new
<1>11. Holds(fin, c, r)
  <2>1. Len(new) \in DOMAIN new
    BY <1>0, <1>1, <1>d
  <2> QED BY <2>1, <1>1 DEF Holds, new
<1>12. ASSUME NEW d \in Command, NEW x \in Terminal, Holds(s, d, x), d \notin Dropped(s)
       PROVE  Holds(fin, d, x)
  <2>1. PICK i \in DOMAIN q : q[i] = [id |-> d, res |-> x]
    BY <1>12 DEF Holds, q
  <2>2. q[i].id = d
    BY <2>1
  <2>3. ~(k = 1 /\ i = 1)
    BY <2>2, <1>12, <1>1
  <2>4. i - k \in 1..Len(new) /\ (i - k) + k = i /\ i <= Len(q)
    BY <2>3, <1>0, <1>1
  <2>5. new[i - k] = q[i]
    BY <2>4, <1>1
  <2> QED BY <2>1, <2>4, <2>5, <1>d DEF Holds, new
<1> QED BY <1>10, <1>11, <1>12 DEF fin

\* Whatever a step saves, both copies of the journal stay valid, no result that is not
\* dropped is lost from memory, and the file holds what memory holds.
JournalKept ==
    /\ ValidSnapshot(mem)' /\ ValidSnapshot(disk)'
    /\ \A d \in Command : d \notin evicted' =>
          /\ d \notin evicted
          /\ \A x \in Terminal : /\ Holds(mem, d, x) => Holds(mem, d, x)'
                                 /\ Holds(mem, d, x)' => Holds(disk, d, x)'

\* That is so of every save of a valid snapshot that loses only what it drops, however
\* the save ends.
LEMMA SaveKeeps ==
    ASSUME DurableInv, NEW next, NEW dropped, NEW outcome \in SaveOutcome,
           Save(next, dropped, outcome), ValidSnapshot(next),
           \A d \in Command, x \in Terminal :
              Holds(mem, d, x) => Holds(next, d, x) \/ d \in dropped
    PROVE  JournalKept
<1>1. /\ ValidSnapshot(mem) /\ ValidSnapshot(disk)
      /\ \A d \in Command, x \in Terminal :
            d \notin evicted => (Holds(mem, d, x) => Holds(disk, d, x))
  BY DEF DurableInv
<1>2. CASE outcome = "ok"
  <2>1. mem' = next /\ disk' = next /\ evicted' = evicted \cup dropped
    BY <1>2 DEF Save
  <2>2. ValidSnapshot(mem)' /\ ValidSnapshot(disk)'
    BY <2>1 DEF ValidSnapshot, IsActive, IsRecent
  <2>3. \A d, x : (Holds(mem, d, x)' <=> Holds(next, d, x)) /\ (Holds(disk, d, x)' <=> Holds(next, d, x))
    BY <2>1 DEF Holds
  <2> QED BY <2>1, <2>2, <2>3 DEF JournalKept
<1>3. CASE outcome = "failed"
  <2>1. mem' = mem /\ disk' = disk /\ evicted' = evicted
    BY <1>3 DEF Save
  <2>2. ValidSnapshot(mem)' /\ ValidSnapshot(disk)'
    BY <1>1, <2>1 DEF ValidSnapshot, IsActive, IsRecent
  <2>3. \A d, x : (Holds(mem, d, x)' <=> Holds(mem, d, x)) /\ (Holds(disk, d, x)' <=> Holds(disk, d, x))
    BY <2>1 DEF Holds
  <2> QED BY <1>1, <2>1, <2>2, <2>3 DEF JournalKept
<1>4. CASE outcome = "replaced"
  <2>1. mem' = mem /\ disk' = next /\ evicted' = evicted \cup dropped
    BY <1>4 DEF Save
  <2>2. ValidSnapshot(mem)' /\ ValidSnapshot(disk)'
    BY <1>1, <2>1 DEF ValidSnapshot, IsActive, IsRecent
  <2>3. \A d, x : (Holds(mem, d, x)' <=> Holds(mem, d, x)) /\ (Holds(disk, d, x)' <=> Holds(next, d, x))
    BY <2>1 DEF Holds
  <2> QED BY <2>1, <2>2, <2>3 DEF JournalKept
<1> QED BY <1>2, <1>3, <1>4 DEF SaveOutcome

\* The same of a step that leaves the journal alone.
LEMMA UnsavedKeeps ==
    ASSUME DurableInv, UNCHANGED journalVars
    PROVE  JournalKept
<1>1. mem' = mem /\ disk' = disk /\ evicted' = evicted
  BY DEF journalVars
<1>2. ValidSnapshot(mem)' /\ ValidSnapshot(disk)'
  BY <1>1 DEF DurableInv, ValidSnapshot, IsActive, IsRecent
<1>3. \A d, x : (Holds(mem, d, x)' <=> Holds(mem, d, x)) /\ (Holds(disk, d, x)' <=> Holds(disk, d, x))
  BY <1>1 DEF Holds
<1> QED BY <1>1, <1>2, <1>3 DEF DurableInv, JournalKept

\* Every step of a goroutine keeps the journal in that sense, and one that journals a
\* result leaves it in memory.
LEMMA GoroutineKeeps ==
    ASSUME TypeOK, DurableInv, NEW c \in Command, Goroutine(c)
    PROVE  /\ JournalKept
           /\ \A x : Finish(c) /\ exec'[c].res = x /\ x # Failed => Holds(mem, c, x)'
<1>0. /\ mem \in Snapshot /\ HasResult(exec[c]) /\ ValidSnapshot(mem)
      /\ exec \in [Command -> Exec]
  BY DEF TypeOK, JournalType, ExecutorType, DurableInv
<1>1. CASE UNCHANGED journalVars /\ ~Finish(c)
  BY <1>1, UnsavedKeeps
<1>2. CASE Begin(c) /\ ~UNCHANGED journalVars /\ ~Finish(c)
  <2>1. PICK outcome \in SaveOutcome : Save(BeginSnapshot(mem, c), {}, outcome)
    BY <1>2 DEF Begin, journalVars
  <2>2. ~Conflicts(mem, c) /\ ~IsRecent(mem, c)
    BY <1>2 DEF Begin
  <2>3. ValidSnapshot(BeginSnapshot(mem, c)) /\ BeginSnapshot(mem, c).recent = mem.recent
    BY <2>2, <1>0, BeginValid
  <2>4. \A d \in Command, x \in Terminal :
           Holds(mem, d, x) => Holds(BeginSnapshot(mem, c), d, x)
    BY <2>3 DEF Holds
  <2> QED BY <2>1, <2>3, <2>4, <1>2, SaveKeeps
<1>3. CASE FinishLeftover(c) /\ ~UNCHANGED journalVars /\ ~Finish(c)
  <2> DEFINE left == mem.active[GroupOf[c]]
  <2>1. PICK outcome \in SaveOutcome :
           Save(FinishSnapshot(mem, left, Recovered), Dropped(mem), outcome)
    BY <1>3 DEF FinishLeftover
  <2>2. left \in Command /\ IsActive(mem, left)
    BY <1>3, <1>0, ActiveType DEF FinishLeftover
  <2>3. Recovered \in Terminal
    BY DEF Terminal
  <2> HIDE DEF left
  <2>4. /\ ValidSnapshot(FinishSnapshot(mem, left, Recovered))
        /\ \A d \in Command, x \in Terminal :
              Holds(mem, d, x) =>
                 Holds(FinishSnapshot(mem, left, Recovered), d, x) \/ d \in Dropped(mem)
    BY <2>2, <2>3, <1>0, FinishValid
  <2> QED BY <2>1, <2>4, <1>3, SaveKeeps
<1>4. CASE Finish(c)
  <2>1. PICK r \in Terminal : r = exec[c].res
    BY <1>4, <1>0 DEF Finish, HasResult, At
  <2>2. CASE ~IsActive(mem, c)
    <3>1. UNCHANGED journalVars /\ exec'[c].res = Failed
      BY <1>4, <2>2, <1>0 DEF Finish, GotoWith
    <3> QED BY <3>1, UnsavedKeeps
  <2>3. CASE IsActive(mem, c)
    <3>1. PICK outcome \in SaveOutcome :
             /\ Save(FinishSnapshot(mem, c, r), Dropped(mem), outcome)
             /\ GotoWith(c, "deregister", IF outcome = "ok" THEN r ELSE Failed)
      BY <1>4, <2>1, <2>3 DEF Finish
    <3>2. exec'[c].res = IF outcome = "ok" THEN r ELSE Failed
      BY <3>1, <1>0 DEF GotoWith
    <3>3. /\ ValidSnapshot(FinishSnapshot(mem, c, r))
          /\ Holds(FinishSnapshot(mem, c, r), c, r)
          /\ \A d \in Command, x \in Terminal :
                Holds(mem, d, x) => Holds(FinishSnapshot(mem, c, r), d, x) \/ d \in Dropped(mem)
      BY <2>1, <2>3, <1>0, FinishValid
    <3>4. JournalKept
      BY <3>1, <3>3, SaveKeeps
    <3>5. outcome = "ok" => Holds(mem, c, r)'
      BY <3>1, <3>3 DEF Save, Holds
    <3> QED BY <3>2, <3>4, <3>5
  <2> QED BY <2>2, <2>3
<1> QED BY <1>1, <1>2, <1>3, <1>4, GoroutineMoves

\* A result comes into a goroutine's hand from the journal only.
LEMMA HandStep ==
    ASSUME TypeOK, DurableInv, NEW c \in Command, Goroutine(c), NEW d \in Command,
           NEW r \in InHand(d)' \ {Busy}
    PROVE  r \in InHand(d) \/ Holds(mem, d, r)'
<1>0. exec \in [Command -> Exec] /\ mem \in Snapshot
  BY DEF TypeOK, ExecutorType, JournalType
<1>1. CASE d # c
  BY <1>1, GoroutineMoves DEF InHand
<1>2. CASE d = c
  <2>0. exec'[c].phase \in {"deregister", "return"} /\ r = exec'[c].res /\ r # Failed /\ r # Busy
    BY <1>2 DEF InHand
  <2>1. CASE Register(c) \/ CheckRecent(c) \/ FinishLeftover(c) \/ Run(c)
    BY <2>0, <2>1, <1>0 DEF Register, CheckRecent, FinishLeftover, Run, Goto, Exec
  <2>2. CASE RunReturns(c)
    BY <2>0, <2>2, <1>0 DEF RunReturns, GotoWith, Exec
  <2>3. CASE ReturnResult(c) \/ ReturnError(c)
    BY <2>0, <2>3, <1>0 DEF ReturnResult, ReturnError, Idle
  <2>4. CASE Begin(c)
    BY <2>0, <2>4, <1>0 DEF Begin, Goto, GotoWith, Exec
  <2>5. CASE Resolve(c)
    BY <2>0, <2>5, <1>0 DEF Resolve, GotoWith, Exec
  <2>6. CASE Deregister(c)
    <3>1. exec'[c].res = exec[c].res /\ exec[c].phase = "deregister"
      BY <2>6, <1>0 DEF Deregister, Goto, At, Exec
    <3> QED BY <3>1, <2>0, <1>2 DEF InHand
  <2>7. CASE Finish(c)
    BY <2>0, <2>7, <1>2, GoroutineKeeps
  <2>8. CASE Replay(c)
    <3>1. r = (IF IsRecent(mem, c) THEN RecentResult(mem, c) ELSE Failed) /\ mem' = mem
      BY <2>0, <2>8, <1>0 DEF Replay, GotoWith, Exec, journalVars
    <3>2. IsRecent(mem, c)
      BY <3>1, <2>0
    <3>3. Holds(mem, c, r)
      BY <3>1, <3>2, <1>0, ReplayedIsHeld
    <3> QED BY <3>1, <3>3, <1>2 DEF Holds
  <2> QED BY <2>1, <2>2, <2>3, <2>4, <2>5, <2>6, <2>7, <2>8 DEF Goroutine
<1> QED BY <1>1, <1>2

\* What is read from a queue, or put at its end, is all that differs.
LEMMA QueueElements ==
    ASSUME NEW S, NEW q \in Seq(S)
    PROVE  /\ q # <<>> => /\ Head(q) = q[1] /\ 1 \in DOMAIN q
                          /\ \A i \in DOMAIN Tail(q) : \E j \in DOMAIN q : Tail(q)[i] = q[j]
           /\ \A e \in S : \A i \in DOMAIN Append(q, e) :
                 Append(q, e)[i] = e \/ \E j \in DOMAIN q : Append(q, e)[i] = q[j]
<1>1. q # <<>> => /\ Head(q) = q[1] /\ 1 \in DOMAIN q
                  /\ \A i \in DOMAIN Tail(q) : \E j \in DOMAIN q : Tail(q)[i] = q[j]
  <2> SUFFICES ASSUME q # <<>>
               PROVE  /\ Head(q) = q[1] /\ 1 \in DOMAIN q
                      /\ \A i \in DOMAIN Tail(q) : \E j \in DOMAIN q : Tail(q)[i] = q[j]
    OBVIOUS
  <2>1. /\ Head(q) = q[1] /\ Len(q) \in Nat /\ Len(q) >= 1 /\ DOMAIN q = 1..Len(q)
        /\ DOMAIN Tail(q) = 1..(Len(q) - 1)
        /\ \A i \in 1..(Len(q) - 1) : Tail(q)[i] = q[i + 1]
    OBVIOUS
  <2>2. \A i \in 1..(Len(q) - 1) : i + 1 \in DOMAIN q
    BY <2>1
  <2> QED BY <2>1, <2>2
<1>2. ASSUME NEW e \in S, NEW i \in DOMAIN Append(q, e)
      PROVE  Append(q, e)[i] = e \/ \E j \in DOMAIN q : Append(q, e)[i] = q[j]
  <2>1. i \in 1..(Len(q) + 1) /\ DOMAIN q = 1..Len(q) /\ Len(q) \in Nat
    OBVIOUS
  <2>2. i = Len(q) + 1 => Append(q, e)[i] = e
    BY <2>1
  <2>3. i # Len(q) + 1 => i \in DOMAIN q /\ Append(q, e)[i] = q[i]
    BY <2>1
  <2> QED BY <2>2, <2>3
<1> QED BY <1>1, <1>2

\* A result message on its way to Cloud.
Carries(m, c, r) == m.type = "result" /\ m.cmd = c /\ m.res = r

\* The three places in which a told result may be.
LEMMA ToldPlaces ==
    ASSUME NEW c, NEW r
    PROVE  /\ r \in Told(c) <=> \/ \E m \in outbox : m.cmd = c /\ m.res = r
                                \/ \E i \in DOMAIN up : Carries(up[i], c, r)
                                \/ answer[c] = r /\ r # NoResult
           /\ r \in Told(c)' <=> \/ \E m \in outbox' : m.cmd = c /\ m.res = r
                                 \/ \E i \in DOMAIN up' : Carries(up'[i], c, r)
                                 \/ answer'[c] = r /\ r # NoResult
BY DEF Told, Carries

\* A result is told from a goroutine's hand only; after that it moves or is lost.
LEMMA ToldStep ==
    ASSUME TypeOK, [Next]_vars, NEW d \in Command, NEW r \in Told(d)'
    PROVE  r \in Told(d) \/ r \in InHand(d)
<1>0. /\ up \in Seq(UpMsg) /\ outbox \subseteq ResultMsg
      /\ answer \in [Command -> Result \cup {NoResult}]
  BY DEF TypeOK, WireType, ClientType, CloudType
<1>1. CASE UNCHANGED <<outbox, answer>> /\ (up' = <<>> \/ up' = up)
  BY <1>1, ToldPlaces
<1>2. CASE outbox' = {} /\ UNCHANGED answer /\ (up' = <<>> \/ up' = up)
  BY <1>2, ToldPlaces
<1>3. ASSUME NEW c \in Command, AcceptOffer(c) PROVE r \in Told(d)
  <2>1. up' = Append(up, Accepted(c)) /\ UNCHANGED <<outbox, answer>>
    BY <1>3 DEF AcceptOffer, cloudVars
  <2>2. Accepted(c) \in UpMsg /\ ~Carries(Accepted(c), d, r)
    BY DEF Accepted, UpMsg, Carries
  <2>3. \A i \in DOMAIN up' : up'[i] = Accepted(c) \/ \E j \in DOMAIN up : up'[i] = up[j]
    BY <2>1, <2>2, <1>0, QueueElements
  <2> QED BY <2>1, <2>2, <2>3, ToldPlaces
<1>4. ASSUME NEW c \in Command, CloudAccepts(c) PROVE r \in Told(d)
  <2>1. up # <<>> /\ up' = Tail(up) /\ UNCHANGED <<outbox, answer>>
    BY <1>4 DEF CloudAccepts, cloudUnchanged, clientVars
  <2>2. \A i \in DOMAIN up' : \E j \in DOMAIN up : up'[i] = up[j]
    BY <2>1, <1>0, QueueElements
  <2> QED BY <2>1, <2>2, ToldPlaces
<1>5. ASSUME NEW c \in Command, CloudResult(c) PROVE r \in Told(d)
  <2>1. /\ up # <<>> /\ up' = Tail(up) /\ UNCHANGED outbox
        /\ Head(up).type = "result" /\ Head(up).cmd = c
        /\ answer' = answer \/ answer' = [answer EXCEPT ![c] = Head(up).res]
    BY <1>5 DEF CloudResult, cloudUnchanged, clientVars, cloudVars
  <2>2. /\ \A i \in DOMAIN up' : \E j \in DOMAIN up : up'[i] = up[j]
        /\ Head(up) = up[1] /\ 1 \in DOMAIN up
    BY <2>1, <1>0, QueueElements
  <2>3. answer'[d] = answer[d] \/ Carries(up[1], d, answer'[d])
    BY <2>1, <2>2, <1>0 DEF Carries
  <2> QED BY <2>1, <2>2, <2>3, ToldPlaces
<1>6. ASSUME NEW m \in outbox, WriteResult(m) PROVE r \in Told(d)
  <2>1. /\ outbox' \subseteq outbox /\ UNCHANGED answer
        /\ up' = up \/ up' = Append(up, m)
    BY <1>6 DEF WriteResult, cloudVars
  <2>2. m \in UpMsg
    BY <1>0 DEF UpMsg
  <2>3. \A i \in DOMAIN up' : up'[i] = m \/ \E j \in DOMAIN up : up'[i] = up[j]
    BY <2>1, <2>2, <1>0, QueueElements
  <2> QED BY <2>1, <2>3, ToldPlaces DEF Carries
<1>7. ASSUME NEW c \in Command, ReturnResult(c) PROVE r \in Told(d) \/ r \in InHand(d)
  <2> DEFINE m == [type |-> "result", cmd |-> c, res |-> exec[c].res]
  <2>1. /\ UNCHANGED <<up, answer>> /\ outbox' \subseteq outbox \cup {m}
        /\ exec[c].phase = "return" /\ exec[c].res # Failed
    BY <1>7 DEF ReturnResult, At, wireVars, cloudVars
  <2>2. CASE \E x \in outbox : x.cmd = d /\ x.res = r
    BY <2>2, ToldPlaces
  <2>3. CASE m.cmd = d /\ m.res = r
    BY <2>1, <2>3 DEF InHand
  <2>4. CASE (\E i \in DOMAIN up : Carries(up[i], d, r)) \/ (answer[d] = r /\ r # NoResult)
    BY <2>4, ToldPlaces
  <2> HIDE DEF m
  <2> QED BY <2>1, <2>2, <2>3, <2>4, ToldPlaces
<1>8. ASSUME NEW c \in Command, Goroutine(c), ~ReturnResult(c) PROVE r \in Told(d)
  <2>1. UNCHANGED <<outbox, answer>> /\ (up' = <<>> \/ up' = up)
    BY <1>8 DEF Goroutine, Register, CheckRecent, Replay, Begin, FinishLeftover, Resolve, Run,
                RunReturns, Finish, Deregister, ReturnError, CutSession, execUnchanged,
                clientVars, wireVars, cloudVars
  <2> QED BY <2>1, ToldPlaces
<1>9. ASSUME NEW c \in Command, \/ DeclineOffer(c) \/ \E ok \in BOOLEAN : HandleAcceptedAck(c, ok)
                                \/ CloudOffer(c) \/ CloudAbandon(c)
      PROVE  r \in Told(d)
  <2>1. UNCHANGED <<outbox, answer, up>>
    BY <1>9 DEF DeclineOffer, HandleAcceptedAck, CloudOffer, CloudAbandon, cloudUnchanged,
                clientVars, cloudVars, wireVars
  <2> QED BY <2>1, ToldPlaces
<1>10. CASE Crash \/ ExitFatal \/ ExecCandidate
  BY <1>10, <1>2, NewProcessSteps DEF NewProcess, cloudVars
<1>11. CASE Connect \/ Break \/ EndSession \/ TryUpdate \/ ReleaseUpdate \/ UNCHANGED vars
  BY <1>11, <1>1, <1>2 DEF Connect, Break, EndSession, TryUpdate, ReleaseUpdate, CutSession, vars,
                           clientVars, wireVars, cloudVars
<1> QED BY <1>3, <1>4, <1>5, <1>6, <1>7, <1>8, <1>9, <1>10, <1>11 DEF Next

\* DurableInv is inductive.
LEMMA DurableInductive == TypeOK /\ DurableInv /\ [Next]_vars => DurableInv'
<1> SUFFICES ASSUME TypeOK, DurableInv, [Next]_vars PROVE DurableInv'
  OBVIOUS
<1>0. mem \in Snapshot
  BY DEF TypeOK, JournalType
<1>t. \A d \in Command : \A x : Holds(mem, d, x) => x \in Terminal
  BY <1>0, HeldIsReplayed DEF DurableInv
<1>i. \A d \in Command : d \notin evicted =>
         \A x \in (Told(d) \cup InHand(d)) \ {Busy} : Holds(mem, d, x)
  BY DEF DurableInv
<1>1. ASSUME JournalKept,
             \A d \in Command : \A x \in InHand(d)' \ {Busy} : x \in InHand(d) \/ Holds(mem, d, x)'
      PROVE  DurableInv'
  <2>1. ASSUME NEW d \in Command, d \notin evicted', NEW x \in (Told(d)' \cup InHand(d)') \ {Busy}
        PROVE  Holds(mem, d, x)'
    <3>1. x \in Told(d) \/ x \in InHand(d) \/ Holds(mem, d, x)'
      BY <2>1, <1>1, ToldStep
    <3>2. d \notin evicted
      BY <2>1, <1>1 DEF JournalKept
    <3>3. Holds(mem, d, x) /\ x \in Terminal => Holds(mem, d, x)'
      BY <2>1, <1>1 DEF JournalKept
    <3> QED BY <3>1, <3>2, <3>3, <2>1, <1>i, <1>t
  <2> QED BY <2>1, <1>1 DEF DurableInv, JournalKept
<1>2. CASE Outside
  <2>1. UNCHANGED journalVars /\ exec' = exec
    BY <1>2, OutsideUnchanged DEF journalVars
  <2>2. \A d \in Command : InHand(d)' = InHand(d)
    BY <2>1 DEF InHand
  <2> QED BY <2>1, <2>2, <1>1, UnsavedKeeps
<1>3. CASE Crash \/ ExitFatal \/ ExecCandidate
  <2>1. mem' = disk /\ UNCHANGED <<disk, evicted>> /\ \A d \in Command : exec'[d] = Idle
    BY <1>3, NewProcessSteps DEF NewProcess
  <2>2. \A d \in Command : InHand(d)' = {}
    BY <2>1 DEF InHand, Idle
  <2>3. ValidSnapshot(mem)' /\ ValidSnapshot(disk)'
    BY <2>1 DEF DurableInv, ValidSnapshot, IsActive, IsRecent
  <2>4. \A d, x : (Holds(mem, d, x)' <=> Holds(disk, d, x)) /\ (Holds(disk, d, x)' <=> Holds(disk, d, x))
    BY <2>1 DEF Holds
  <2>5. JournalKept
    BY <2>1, <2>3, <2>4 DEF JournalKept, DurableInv
  <2> QED BY <2>2, <2>5, <1>1
<1>4. ASSUME NEW c \in Command, NEW ok \in BOOLEAN, HandleAcceptedAck(c, ok) PROVE DurableInv'
  <2>1. UNCHANGED journalVars
    BY <1>4 DEF HandleAcceptedAck
  <2>2. \A d \in Command : InHand(d)' \subseteq InHand(d)
    BY <1>4, AckMoves DEF InHand
  <2> QED BY <2>1, <2>2, <1>1, UnsavedKeeps
<1>5. ASSUME NEW c \in Command, Goroutine(c) PROVE DurableInv'
  BY <1>5, <1>1, GoroutineKeeps, HandStep
<1> QED BY <1>2, <1>3, <1>4, <1>5 DEF Next, Outside

\* The empty journal is valid, and nobody has been told anything.
LEMMA InitDurable == Init => DurableInv
<1> SUFFICES ASSUME Init PROVE DurableInv
  OBVIOUS
<1>1. mem = EmptySnapshot /\ disk = EmptySnapshot /\ EmptySnapshot.recent = <<>>
  BY DEF Init, EmptySnapshot
<1>2. DOMAIN EmptySnapshot.recent = {}
  BY <1>1
<1>3. ValidSnapshot(EmptySnapshot)
  BY <1>2 DEF ValidSnapshot, IsRecent, Ids, EmptySnapshot
<1>4. ASSUME NEW c \in Command PROVE Told(c) \cup InHand(c) = {}
  BY ToldPlaces DEF Init, InHand, Idle
<1> QED BY <1>1, <1>2, <1>3, <1>4 DEF DurableInv, Holds

\* Whatever Cloud is told of a command that began is in the journal file before it is
\* told, and a later replay never contradicts it.
THEOREM ToldResultsAreDurable == Spec => []ToldIsDurable
<1>1. Init => DurableInv
  BY InitDurable
<1>2. TypeOK /\ DurableInv => ToldIsDurable
  <2> SUFFICES ASSUME TypeOK, DurableInv, NEW c \in Command, NEW r \in Told(c) \ {Busy},
                      c \notin evicted
               PROVE  IsRecent(disk, c) /\ RecentResult(disk, c) = r
    BY DEF ToldIsDurable
  <2>1. mem \in Snapshot /\ disk \in Snapshot /\ ValidSnapshot(mem) /\ ValidSnapshot(disk)
    BY DEF TypeOK, JournalType, DurableInv
  <2>2. Holds(mem, c, r)
    BY DEF DurableInv
  <2>3. r \in Terminal
    BY <2>1, <2>2, HeldIsReplayed
  <2>4. Holds(disk, c, r)
    BY <2>2, <2>3 DEF DurableInv
  <2> QED BY <2>1, <2>4, HeldIsReplayed
<1> QED BY <1>1, <1>2, TypeCorrect, DurableInductive, PTL DEF Spec

\* However saves and crashes interleave, the journal file is one that Open accepts: no
\* crash leaves the node without a runtime.
THEOREM JournalStaysValid == Spec => []ValidSnapshot(disk)
<1>1. DurableInv => ValidSnapshot(disk)
  BY DEF DurableInv
<1> QED BY <1>1, InitDurable, TypeCorrect, DurableInductive, PTL DEF Spec

-----------------------------------------------------------------------------
(* Who authorises a run. *)

\* A positive ack for a command is on its way.
AckComing(c) == \E i \in DOMAIN down : down[i] = [type |-> "ack", cmd |-> c, ok |-> TRUE]

\* Whoever may still run a command, or has run it, does so with Cloud's consent.
Authorised(c) == cloud[c] \in {"accepted", "terminal", "abandoned"}
AuthInv == \A c \in Command : started[c] > 0 \/ ~At(c, "idle") \/ AckComing(c) => Authorised(c)

\* Cloud never takes its consent back: an accepted command ends or is given up.
LEMMA ConsentStays ==
    ASSUME TypeOK, [Next]_vars, NEW d \in Command, Authorised(d)
    PROVE  Authorised(d)'
<1>0. cloud \in [Command -> {"new", "offered", "accepted", "terminal", "expired", "abandoned"}]
  BY DEF TypeOK, CloudType
<1>1. CASE UNCHANGED cloud
  BY <1>1 DEF Authorised
<1>2. ASSUME NEW c \in Command, CloudOffer(c) \/ CloudAccepts(c) \/ CloudResult(c) \/ CloudAbandon(c)
      PROVE  Authorised(d)'
  BY <1>0, <1>2 DEF CloudOffer, CloudAccepts, CloudResult, CloudAbandon, cloudVars, Authorised
<1>3. CASE \/ Crash \/ Connect \/ Break \/ EndSession \/ ExitFatal
           \/ TryUpdate \/ ReleaseUpdate \/ ExecCandidate \/ UNCHANGED vars
  BY <1>1, <1>3 DEF Crash, Connect, Break, EndSession, ExitFatal, TryUpdate, ReleaseUpdate,
                    ExecCandidate, NewProcess, cloudVars, vars
<1>4. ASSUME NEW c \in Command, \/ AcceptOffer(c) \/ DeclineOffer(c)
                                \/ \E ok \in BOOLEAN : HandleAcceptedAck(c, ok)
      PROVE  Authorised(d)'
  BY <1>1, <1>4 DEF AcceptOffer, DeclineOffer, HandleAcceptedAck, cloudVars
<1>5. ASSUME NEW c \in Command, Goroutine(c) PROVE Authorised(d)'
  BY <1>1, <1>5 DEF Goroutine, Register, CheckRecent, Replay, Begin, FinishLeftover, Resolve, Run,
                    RunReturns, Finish, Deregister, ReturnResult, ReturnError, execUnchanged, cloudVars
<1>6. ASSUME NEW m \in outbox, WriteResult(m) PROVE Authorised(d)'
  BY <1>1, <1>6 DEF WriteResult, cloudVars
<1> QED BY <1>2, <1>3, <1>4, <1>5, <1>6 DEF Next

\* A positive ack is sent with Cloud's consent, and read or lost after that.
LEMMA AckStep ==
    ASSUME TypeOK, [Next]_vars, NEW d \in Command, AckComing(d)'
    PROVE  AckComing(d) \/ Authorised(d)'
<1>0. /\ down \in Seq(DownMsg)
      /\ cloud \in [Command -> {"new", "offered", "accepted", "terminal", "expired", "abandoned"}]
  BY DEF TypeOK, WireType, CloudType
<1>1. CASE down' = down \/ down' = <<>>
  BY <1>1 DEF AckComing
<1>2. CASE down # <<>> /\ down' = Tail(down)
  <2>1. \A i \in DOMAIN down' : \E j \in DOMAIN down : down'[i] = down[j]
    BY <1>0, <1>2, QueueElements
  <2> QED BY <2>1 DEF AckComing
<1>3. ASSUME NEW c \in Command, CloudOffer(c) PROVE AckComing(d)
  <2> DEFINE e == [type |-> "offer", cmd |-> c]
  <2>1. down' = Append(down, e)
    BY <1>3 DEF CloudOffer
  <2>2. e \in DownMsg /\ e # [type |-> "ack", cmd |-> d, ok |-> TRUE]
    <3>1. e.type = "offer" /\ [type |-> "ack", cmd |-> d, ok |-> TRUE].type = "ack"
      OBVIOUS
    <3> QED BY <3>1 DEF DownMsg
  <2> HIDE DEF e
  <2>3. \A i \in DOMAIN down' : down'[i] = e \/ \E j \in DOMAIN down : down'[i] = down[j]
    BY <2>1, <2>2, <1>0, QueueElements
  <2> QED BY <2>2, <2>3 DEF AckComing
<1>4. ASSUME NEW c \in Command, CloudAccepts(c) PROVE AckComing(d) \/ Authorised(d)'
  <2> DEFINE consent == cloud[c] \in {"offered", "accepted"}
             e == [type |-> "ack", cmd |-> c, ok |-> consent]
  <2>1. down' = Append(down, e) /\ cloud' = [cloud EXCEPT ![c] = IF @ = "offered" THEN "accepted" ELSE @]
    BY <1>4 DEF CloudAccepts
  <2>2. e \in DownMsg
    BY DEF DownMsg
  <2>3. e = [type |-> "ack", cmd |-> d, ok |-> TRUE] => c = d /\ consent
    <3> SUFFICES ASSUME e = [type |-> "ack", cmd |-> d, ok |-> TRUE] PROVE c = d /\ consent
      OBVIOUS
    <3>1. e.cmd = d /\ e.ok = TRUE
      OBVIOUS
    <3>2. e.cmd = c /\ e.ok = consent
      OBVIOUS
    <3> HIDE DEF e, consent
    <3> QED BY <3>1, <3>2
  <2>4. c = d /\ consent => Authorised(d)'
    BY <2>1, <1>0 DEF Authorised
  <2> HIDE DEF e
  <2>5. \A i \in DOMAIN down' : down'[i] = e \/ \E j \in DOMAIN down : down'[i] = down[j]
    BY <2>1, <2>2, <1>0, QueueElements
  <2> QED BY <2>3, <2>4, <2>5 DEF AckComing
<1>5. CASE \/ Crash \/ Connect \/ Break \/ EndSession \/ ExitFatal
           \/ TryUpdate \/ ReleaseUpdate \/ ExecCandidate \/ UNCHANGED vars
  BY <1>1, <1>5 DEF Crash, Connect, Break, EndSession, ExitFatal, TryUpdate, ReleaseUpdate,
                    ExecCandidate, NewProcess, CutSession, wireVars, vars
<1>6. ASSUME NEW c \in Command, \/ AcceptOffer(c) \/ DeclineOffer(c)
                                \/ \E ok \in BOOLEAN : HandleAcceptedAck(c, ok)
      PROVE  AckComing(d) \/ Authorised(d)'
  <2>1. down # <<>> /\ down' = Tail(down)
    BY <1>6 DEF AcceptOffer, DeclineOffer, HandleAcceptedAck, Receive
  <2> QED BY <2>1, <1>2
<1>7. ASSUME NEW c \in Command, Goroutine(c) PROVE AckComing(d)
  BY <1>1, <1>7 DEF Goroutine, Register, CheckRecent, Replay, Begin, FinishLeftover, Resolve, Run,
                    RunReturns, Finish, Deregister, ReturnResult, ReturnError, CutSession,
                    execUnchanged, wireVars, AckComing
<1>8. ASSUME NEW m \in outbox, WriteResult(m) PROVE AckComing(d)
  BY <1>1, <1>8 DEF WriteResult, AckComing
<1>9. ASSUME NEW c \in Command, CloudResult(c) \/ CloudAbandon(c) PROVE AckComing(d)
  BY <1>1, <1>9 DEF CloudResult, CloudAbandon, wireVars, AckComing
<1> QED BY <1>3, <1>4, <1>5, <1>6, <1>7, <1>8, <1>9 DEF Next

\* Only a positive ack starts a goroutine, and only a goroutine starts a run.
LEMMA WorkStep ==
    ASSUME TypeOK, [Next]_vars, NEW d \in Command, started'[d] > 0 \/ ~At(d, "idle")'
    PROVE  started[d] > 0 \/ ~At(d, "idle") \/ AckComing(d)
<1>0. exec \in [Command -> Exec] /\ started \in [Command -> Nat] /\ down \in Seq(DownMsg)
  BY DEF TypeOK, ExecutorType, CountType, WireType
<1>1. CASE UNCHANGED <<exec, started>>
  BY <1>1 DEF At
<1>2. CASE Outside
  BY <1>1, <1>2, OutsideUnchanged
<1>3. CASE Crash \/ ExitFatal \/ ExecCandidate
  <2>1. started' = started /\ exec'[d] = Idle
    BY <1>3, NewProcessSteps DEF NewProcess
  <2> QED BY <2>1 DEF At, Idle
<1>4. ASSUME NEW c \in Command, NEW ok \in BOOLEAN, HandleAcceptedAck(c, ok)
      PROVE  started[d] > 0 \/ ~At(d, "idle") \/ AckComing(d)
  <2>1. started' = started
    BY <1>4 DEF HandleAcceptedAck
  <2>2. CASE ok /\ c = d
    <3>1. down # <<>> /\ Head(down) = [type |-> "ack", cmd |-> d, ok |-> TRUE]
      BY <1>4, <2>2 DEF HandleAcceptedAck, Receive
    <3>2. Head(down) = down[1] /\ 1 \in DOMAIN down
      BY <3>1, <1>0, QueueElements
    <3> QED BY <3>1, <3>2 DEF AckComing
  <2>3. CASE ~(ok /\ c = d)
    <3>1. exec'[d] = exec[d]
      BY <1>4, <2>3, <1>0 DEF HandleAcceptedAck
    <3> QED BY <2>1, <3>1 DEF At
  <2> QED BY <2>2, <2>3
<1>5. ASSUME NEW c \in Command, Goroutine(c) PROVE started[d] > 0 \/ ~At(d, "idle")
  <2>1. ~At(c, "idle")
    BY <1>5 DEF Goroutine, Register, CheckRecent, Replay, Begin, FinishLeftover, Resolve, Run,
                RunReturns, Finish, Deregister, ReturnResult, ReturnError, At
  <2>2. CASE d = c
    BY <2>1, <2>2
  <2>3. CASE d # c
    <3>1. exec'[d] = exec[d]
      BY <1>5, <2>3, GoroutineMoves
    <3>2. started'[d] = started[d]
      BY <1>5, <2>3, <1>0, GoroutineMoves DEF Run
    <3> QED BY <3>1, <3>2 DEF At
  <2> QED BY <2>2, <2>3
<1> QED BY <1>2, <1>3, <1>4, <1>5 DEF Next, Outside

\* Nothing runs that Cloud has not accepted: its positive ack is what starts a command,
\* whatever expires or is given up while the handshake is on its way.
THEOREM RunsAreAuthorised == Spec => []OnlyAuthorisedRuns
<1>1. Init => AuthInv
  BY DEF Init, AuthInv, AckComing, At, Idle
<1>2. TypeOK /\ AuthInv /\ [Next]_vars => AuthInv'
  <2> SUFFICES ASSUME TypeOK, AuthInv, [Next]_vars, NEW c \in Command,
                      started'[c] > 0 \/ ~At(c, "idle")' \/ AckComing(c)'
               PROVE  Authorised(c)'
    BY DEF AuthInv
  <2>1. started[c] > 0 \/ ~At(c, "idle") \/ AckComing(c) \/ Authorised(c)'
    BY WorkStep, AckStep
  <2>2. started[c] > 0 \/ ~At(c, "idle") \/ AckComing(c) => Authorised(c)
    BY DEF AuthInv
  <2> QED BY <2>1, <2>2, ConsentStays
<1>3. AuthInv => OnlyAuthorisedRuns
  BY DEF AuthInv, OnlyAuthorisedRuns, Authorised
<1> QED BY <1>1, <1>2, <1>3, TypeCorrect, PTL DEF Spec
==============================================================================
