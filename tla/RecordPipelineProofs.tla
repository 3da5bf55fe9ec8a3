------------------------ MODULE RecordPipelineProofs ------------------------
(***************************************************************************)
(* Proofs about RecordPipeline: the follower passes no line on twice, for  *)
(* any texts of the lines, and the records implement AuditTrail.           *)
(***************************************************************************)
EXTENDS RecordPipeline, TLAPS, WellFoundedInduction

Increasing(s) == \A i, j \in DOMAIN s : i < j => s[i] < s[j]

\* The lines before the log's first.
Base == written - Len(log)
\* The lines of the log that the copy has already.
Copied == IF cleaner = F!Idle \/ ~hasCopy THEN 0 ELSE cleaner
Below(n) == \A i \in DOMAIN passed : passed[i] <= n

FileType == file \in [open : BOOLEAN, off : 0..MaxLine, tail : Nat, mark : 0..F!NoMark]

\* The log holds the lines written last, in order.
LogInv == Len(log) <= written /\ \A i \in DOMAIN log : log[i] = Base + i

\* The copy ends with what was copied of the log; the rest is older.
CopyInv ==
    /\ Increasing(copy) /\ (~hasCopy => copy = <<>>)
    /\ Copied <= Len(log) /\ Copied <= Len(copy) /\ Len(copy) - Copied <= Base
    /\ \A i \in 1..Copied : copy[Len(copy) - Copied + i] = log[i]
    /\ \A i \in 1..(Len(copy) - Copied) : copy[i] <= Base

FileInv ==
    /\ file.off = 0 <=> file.tail = F!NoText
    /\ ~file.open => file = F!Closed /\ poll = "idle"
    /\ poll \in {"idle", "compare", "recover"} => got = <<>>
    /\ got # <<>> => file.off = 0
    /\ poll = "read" => ~mixed

\* The offset and the tail fit the log.
InStep == /\ file.off <= Len(log)
          /\ file.off # 0 => file.tail = Text[log[file.off]]

\* The follower is in step with the log, or was truncated away from all it passed on;
\* a poll that starts again from the log's start has seen the latter.
PassedInv ==
    /\ Increasing(passed) /\ Below(written) /\ Below(Base + file.off)
    /\ InStep \/ Below(Base)
    /\ poll = "recover" \/ (poll = "compare" /\ size < file.off) => Below(Base)

\* What the poll has read so far comes after what was passed on and before the log.
GotInv ==
    /\ Increasing(got)
    /\ \A i \in DOMAIN got : got[i] <= Base /\ \A j \in DOMAIN passed : passed[j] < got[i]

\* The mark is where the copy of the log starts, will start, or ends.
MarkFits == file.mark \in {F!NoMark, Len(copy), Len(copy) - Copied}
\* What recover would read comes after s.
Ahead(s) == file.mark # F!NoMark =>
                \A i \in DOMAIN copy : i > file.mark + file.off => \A j \in DOMAIN s : s[j] < copy[i]
\* Unless the last read was mixed, recover would read nothing that was passed on.
MarkInv == poll # "mark" /\ ~mixed =>
    /\ Ahead(passed) /\ Ahead(got)
    /\ MarkFits \/ (Below(Base) /\ (poll = "read" => cut))

FollowInv == /\ F!TypeOK /\ FileType /\ LogInv /\ CopyInv /\ FileInv
             /\ ~raced => PassedInv /\ GotInv /\ MarkInv

-----------------------------------------------------------------------------
(* Xray and 3x-ui. *)

\* A sequence and one that lies above it make one that increases.
LEMMA Joined ==
    ASSUME NEW s \in Seq(Line), NEW t \in Seq(Line), Increasing(s), Increasing(t),
           \A i \in DOMAIN s, j \in DOMAIN t : s[i] < t[j]
    PROVE  Increasing(s \o t)
<1> DEFINE u == s \o t
<1>1. u \in Seq(Line) /\ Len(u) = Len(s) + Len(t)
  OBVIOUS
<1>2. \A i \in 1..Len(u) : u[i] = IF i <= Len(s) THEN s[i] ELSE t[i - Len(s)]
  OBVIOUS
<1>3. DOMAIN s = 1..Len(s) /\ DOMAIN t = 1..Len(t) /\ DOMAIN u = 1..Len(u)
  BY <1>1
<1>4. \A i \in 1..Len(u) : i > Len(s) => i - Len(s) \in 1..Len(t)
  BY <1>1
<1>5. \A l \in Line : l \in Nat
  BY FollowerAssumption DEF Line
<1> HIDE DEF u
<1>6. ASSUME NEW i \in DOMAIN u, NEW j \in DOMAIN u, i < j PROVE u[i] < u[j]
  <2>1. i \in Nat /\ j \in Nat /\ i \in 1..Len(u) /\ j \in 1..Len(u)
    BY <1>1, <1>3
  <2>2. CASE j <= Len(s)
    BY <1>2, <1>3, <1>6, <2>1, <2>2 DEF Increasing
  <2>3. CASE i > Len(s)
    <3>1. i - Len(s) \in DOMAIN t /\ j - Len(s) \in DOMAIN t /\ i - Len(s) < j - Len(s)
      BY <1>3, <1>4, <1>6, <2>1, <2>3
    <3> QED BY <1>2, <1>6, <2>1, <2>3, <3>1 DEF Increasing
  <2>4. CASE i <= Len(s) /\ j > Len(s)
    <3>1. i \in DOMAIN s /\ j - Len(s) \in DOMAIN t
      BY <1>3, <1>4, <2>1, <2>4
    <3> QED BY <1>2, <2>1, <2>4, <3>1
  <2> QED BY <2>1, <2>2, <2>3, <2>4
<1> QED BY <1>6 DEF Increasing, u

\* The types as the provers use them.
Facts ==
    /\ log \in Seq(Line) /\ copy \in Seq(Line) /\ got \in Seq(Line) /\ passed \in Seq(Line)
    /\ DOMAIN log = 1..Len(log) /\ DOMAIN copy = 1..Len(copy)
    /\ DOMAIN got = 1..Len(got) /\ DOMAIN passed = 1..Len(passed)
    /\ Len(log) \in Nat /\ Len(copy) \in Nat /\ written \in Nat /\ written <= MaxLine
    /\ file.off \in Nat /\ file.mark \in Nat /\ file.tail \in Nat /\ MaxLine \in Nat
    /\ Line \subseteq Nat /\ cleaner \in Nat /\ F!Idle = MaxLine + 1 /\ F!NoMark = MaxLine + 1
    /\ F!Line = Line
    /\ \A i \in DOMAIN log : log[i] \in Nat
    /\ \A i \in DOMAIN copy : copy[i] \in Nat
    /\ \A i \in DOMAIN got : got[i] \in Nat
    /\ \A i \in DOMAIN passed : passed[i] \in Nat

LEMMA Elements == ASSUME NEW s \in Seq(Line) PROVE \A i \in DOMAIN s : s[i] \in Nat
<1>1. \A l \in Line : l \in Nat
  BY FollowerAssumption DEF Line
<1> QED BY <1>1

LEMMA Typed == F!TypeOK /\ FileType => Facts
<1> SUFFICES ASSUME F!TypeOK, FileType PROVE Facts
  OBVIOUS
<1>1. log \in Seq(Line) /\ copy \in Seq(Line) /\ got \in Seq(Line) /\ passed \in Seq(Line)
  BY DEF F!TypeOK, Line, F!Line
<1>2. /\ \A i \in DOMAIN log : log[i] \in Nat
      /\ \A i \in DOMAIN copy : copy[i] \in Nat
      /\ \A i \in DOMAIN got : got[i] \in Nat
      /\ \A i \in DOMAIN passed : passed[i] \in Nat
  BY <1>1, Elements
<1>3. /\ written \in Nat /\ written <= MaxLine
      /\ file.off \in Nat /\ file.mark \in Nat /\ file.tail \in Nat /\ MaxLine \in Nat
      /\ Line \subseteq Nat /\ cleaner \in Nat /\ F!Idle = MaxLine + 1 /\ F!NoMark = MaxLine + 1
  BY FollowerAssumption DEF F!TypeOK, FileType, F!Idle, F!NoMark, Line
<1>4. F!Line = Line
  BY DEF F!Line, Line
<1> QED BY <1>1, <1>2, <1>3, <1>4 DEF Facts

\* The invariant of one state, as the steps below start from it.
LEMMA Unfolded ==
    ASSUME FollowInv
    PROVE  /\ F!TypeOK /\ FileType /\ LogInv /\ CopyInv /\ FileInv /\ Facts
           /\ ~raced => PassedInv /\ GotInv /\ MarkInv
           /\ Base \in Nat /\ Base + Len(log) = written
           /\ Copied \in Nat /\ Copied <= Len(log) /\ Copied <= Len(copy)
           /\ Len(log) <= MaxLine /\ Len(copy) <= written
<1>1. /\ F!TypeOK /\ FileType /\ LogInv /\ CopyInv /\ FileInv
      /\ ~raced => PassedInv /\ GotInv /\ MarkInv
  BY DEF FollowInv
<1>2. Facts
  BY <1>1, Typed
<1>3. Base \in Nat /\ Base + Len(log) = written /\ Len(log) <= MaxLine
  BY <1>1, <1>2 DEF LogInv, Base, Facts
<1>4. Copied \in Nat /\ Copied <= Len(log) /\ Copied <= Len(copy) /\ Len(copy) - Copied <= Base
  BY <1>1, <1>2 DEF CopyInv, Copied, Facts
<1>5. Len(copy) <= written
  BY <1>2, <1>3, <1>4 DEF Facts
<1> QED BY <1>1, <1>2, <1>3, <1>4, <1>5

\* No line of the copy is newer than the log.
LEMMA CopyIsOld ==
    ASSUME FollowInv, NEW i \in DOMAIN copy
    PROVE  copy[i] <= written
<1>0. /\ LogInv /\ CopyInv /\ Facts /\ Base \in Nat /\ Base + Len(log) = written
      /\ Copied \in Nat /\ Copied <= Len(log) /\ Copied <= Len(copy)
  BY Unfolded
<1> USE <1>0 DEF Facts
<1>1. i \in Nat /\ i >= 1 /\ i <= Len(copy) /\ copy[i] \in Nat
  BY SMTT(30)
<1>2. CASE i <= Len(copy) - Copied
  <2>1. i \in 1..(Len(copy) - Copied)
    BY <1>1, <1>2
  <2>2. copy[i] <= Base
    BY <2>1 DEF CopyInv
  <2> QED BY <1>1, <2>2
<1>3. CASE i > Len(copy) - Copied
  <2>1. PICK k \in 1..Copied : i = Len(copy) - Copied + k
    <3>1. i - (Len(copy) - Copied) \in 1..Copied
      BY <1>1, <1>3
    <3>2. i = Len(copy) - Copied + (i - (Len(copy) - Copied))
      BY <1>1
    <3> QED BY <3>1, <3>2
  <2>2. k \in DOMAIN log /\ k \in Nat /\ k <= Len(log)
    OBVIOUS
  <2>3. copy[i] = Base + k
    BY <2>1, <2>2 DEF CopyInv, LogInv
  <2> QED BY <2>2, <2>3
<1> QED BY <1>1, <1>2, <1>3

\* Xray's line goes to the end of the log.
LEMMA WriteKeeps == FollowInv /\ F!Write => FollowInv'
<1> SUFFICES ASSUME FollowInv, F!Write PROVE FollowInv'
  OBVIOUS
<1>1. /\ written' = written + 1 /\ log' = Append(log, written + 1) /\ written < MaxLine
      /\ UNCHANGED <<copy, hasCopy, cleaner, file, poll, got, size, opening, passed,
                     excused, cut, astray, mixed, raced>>
  BY DEF F!Write, F!readVars
<1>0. /\ F!TypeOK /\ FileType /\ LogInv /\ CopyInv /\ FileInv /\ Facts
      /\ ~raced => PassedInv /\ GotInv /\ MarkInv
      /\ Base \in Nat /\ Base + Len(log) = written /\ Copied \in Nat /\ Copied <= Len(log)
  BY Unfolded
<1> USE <1>0 DEF Facts
<1>2. written + 1 \in Line
  BY <1>1 DEF Line
<1>3. /\ log' \in Seq(Line) /\ Len(log') = Len(log) + 1 /\ DOMAIN log' = 1..(Len(log) + 1)
      /\ \A i \in 1..Len(log) : log'[i] = log[i]
      /\ log'[Len(log) + 1] = written + 1
  BY <1>1, <1>2
<1>4. Base' = Base /\ Copied' = Copied
  BY <1>1, <1>3 DEF Base, Copied
<1>5. F!TypeOK' /\ FileType'
  BY <1>1, <1>3 DEF F!TypeOK, FileType
<1>6. LogInv'
  BY <1>1, <1>3, <1>4, SMTT(30) DEF LogInv
<1>7. CopyInv'
  <2>1. \A i \in 1..Copied : i \in 1..Len(log)
    OBVIOUS
  <2>2. \A i \in 1..Copied : copy[Len(copy) - Copied + i] = log'[i]
    BY <1>3, <2>1 DEF CopyInv
  <2>3. Copied <= Len(log')
    BY <1>3
  <2> QED BY <1>1, <1>4, <2>2, <2>3 DEF CopyInv, Increasing
<1>8. FileInv'
  BY <1>1 DEF FileInv, F!Closed
<1>9. (InStep => InStep') /\ (Below(Base) => Below(Base)')
  BY <1>1, <1>3, <1>4 DEF InStep, Below
<1>10. ~raced' => PassedInv'
  BY <1>1, <1>4, <1>9, SMTT(30) DEF PassedInv, Below, Increasing
<1>11. ~raced' => GotInv'
  BY <1>1, <1>4 DEF GotInv, Increasing
<1>12. ~raced' => MarkInv'
  BY <1>1, <1>4, <1>9 DEF MarkInv, Ahead, MarkFits
<1> QED BY <1>5, <1>6, <1>7, <1>8, <1>10, <1>11, <1>12 DEF FollowInv

\* 3x-ui appends the log to its copy.
LEMMA CopyKeeps == FollowInv /\ F!CopyLog => FollowInv'
<1> SUFFICES ASSUME FollowInv, F!CopyLog PROVE FollowInv'
  OBVIOUS
<1>1. /\ cleaner = F!Idle
      /\ copy' = copy \o log /\ hasCopy' = TRUE /\ cleaner' = Len(log)
      /\ UNCHANGED <<log, written, file, poll, got, size, opening, passed, excused, cut, astray, mixed, raced>>
  BY DEF F!CopyLog, F!readVars
<1>0. /\ F!TypeOK /\ FileType /\ LogInv /\ CopyInv /\ FileInv /\ Facts
      /\ ~raced => PassedInv /\ GotInv /\ MarkInv
      /\ Base \in Nat /\ Base + Len(log) = written /\ Len(log) <= MaxLine
  BY Unfolded
<1> USE <1>0 DEF Facts
<1>2. Copied = 0 /\ Copied' = Len(log) /\ Base' = Base
  <2>1. Copied = 0
    BY <1>1 DEF Copied
  <2>2. Len(log) # MaxLine + 1
    <3>1. \A n, m \in Nat : n <= m => n # m + 1
      OBVIOUS
    <3>2. Len(log) \in Nat /\ MaxLine \in Nat /\ Len(log) <= MaxLine
      BY <1>0
    <3> HIDE <1>0
    <3> QED BY <3>1, <3>2
  <2> QED BY <1>1, <2>1, <2>2 DEF Copied, Base, F!Idle
<1>3. /\ copy' \in Seq(Line) /\ Len(copy') = Len(copy) + Len(log)
      /\ DOMAIN copy' = 1..(Len(copy) + Len(log))
      /\ \A i \in 1..Len(copy) : copy'[i] = copy[i]
      /\ \A i \in 1..Len(log) : copy'[Len(copy) + i] = log[i]
  BY <1>1
<1>4. F!TypeOK' /\ FileType'
  BY <1>1, <1>2, <1>3 DEF F!TypeOK, FileType
<1>5. LogInv'
  BY <1>1, <1>2 DEF LogInv
<1>6. \A i \in DOMAIN copy : copy[i] <= Base
  BY <1>2 DEF CopyInv
<1>7. CopyInv'
  <2>1. Increasing(copy) /\ Increasing(log)
    BY DEF CopyInv, LogInv, Increasing
  <2>2. \A i \in DOMAIN copy, j \in DOMAIN log : copy[i] < log[j]
    BY <1>6, SMTT(30) DEF LogInv
  <2>3. Increasing(copy')
    BY <1>1, <2>1, <2>2, Joined
  <2>4. \A i \in 1..Copied' : copy'[Len(copy') - Copied' + i] = log'[i]
    BY <1>1, <1>2, <1>3
  <2>5. \A i \in 1..(Len(copy') - Copied') : copy'[i] <= Base'
    <3>1. Len(copy') - Copied' = Len(copy)
      BY <1>2, <1>3
    <3> QED BY <1>2, <1>3, <1>6, <3>1
  <2>6. Copied' <= Len(log') /\ Copied' <= Len(copy') /\ Len(copy') - Copied' <= Base'
    BY <1>1, <1>2, <1>3 DEF CopyInv
  <2> QED BY <1>1, <2>3, <2>4, <2>5, <2>6 DEF CopyInv, Increasing
<1>8. FileInv'
  BY <1>1 DEF FileInv, F!Closed
<1>9. ~raced' => PassedInv' /\ GotInv'
  BY <1>1, <1>2 DEF PassedInv, GotInv, Below, InStep, Increasing
<1>10. ASSUME ~raced', poll' # "mark", ~mixed' PROVE Ahead(passed)' /\ Ahead(got)' /\ (MarkFits => MarkFits')
  <2>1. /\ Ahead(passed) /\ Ahead(got) /\ (MarkFits \/ Below(Base))
        /\ GotInv /\ Below(Base + file.off)
    BY <1>1, <1>10 DEF MarkInv, PassedInv
  <2>2. MarkFits => MarkFits'
    BY <1>1, <1>2, <1>3 DEF MarkFits, F!NoMark
  <2>3. ASSUME file.mark # F!NoMark, NEW i \in DOMAIN copy', i > file.mark + file.off
        PROVE  /\ \A j \in DOMAIN passed : passed[j] < copy'[i]
               /\ \A j \in DOMAIN got : got[j] < copy'[i]
    <3>1. CASE i \in DOMAIN copy
      <4>1. copy'[i] = copy[i]
        BY <1>3, <3>1
      <4>2. /\ \A j \in DOMAIN passed : passed[j] < copy[i]
            /\ \A j \in DOMAIN got : got[j] < copy[i]
        <5> HIDE <1>0 DEF Facts
        <5> QED BY <2>1, <2>3, <3>1 DEF Ahead
      <4> QED BY <4>1, <4>2
    <3>2. CASE i \notin DOMAIN copy
      <4>1. PICK k \in 1..Len(log) : i = Len(copy) + k
        <5>1. i - Len(copy) \in 1..Len(log) /\ i = Len(copy) + (i - Len(copy))
          BY <1>3, <3>2
        <5> QED BY <5>1
      <4>2. k \in Nat /\ k >= 1 /\ copy'[i] = Base + k
        <5>1. copy'[i] = log[k]
          BY <1>3, <4>1
        <5>2. log[k] = Base + k
          BY DEF LogInv
        <5> QED BY <5>1, <5>2
      <4>3. \A j \in DOMAIN got : got[j] < copy'[i]
        BY <2>1, <4>2, SMTT(30) DEF GotInv
      <4>4. CASE Below(Base)
        BY <4>2, <4>3, <4>4, SMTT(30) DEF Below
      <4>5. CASE MarkFits
        <5>1. k > file.off
          BY <1>2, <2>3, <4>1, <4>2, <4>5 DEF MarkFits
        <5>2. \A j \in DOMAIN passed : passed[j] <= Base + file.off
          BY <2>1 DEF Below
        <5> QED BY <4>2, <4>3, <5>1, <5>2, SMTT(30)
      <4> QED BY <2>1, <4>4, <4>5
    <3> QED BY <3>1, <3>2
  <2>4. Ahead(passed)' /\ Ahead(got)'
    BY <1>1, <2>3 DEF Ahead, F!NoMark
  <2> QED BY <2>2, <2>4
<1>11. ~raced' => MarkInv'
  <2>1. Below(Base) => Below(Base)'
    BY <1>1, <1>2 DEF Below
  <2> QED BY <1>1, <1>10, <2>1 DEF MarkInv
<1> QED BY <1>4, <1>5, <1>7, <1>8, <1>9, <1>11 DEF FollowInv

\* 3x-ui truncates the log it has copied: all that was passed on is before the log now.
LEMMA TruncateKeeps == FollowInv /\ F!TruncateLog => FollowInv'
<1> SUFFICES ASSUME FollowInv, F!TruncateLog PROVE FollowInv'
  OBVIOUS
<1>1. /\ cleaner # F!Idle /\ log' = <<>> /\ cleaner' = F!Idle
      /\ cut' = (poll \in {"mark", "read"})
      /\ UNCHANGED <<copy, hasCopy, written, file, poll, got, size, opening, passed, astray, mixed, raced>>
  BY DEF F!TruncateLog, F!readVars
<1>0. /\ F!TypeOK /\ FileType /\ LogInv /\ CopyInv /\ FileInv /\ Facts
      /\ ~raced => PassedInv /\ GotInv /\ MarkInv
      /\ Base \in Nat /\ Base + Len(log) = written /\ Len(copy) <= written
  BY Unfolded
<1> USE <1>0 DEF Facts
<1>2. Copied' = 0 /\ Len(log') = 0 /\ Base' = written /\ DOMAIN log' = {}
  BY <1>1 DEF Copied, Base
<1>3. F!TypeOK' /\ FileType'
  <2>1. excused' \subseteq Line
    <3>1. F!Unpassed \subseteq Line
      BY DEF F!Unpassed, Line
    <3>2. {log[i] : i \in (cleaner + 1)..Len(log)} \subseteq Line
      <4>1. \A i \in (cleaner + 1)..Len(log) : i \in 1..Len(log)
        OBVIOUS
      <4> QED BY <4>1
    <3>3. excused \subseteq Line
      BY DEF F!TypeOK
    <3> QED BY <3>1, <3>2, <3>3 DEF F!TruncateLog
  <2>2. cleaner' \in 0..F!Idle /\ log' \in Seq(Line) /\ cut' \in BOOLEAN
    BY <1>1
  <2> QED BY <1>1, <2>1, <2>2 DEF F!TypeOK, FileType
<1>4. LogInv' /\ FileInv'
  BY <1>1, <1>2 DEF LogInv, FileInv, F!Closed
<1>5. CopyInv'
  <2>1. \A i \in 1..Len(copy) : copy[i] <= written
    BY CopyIsOld
  <2> QED BY <1>1, <1>2, <2>1 DEF CopyInv, Increasing
<1>6. ~raced' => PassedInv' /\ Below(Base)'
  BY <1>1, <1>2, SMTT(30) DEF PassedInv, Below, Increasing
<1>7. ~raced' => GotInv'
  BY <1>1, <1>2, SMTT(30) DEF GotInv, Increasing
<1>8. ~raced' => MarkInv'
  <2>1. (Ahead(passed) => Ahead(passed)') /\ (Ahead(got) => Ahead(got)')
    BY <1>1 DEF Ahead
  <2> QED BY <1>1, <1>6, <2>1 DEF MarkInv
<1> QED BY <1>3, <1>4, <1>5, <1>6, <1>7, <1>8 DEF FollowInv

\* A closed file has no mark and no offset.
LEMMA ClosedFile ==
    /\ F!Closed.off = 0 /\ F!Closed.tail = F!NoText /\ F!Closed.mark = F!NoMark /\ ~F!Closed.open
    /\ F!Closed \in [open : BOOLEAN, off : 0..MaxLine, tail : Nat, mark : 0..F!NoMark]
BY FollowerAssumption DEF F!Closed, F!NoText, F!NoMark

\* Another file takes the log's place.
LEMMA ReplaceKeeps == FollowInv /\ F!ReplaceLog => FollowInv'
<1> SUFFICES ASSUME FollowInv, F!ReplaceLog PROVE FollowInv'
  OBVIOUS
<1>1. /\ poll = "idle" /\ cleaner = F!Idle /\ log' = <<>> /\ file' = F!Closed
      /\ excused' = excused \cup F!Unpassed
      /\ UNCHANGED <<copy, hasCopy, cleaner, written, poll, got, size, opening, passed, cut, astray, mixed, raced>>
  BY DEF F!ReplaceLog
<1>0. /\ F!TypeOK /\ FileType /\ LogInv /\ CopyInv /\ FileInv /\ Facts
      /\ ~raced => PassedInv /\ GotInv /\ MarkInv
      /\ Base \in Nat /\ Base + Len(log) = written /\ Len(copy) <= written
  BY Unfolded
<1> USE <1>0 DEF Facts
<1>2. Copied' = 0 /\ Len(log') = 0 /\ Base' = written /\ DOMAIN log' = {}
  BY <1>1 DEF Copied, Base
<1>3. /\ file'.off = 0 /\ file'.tail = F!NoText /\ file'.mark = F!NoMark /\ ~file'.open
      /\ file' = F!Closed'
  BY <1>1, ClosedFile DEF F!Closed
<1>4. F!TypeOK' /\ FileType'
  <2>1. excused' \subseteq Line
    <3>1. F!Unpassed \subseteq Line
      BY DEF F!Unpassed, Line
    <3> QED BY <1>1, <3>1 DEF F!TypeOK
  <2>2. FileType'
    BY <1>1, ClosedFile DEF FileType, F!NoMark
  <2>3. file'.open \in BOOLEAN /\ file'.off \in 0..MaxLine /\ file'.mark \in 0..F!NoMark
    BY <2>2 DEF FileType
  <2>4. log' \in Seq(Line)
    BY <1>1
  <2> QED BY <1>1, <2>1, <2>2, <2>3, <2>4 DEF F!TypeOK
<1>5. LogInv' /\ FileInv'
  BY <1>1, <1>2, <1>3 DEF LogInv, FileInv
<1>6. CopyInv'
  <2>1. \A i \in 1..Len(copy) : copy[i] <= written
    BY CopyIsOld
  <2> QED BY <1>1, <1>2, <2>1 DEF CopyInv, Increasing
<1>7. ~raced' => PassedInv' /\ Below(Base)'
  BY <1>1, <1>2, <1>3, SMTT(30) DEF PassedInv, Below, Increasing
<1>8. ~raced' => GotInv'
  BY <1>1, <1>2, SMTT(30) DEF GotInv, Increasing
<1>9. MarkInv'
  BY <1>3 DEF MarkInv, Ahead, MarkFits, F!NoMark
<1> QED BY <1>4, <1>5, <1>6, <1>7, <1>8, <1>9 DEF FollowInv

\* The copy is rotated away, and with it the mark.
LEMMA RotateKeeps == FollowInv /\ F!RotateCopy => FollowInv'
<1> SUFFICES ASSUME FollowInv, F!RotateCopy PROVE FollowInv'
  OBVIOUS
<1>1. /\ copy' = <<>> /\ hasCopy' = FALSE /\ file' = [file EXCEPT !.mark = F!NoMark]
      /\ excused' = excused \cup (F!Unpassed \ F!Range(log))
      /\ UNCHANGED <<log, cleaner, written, poll, got, size, opening, passed, cut, astray, mixed, raced>>
  BY DEF F!RotateCopy
<1>0. /\ F!TypeOK /\ FileType /\ LogInv /\ CopyInv /\ FileInv /\ Facts
      /\ ~raced => PassedInv /\ GotInv /\ MarkInv
      /\ Base \in Nat /\ Base + Len(log) = written
  BY Unfolded
<1> USE <1>0 DEF Facts
<1>2. Copied' = 0 /\ Len(copy') = 0 /\ Base' = Base /\ DOMAIN copy' = {}
  BY <1>1 DEF Copied, Base
<1>3. /\ file'.off = file.off /\ file'.tail = file.tail /\ file'.open = file.open
      /\ file'.mark = F!NoMark /\ FileType'
  <2>1. F!NoMark \in 0..F!NoMark
    OBVIOUS
  <2> QED BY <1>1, <2>1 DEF FileType, F!NoMark
<1>4. F!TypeOK'
  <2>1. excused' \subseteq Line
    <3>1. F!Unpassed \subseteq Line
      BY DEF F!Unpassed, Line
    <3> QED BY <1>1, <3>1 DEF F!TypeOK
  <2>2. file'.open \in BOOLEAN /\ file'.off \in 0..MaxLine /\ file'.mark \in 0..F!NoMark
    BY <1>3 DEF FileType
  <2>3. copy' \in Seq(Line)
    BY <1>1
  <2> QED BY <1>1, <2>1, <2>2, <2>3 DEF F!TypeOK
<1>5. LogInv'
  BY <1>1, <1>2 DEF LogInv
<1>6. CopyInv'
  BY <1>1, <1>2 DEF CopyInv, Increasing
<1>7. FileInv'
  <2>1. ~file'.open => file' = F!Closed' /\ poll' = "idle"
    <3> SUFFICES ASSUME ~file.open PROVE file' = F!Closed /\ poll = "idle"
      BY <1>1, <1>3 DEF F!Closed
    <3>1. file = F!Closed /\ poll = "idle"
      BY DEF FileInv
    <3>2. file' = file
      BY <1>1, <3>1, ClosedFile DEF FileType
    <3> QED BY <3>1, <3>2
  <2> QED BY <1>1, <1>3, <2>1 DEF FileInv
<1>8. ~raced' => PassedInv' /\ GotInv'
  BY <1>1, <1>2, <1>3 DEF PassedInv, GotInv, Below, InStep, Increasing
<1>9. MarkInv'
  BY <1>3 DEF MarkInv, Ahead, MarkFits, F!NoMark
<1> QED BY <1>3, <1>4, <1>5, <1>6, <1>7, <1>8, <1>9 DEF FollowInv

-----------------------------------------------------------------------------
(* The poll. *)

\* The poll only looks at the files.
LEMMA FilesStay ==
    ASSUME LogInv, CopyInv, UNCHANGED <<log, copy, hasCopy, cleaner, written>>
    PROVE  LogInv' /\ CopyInv' /\ Base' = Base /\ Copied' = Copied
<1>1. Base' = Base /\ Copied' = Copied
  BY DEF Base, Copied, F!Idle
<1> QED BY <1>1 DEF LogInv, CopyInv, Increasing

\* The log's Stat, or the log opened.
LEMMA StatsKeep == FollowInv /\ F!PollStats => FollowInv'
<1> SUFFICES ASSUME FollowInv, F!PollStats PROVE FollowInv'
  OBVIOUS
<1>1. /\ poll = "idle" /\ opening' = ~file.open
      /\ \/ file.open /\ poll' = "compare" /\ size' = Len(log) /\ file' = file
         \/ ~file.open /\ poll' = "mark" /\ file' = [F!Closed EXCEPT !.open = TRUE] /\ size' = size
      /\ UNCHANGED <<log, copy, hasCopy, cleaner, written, got, passed, excused, cut, astray, mixed, raced>>
  BY DEF F!PollStats, F!logVars
<1>0. /\ F!TypeOK /\ FileType /\ LogInv /\ CopyInv /\ FileInv /\ Facts
      /\ ~raced => PassedInv /\ GotInv /\ MarkInv
      /\ Len(log) <= MaxLine
  BY Unfolded
<1> USE <1>0 DEF Facts
<1>2. LogInv' /\ CopyInv' /\ Base' = Base /\ Copied' = Copied
  BY <1>1, FilesStay
<1>3. ~raced' => GotInv'
  BY <1>1, <1>2 DEF GotInv, Increasing
<1>4. CASE file.open
  <2>1. poll' = "compare" /\ size' = Len(log) /\ file' = file
    BY <1>1, <1>4
  <2>2. F!TypeOK' /\ FileType' /\ FileInv'
    <3>1. size' \in 0..MaxLine
      BY <2>1
    <3>2. F!TypeOK' /\ FileType'
      BY <1>1, <2>1, <3>1 DEF F!TypeOK, FileType, F!NoMark
    <3>3. FileInv'
      BY <1>1, <1>4, <2>1 DEF FileInv
    <3> QED BY <3>2, <3>3
  <2>3. ~raced' => PassedInv'
    <3>1. ~raced /\ Len(log) < file.off => Below(Base)
      BY DEF PassedInv, InStep
    <3> QED BY <1>1, <1>2, <2>1, <3>1 DEF PassedInv, Below, InStep, Increasing
  <2>4. ~raced' => MarkInv'
    BY <1>1, <1>2, <2>1 DEF MarkInv, Ahead, MarkFits, Below, F!NoMark
  <2> QED BY <1>2, <1>3, <2>2, <2>3, <2>4 DEF FollowInv
<1>5. CASE ~file.open
  <2>1. /\ poll' = "mark" /\ file' = [F!Closed EXCEPT !.open = TRUE] /\ size' = size
        /\ file = F!Closed /\ got = <<>>
    BY <1>1, <1>5 DEF FileInv
  <2>2. /\ file'.off = 0 /\ file'.tail = F!NoText /\ file'.open /\ file'.mark = F!NoMark
        /\ file.off = 0 /\ FileType'
    BY <2>1, ClosedFile DEF FileType, F!NoMark
  <2>3. F!TypeOK'
    BY <1>1, <2>1, <2>2 DEF F!TypeOK, FileType
  <2>4. FileInv'
    BY <2>1, <2>2 DEF FileInv, F!NoText
  <2>5. ~raced' => PassedInv'
    BY <1>1, <1>2, <2>1, <2>2 DEF PassedInv, Below, InStep, Increasing
  <2>6. MarkInv'
    BY <2>1 DEF MarkInv
  <2> QED BY <1>2, <1>3, <2>2, <2>3, <2>4, <2>5, <2>6 DEF FollowInv
<1> QED BY <1>4, <1>5

\* A poll that starts again from the log's start does so because the log was truncated.
LEMMA ComparesKeep == FollowInv /\ F!PollCompares => FollowInv'
<1> SUFFICES ASSUME FollowInv, F!PollCompares PROVE FollowInv'
  OBVIOUS
<1>1. /\ poll = "compare" /\ size' = 0 /\ poll' \in {"recover", "mark"}
      /\ poll' = "recover" => size < file.off \/ ~F!Unchanged \/ F!Cleared
      /\ UNCHANGED <<log, copy, hasCopy, cleaner, written, file, got, opening, passed,
                     excused, cut, astray, mixed, raced>>
  BY DEF F!PollCompares, F!logVars
<1>0. /\ F!TypeOK /\ FileType /\ LogInv /\ CopyInv /\ FileInv /\ Facts
      /\ ~raced => PassedInv /\ GotInv /\ MarkInv
      /\ Base \in Nat
  BY Unfolded
<1>2. LogInv' /\ CopyInv' /\ Base' = Base /\ Copied' = Copied
  BY <1>0, <1>1, FilesStay
<1>3. F!TypeOK' /\ FileType'
  <2>1. size' \in 0..MaxLine
    BY <1>0, <1>1 DEF Facts
  <2> QED BY <1>0, <1>1, <2>1 DEF F!TypeOK, FileType, F!NoMark
<1>4. FileInv'
  BY <1>0, <1>1 DEF FileInv, F!Closed
<1>5. ASSUME ~raced, poll' = "recover" PROVE Below(Base)
  <2>1. PassedInv
    BY <1>0, <1>5
  <2>2. CASE size < file.off
    BY <1>1, <2>1, <2>2 DEF PassedInv
  <2>3. CASE ~F!Unchanged
    <3>1. ~InStep
      BY <1>0, <2>3 DEF F!Unchanged, InStep, FileInv, Facts
    <3> QED BY <2>1, <3>1 DEF PassedInv
  <2>4. CASE F!Cleared
    <3>1. file.off = 0 /\ Base + 0 = Base
      BY <1>0, <2>4 DEF F!Cleared
    <3> QED BY <2>1, <3>1 DEF PassedInv
  <2> QED BY <1>1, <1>5, <2>2, <2>3, <2>4
<1>6. ~raced' => PassedInv'
  <2>1. (InStep => InStep') /\ (Below(Base) => Below(Base)')
    BY <1>1, <1>2 DEF InStep, Below
  <2>2. /\ Increasing(passed) => Increasing(passed)'
        /\ Below(written) => Below(written)'
        /\ Below(Base + file.off) => Below(Base + file.off)'
    BY <1>1, <1>2 DEF Below, Increasing
  <2>3. poll' # "compare"
    BY <1>1
  <2> QED BY <1>0, <1>1, <1>5, <2>1, <2>2, <2>3 DEF PassedInv
<1>7. ~raced' => GotInv'
  BY <1>0, <1>1, <1>2 DEF GotInv, Increasing
<1>8. ~raced' => MarkInv'
  BY <1>0, <1>1, <1>2 DEF MarkInv, Ahead, MarkFits, Below, F!NoMark
<1> QED BY <1>2, <1>3, <1>4, <1>6, <1>7, <1>8 DEF FollowInv

\* What recover reads is of the copy, in its order.
LEMMA RecoveredIsCopied ==
    ASSUME FollowInv
    PROVE  /\ F!Recovered \in Seq(Line) /\ Increasing(F!Recovered)
           /\ F!Recovered # <<>> => file.mark # F!NoMark
           /\ \A i \in DOMAIN F!Recovered : \E k \in DOMAIN copy :
                 k > file.mark + file.off /\ F!Recovered[i] = copy[k]
<1>0. Facts /\ CopyInv
  BY Unfolded
<1> DEFINE from == file.mark + file.off
<1>1. CASE F!Recovered = <<>>
  BY <1>1 DEF Increasing
<1>2. CASE F!Recovered # <<>>
  <2>1. /\ file.mark # F!NoMark /\ Len(copy) >= from
        /\ F!Recovered = SubSeq(copy, from + 1, Len(copy))
    BY <1>2 DEF F!Recovered
  <2> DEFINE g == SubSeq(copy, from + 1, Len(copy))
  <2>2. from \in Nat /\ copy \in Seq(Line) /\ Len(copy) \in Nat /\ DOMAIN copy = 1..Len(copy)
    BY <1>0 DEF Facts
  <2>3. /\ g \in Seq(Line) /\ Len(g) = Len(copy) - from /\ DOMAIN g = 1..(Len(copy) - from)
        /\ \A i \in 1..(Len(copy) - from) : g[i] = copy[from + i]
    BY <2>1, <2>2
  <2> HIDE DEF from, g
  <2>4. \A i \in 1..(Len(copy) - from) : from + i \in DOMAIN copy /\ from + i > from
    BY <2>2
  <2>5. Increasing(g)
    <3> SUFFICES ASSUME NEW i \in DOMAIN g, NEW j \in DOMAIN g, i < j PROVE g[i] < g[j]
      BY DEF Increasing
    <3>1. from + i < from + j
      BY <2>2, <2>3
    <3> QED BY <1>0, <2>3, <2>4, <3>1 DEF CopyInv, Increasing
  <2>6. \A i \in DOMAIN g : \E k \in DOMAIN copy : k > from /\ g[i] = copy[k]
    BY <2>3, <2>4
  <2> QED BY <2>1, <2>3, <2>5, <2>6 DEF g, from
<1> QED BY <1>1, <1>2

\* What is read back from the copy of a truncated log was not passed on, and is older
\* than the log.
LEMMA RecoversKeep == FollowInv /\ F!PollRecovers => FollowInv'
<1> SUFFICES ASSUME FollowInv, F!PollRecovers PROVE FollowInv'
  OBVIOUS
<1>1. /\ poll = "recover" /\ poll' = "mark" /\ got' = F!Recovered
      /\ raced' = (raced \/ (got' # <<>> /\ (cleaner # F!Idle \/ mixed)))
      /\ file' = [file EXCEPT !.off = 0, !.tail = F!NoText]
      /\ UNCHANGED <<log, copy, hasCopy, cleaner, written, size, opening, passed, excused, cut, astray, mixed>>
  BY DEF F!PollRecovers, F!logVars
<1>0. /\ F!TypeOK /\ FileType /\ LogInv /\ CopyInv /\ FileInv /\ Facts
      /\ ~raced => PassedInv /\ GotInv /\ MarkInv
      /\ Base \in Nat
  BY Unfolded
<1>2. LogInv' /\ CopyInv' /\ Base' = Base /\ Copied' = Copied
  BY <1>0, <1>1, FilesStay
<1>3. /\ file'.off = 0 /\ file'.tail = F!NoText /\ file'.mark = file.mark /\ file'.open = file.open
      /\ FileType'
  <2>1. file \in [open : BOOLEAN, off : 0..MaxLine, tail : Nat, mark : 0..F!NoMark]
    BY <1>0 DEF FileType
  <2>2. file' = [open |-> file.open, off |-> 0, tail |-> 0, mark |-> file.mark]
    BY <1>1, <2>1 DEF F!NoText
  <2>3. file.open \in BOOLEAN /\ file.mark \in 0..F!NoMark /\ 0 \in 0..MaxLine
    BY <1>0, <2>1 DEF Facts
  <2> QED BY <2>2, <2>3 DEF FileType, F!NoMark, F!NoText
<1>4. /\ got' \in Seq(Line) /\ Increasing(got')
      /\ got' # <<>> => file.mark # F!NoMark
      /\ \A i \in DOMAIN got' : \E k \in DOMAIN copy : k > file.mark + file.off /\ got'[i] = copy[k]
  BY <1>1, RecoveredIsCopied
<1>5. F!TypeOK'
  <2>1. file'.open \in BOOLEAN /\ file'.off \in 0..MaxLine /\ file'.mark \in 0..F!NoMark
    BY <1>3 DEF FileType
  <2>2. raced' \in BOOLEAN
    BY <1>0, <1>1 DEF F!TypeOK
  <2>3. got' \in Seq(F!Line)
    BY <1>0, <1>4 DEF Facts
  <2> QED BY <1>0, <1>1, <2>1, <2>2, <2>3 DEF F!TypeOK, F!NoMark
<1>6. FileInv'
  <2>1. file.open
    BY <1>0, <1>1 DEF FileInv
  <2> QED BY <1>1, <1>3, <2>1 DEF FileInv, F!NoText
<1>7. ~raced' => PassedInv'
  <2> SUFFICES ASSUME ~raced' PROVE PassedInv'
    OBVIOUS
  <2>1. PassedInv /\ Below(Base)
    BY <1>0, <1>1 DEF PassedInv
  <2>2. Below(Base)' /\ Base' + 0 = Base'
    BY <1>0, <1>1, <1>2, <2>1 DEF Below
  <2>3. Increasing(passed)' /\ Below(written)' /\ Below(Base + file.off)'
    BY <1>1, <1>3, <2>1, <2>2 DEF PassedInv, Below, Increasing
  <2> QED BY <1>1, <2>2, <2>3 DEF PassedInv
<1>8. ~raced' => GotInv'
  <2> SUFFICES ASSUME ~raced', NEW i \in DOMAIN got'
               PROVE  got'[i] <= Base /\ \A j \in DOMAIN passed : passed[j] < got'[i]
    BY <1>1, <1>2, <1>4 DEF GotInv, Increasing
  <2>1. got' # <<>> /\ cleaner = F!Idle /\ ~mixed /\ ~raced
    <3>1. got' # <<>>
      BY <1>4
    <3> QED BY <1>1, <3>1
  <2>2. PICK k \in DOMAIN copy : k > file.mark + file.off /\ got'[i] = copy[k]
    BY <1>4
  <2>3. Ahead(passed) /\ file.mark # F!NoMark
    BY <1>0, <1>1, <1>4, <2>1 DEF MarkInv
  <2>4. \A j \in DOMAIN passed : passed[j] < got'[i]
    BY <2>2, <2>3 DEF Ahead
  <2>5. got'[i] <= Base
    <3>1. Len(copy) - Copied = Len(copy)
      BY <1>0, <2>1 DEF Copied, Facts
    <3> QED BY <1>0, <2>2, <3>1 DEF CopyInv, Facts
  <2> QED BY <2>4, <2>5
<1>9. MarkInv'
  BY <1>1 DEF MarkInv
<1> QED BY <1>2, <1>3, <1>5, <1>6, <1>7, <1>8, <1>9 DEF FollowInv

\* The stat of the copy: nothing past it was read yet.
LEMMA MarksKeep == FollowInv /\ F!PollMarks => FollowInv'
<1> SUFFICES ASSUME FollowInv, F!PollMarks PROVE FollowInv'
  OBVIOUS
<1>1. /\ poll = "mark" /\ poll' = "read"
      /\ file' = [file EXCEPT !.mark = IF hasCopy THEN Len(copy) ELSE F!NoMark]
      /\ astray' \in BOOLEAN /\ mixed' = FALSE
      /\ UNCHANGED <<log, copy, hasCopy, cleaner, written, got, size, opening, passed, excused, cut, raced>>
  BY DEF F!PollMarks, F!logVars
<1>0. /\ F!TypeOK /\ FileType /\ LogInv /\ CopyInv /\ FileInv /\ Facts
      /\ ~raced => PassedInv /\ GotInv /\ MarkInv
      /\ Len(copy) <= written
  BY Unfolded
<1>2. LogInv' /\ CopyInv' /\ Base' = Base /\ Copied' = Copied
  BY <1>0, <1>1, FilesStay
<1>3. /\ file'.off = file.off /\ file'.tail = file.tail /\ file'.open = file.open
      /\ file'.mark = (IF hasCopy THEN Len(copy) ELSE F!NoMark)
  BY <1>0, <1>1 DEF FileType
<1>4. file'.mark \in 0..F!NoMark /\ file'.mark \in {F!NoMark, Len(copy)}
  BY <1>0, <1>3 DEF Facts
<1>5. FileType' /\ F!TypeOK'
  <2>1. FileType'
    BY <1>0, <1>1, <1>4 DEF FileType, F!NoMark
  <2> QED BY <1>0, <1>1, <1>3, <1>4, <2>1 DEF F!TypeOK, F!NoMark
<1>6. FileInv'
  <2>1. file.open
    BY <1>0, <1>1 DEF FileInv
  <2> QED BY <1>0, <1>1, <1>3, <2>1 DEF FileInv, F!NoText
<1>7. ~raced' => PassedInv' /\ GotInv'
  <2>1. (InStep => InStep') /\ (Below(Base) => Below(Base)')
    BY <1>1, <1>2, <1>3 DEF InStep, Below
  <2>2. /\ Increasing(passed) => Increasing(passed)'
        /\ Below(written) => Below(written)'
        /\ Below(Base + file.off) => Below(Base + file.off)'
        /\ GotInv => GotInv'
    BY <1>1, <1>2, <1>3 DEF Below, Increasing, GotInv
  <2>3. poll' # "compare" /\ poll' # "recover"
    BY <1>1
  <2> QED BY <1>0, <1>1, <2>1, <2>2, <2>3 DEF PassedInv
<1>8. MarkInv'
  <2>3. MarkFits'
    BY <1>1, <1>4 DEF MarkFits, F!NoMark
  <2>4. \A i \in DOMAIN copy : ~(i > Len(copy) + file.off)
    BY <1>0 DEF Facts
  <2>5. Ahead(passed)' /\ Ahead(got)'
    BY <1>1, <1>3, <1>4, <2>4 DEF Ahead, F!NoMark
  <2> QED BY <2>3, <2>5 DEF MarkInv
<1> QED BY <1>2, <1>5, <1>6, <1>7, <1>8 DEF FollowInv

\* What a poll passes on is lines.
LEMMA NewLinesType == FollowInv => F!NewLines \in Seq(Line)
<1> SUFFICES ASSUME FollowInv PROVE F!NewLines \in Seq(Line)
  OBVIOUS
<1>1. log \in Seq(Line) /\ got \in Seq(Line) /\ file.off \in Nat
  BY Unfolded DEF Facts
<1>2. SubSeq(log, file.off + 1, Len(log)) \in Seq(Line)
  BY <1>1
<1>3. \A s, t \in Seq(Line) : s \o t \in Seq(Line)
  OBVIOUS
<1>4. <<>> \in Seq(Line)
  OBVIOUS
<1> QED BY <1>1, <1>2, <1>3, <1>4 DEF F!NewLines, F!Fresh

\* What a poll passes on comes after all it passed on before.
LEMMA NewLinesAreNew ==
    ASSUME FollowInv, ~raced
    PROVE  /\ F!NewLines \in Seq(Line) /\ Increasing(F!NewLines)
           /\ \A i \in DOMAIN F!NewLines :
                 F!NewLines[i] <= written /\ \A j \in DOMAIN passed : passed[j] < F!NewLines[i]
           /\ Len(log) <= file.off => \A i \in DOMAIN F!NewLines : F!NewLines[i] <= Base
<1>0. Facts /\ LogInv /\ PassedInv /\ GotInv /\ Base \in Nat /\ Base + Len(log) = written
  BY Unfolded
<1> DEFINE f == SubSeq(log, file.off + 1, Len(log))
<1>1. CASE opening
  BY <1>1 DEF F!NewLines, Increasing
<1>2. CASE ~opening
  <2>1. F!NewLines = got \o f
    BY <1>2 DEF F!NewLines, F!Fresh
  <2>2. file.off \in Nat /\ Len(log) \in Nat /\ log \in Seq(Line) /\ got \in Seq(Line)
    BY <1>0 DEF Facts
  <2>3. CASE Len(log) <= file.off
    <3>1. f = <<>>
      BY <2>2, <2>3
    <3>2. got \o f = got
      <4>1. \A s \in Seq(Line) : s \o <<>> = s
        OBVIOUS
      <4> QED BY <2>2, <3>1, <4>1
    <3>3. \A i \in DOMAIN got : got[i] <= written
      BY <1>0 DEF GotInv, Facts
    <3> QED BY <1>0, <2>1, <2>2, <3>2, <3>3 DEF GotInv
  <2>4. CASE Len(log) > file.off
    <3>1. /\ f \in Seq(Line) /\ Len(f) = Len(log) - file.off /\ DOMAIN f = 1..(Len(log) - file.off)
          /\ \A i \in 1..(Len(log) - file.off) : f[i] = log[file.off + i]
      BY <2>2, <2>4, SMTT(30)
    <3>2. \A i \in 1..(Len(log) - file.off) : file.off + i \in DOMAIN log
      BY <1>0, <2>2, <2>4, SMTT(30) DEF Facts
    <3> HIDE DEF f
    <3>3. \A i \in DOMAIN f : f[i] = Base + file.off + i /\ f[i] <= written
      <4> SUFFICES ASSUME NEW i \in DOMAIN f PROVE f[i] = Base + file.off + i /\ f[i] <= written
        OBVIOUS
      <4>1. f[i] = Base + (file.off + i)
        BY <1>0, <3>1, <3>2 DEF LogInv
      <4>2. i \in Nat /\ file.off + i <= Len(log)
        BY <2>2, <3>1
      <4> QED BY <1>0, <2>2, <4>1, <4>2
    <3>4. Increasing(f)
      BY <1>0, <2>2, <3>1, <3>3 DEF Increasing
    <3>5. \A i \in DOMAIN f, j \in DOMAIN passed : passed[j] < f[i]
      <4> SUFFICES ASSUME NEW i \in DOMAIN f, NEW j \in DOMAIN passed PROVE passed[j] < f[i]
        OBVIOUS
      <4>1. passed[j] <= Base + file.off /\ passed[j] \in Nat
        BY <1>0 DEF PassedInv, Below, Facts
      <4>2. i \in Nat /\ i >= 1 /\ f[i] = Base + file.off + i
        BY <2>2, <3>1, <3>3
      <4> QED BY <1>0, <2>2, <4>1, <4>2
    <3>6. Increasing(got) /\ \A i \in DOMAIN got : /\ got[i] <= Base /\ got[i] \in Nat
                                                   /\ \A j \in DOMAIN passed : passed[j] < got[i]
      BY <1>0 DEF GotInv, Facts
    <3>7. \A i \in DOMAIN got, j \in DOMAIN f : got[i] < f[j]
      <4> SUFFICES ASSUME NEW i \in DOMAIN got, NEW j \in DOMAIN f PROVE got[i] < f[j]
        OBVIOUS
      <4>1. j \in Nat /\ j >= 1 /\ f[j] = Base + file.off + j
        BY <2>2, <3>1, <3>3
      <4> QED BY <1>0, <2>2, <3>6, <4>1
    <3>8. Increasing(got \o f)
      BY <2>2, <3>1, <3>4, <3>6, <3>7, Joined
    <3>9. ASSUME NEW i \in DOMAIN (got \o f)
          PROVE  \/ \E k \in DOMAIN got : (got \o f)[i] = got[k]
                 \/ \E k \in DOMAIN f : (got \o f)[i] = f[k]
      <4>1. i \in 1..(Len(got) + Len(f)) /\ Len(got) \in Nat /\ Len(f) \in Nat
        BY <2>2, <3>1
      <4>2. CASE i <= Len(got)
        <5>1. i \in DOMAIN got
          BY <2>2, <4>1, <4>2
        <5>2. (got \o f)[i] = got[i]
          BY <2>2, <3>1, <4>1, <4>2
        <5> QED BY <5>1, <5>2
      <4>3. CASE i > Len(got)
        <5>1. i - Len(got) \in 1..Len(f) /\ (got \o f)[i] = f[i - Len(got)]
          BY <2>2, <3>1, <4>1, <4>3, SMTT(30)
        <5> QED BY <3>1, <5>1
      <4> QED BY <4>1, <4>2, <4>3
    <3>10. \A i \in DOMAIN got : got[i] <= written
      BY <1>0, <3>6 DEF Facts
    <3>11. \A i \in DOMAIN (got \o f) :
              (got \o f)[i] <= written /\ \A j \in DOMAIN passed : passed[j] < (got \o f)[i]
      BY <3>3, <3>5, <3>6, <3>9, <3>10
    <3> QED BY <2>1, <2>2, <2>4, <3>1, <3>8, <3>11
  <2> QED BY <2>2, <2>3, <2>4
<1> QED BY <1>1, <1>2

\* The read: the follower is in step with the log again, or found nothing to read and
\* is where it was.
LEMMA ReadsKeep == FollowInv /\ F!PollReads => FollowInv'
<1> SUFFICES ASSUME FollowInv, F!PollReads PROVE FollowInv'
  OBVIOUS
<1>1. /\ poll = "read" /\ poll' = "idle" /\ passed' = passed \o F!NewLines
      /\ got' = <<>> /\ cut' = FALSE
      /\ astray' = (astray \/ (Len(log) > file.off /\ (cut \/ Len(log) > cleaner)))
      /\ mixed' = (Len(log) > file.off /\ cut)
      /\ UNCHANGED <<log, copy, hasCopy, cleaner, written, size, opening, raced>>
  BY DEF F!PollReads, F!logVars
<1>0. /\ F!TypeOK /\ FileType /\ LogInv /\ CopyInv /\ FileInv /\ Facts
      /\ ~raced => PassedInv /\ GotInv /\ MarkInv
      /\ Base \in Nat /\ Base + Len(log) = written /\ Len(log) <= MaxLine
      /\ Copied \in Nat /\ Copied <= Len(log) /\ Copied <= Len(copy)
  BY Unfolded
<1> DEFINE N == F!NewLines
<1>2. LogInv' /\ CopyInv' /\ Base' = Base /\ Copied' = Copied
  BY <1>0, <1>1, FilesStay
<1>3. N \in Seq(Line) /\ passed \in Seq(Line)
  BY <1>0, NewLinesType DEF Facts
<1>4. ~raced => /\ Increasing(N)
                /\ \A i \in DOMAIN N : N[i] <= written /\ \A j \in DOMAIN passed : passed[j] < N[i]
                /\ Len(log) <= file.off => \A i \in DOMAIN N : N[i] <= Base
  BY NewLinesAreNew
<1>5. passed' = passed \o N
  BY <1>1
<1> HIDE DEF N
<1>6. \A i \in DOMAIN passed' : \/ \E k \in DOMAIN passed : passed'[i] = passed[k]
                                \/ \E k \in DOMAIN N : passed'[i] = N[k]
  <2> SUFFICES ASSUME NEW i \in DOMAIN passed'
               PROVE  \/ \E k \in DOMAIN passed : passed'[i] = passed[k]
                      \/ \E k \in DOMAIN N : passed'[i] = N[k]
    OBVIOUS
  <2>1. i \in 1..(Len(passed) + Len(N)) /\ Len(passed) \in Nat /\ Len(N) \in Nat
    BY <1>3, <1>5
  <2>2. CASE i <= Len(passed)
    <3>1. i \in DOMAIN passed
      BY <1>3, <2>1, <2>2
    <3>2. passed'[i] = passed[i]
      BY <1>3, <1>5, <2>1, <2>2
    <3> QED BY <3>1, <3>2
  <2>3. CASE i > Len(passed)
    <3>1. i - Len(passed) \in DOMAIN N
      BY <1>3, <2>1, <2>3
    <3>2. passed'[i] = N[i - Len(passed)]
      BY <1>3, <1>5, <2>1, <2>3
    <3> QED BY <3>1, <3>2
  <2> QED BY <2>1, <2>2, <2>3
<1>7. passed' \in Seq(Line) /\ got' \in Seq(Line) /\ F!Line = Line
  BY <1>0, <1>1, <1>3, <1>5 DEF Facts
<1>8. excused' \subseteq Line
  <2>1. \A X : (1..written) \ X \subseteq Line
    BY <1>0 DEF Facts, Line
  <2>2. excused \subseteq Line
    BY <1>0 DEF F!TypeOK, Facts
  <2> QED BY <2>1, <2>2 DEF F!PollReads
<1>9. file.open /\ cut' \in BOOLEAN /\ astray' \in BOOLEAN /\ mixed' \in BOOLEAN
  BY <1>0, <1>1 DEF FileInv, F!TypeOK
<1>10. GotInv'
  BY <1>1 DEF GotInv, Increasing
<1>11. ~raced' => Increasing(passed') /\ \A i \in DOMAIN passed' : passed'[i] <= written
  <2> SUFFICES ASSUME ~raced PROVE Increasing(passed') /\ \A i \in DOMAIN passed' : passed'[i] <= written
    BY <1>1
  <2>1. Increasing(passed) /\ \A k \in DOMAIN passed : passed[k] <= written
    BY <1>0 DEF PassedInv, Below
  <2>2. Increasing(passed')
    BY <1>3, <1>4, <1>5, <2>1, Joined
  <2> QED BY <1>4, <1>6, <2>1, <2>2
<1>12. SUFFICES /\ FileType' /\ file'.open = file.open /\ file'.mark = file.mark
                /\ file'.off = 0 <=> file'.tail = F!NoText
                /\ ~raced' => /\ \A i \in DOMAIN passed' : passed'[i] <= Base + file'.off
                              /\ InStep' \/ Below(Base)'
                              /\ ~mixed' => Ahead(passed)' /\ (MarkFits \/ Below(Base)')
  <2>1. file'.open \in BOOLEAN /\ file'.off \in 0..MaxLine /\ file'.mark \in 0..F!NoMark
    BY <1>12 DEF FileType, F!NoMark
  <2>2. F!TypeOK'
    BY <1>0, <1>1, <1>7, <1>8, <1>9, <2>1 DEF F!TypeOK, F!NoMark
  <2>3. FileInv'
    BY <1>1, <1>9, <1>12 DEF FileInv, F!NoText
  <2>4. ~raced' => PassedInv'
    BY <1>1, <1>2, <1>11, <1>12 DEF PassedInv, Below, Increasing
  <2>5. MarkFits => MarkFits'
    BY <1>1, <1>2, <1>12 DEF MarkFits, F!NoMark
  <2>6. Ahead(got)'
    BY <1>1 DEF Ahead
  <2>7. ~raced' => MarkInv'
    BY <1>1, <1>12, <2>5, <2>6 DEF MarkInv
  <2> QED BY <1>2, <1>10, <1>12, <2>2, <2>3, <2>4, <2>7 DEF FollowInv
<1>13. CASE Len(log) > file.off
  <2>1. file' = [file EXCEPT !.off = Len(log), !.tail = Text[Last(log)]]
    BY <1>13 DEF F!PollReads, F!Last, Last
  <2>2. Last(log) = log[Len(log)] /\ Len(log) \in DOMAIN log /\ log[Len(log)] \in Line
    BY <1>0, <1>13 DEF Facts, Last
  <2>3. Text[log[Len(log)]] \in Nat \ {0}
    BY <2>2, FollowerAssumption
  <2>4. /\ file'.off = Len(log) /\ file'.tail = Text[log[Len(log)]]
        /\ file'.open = file.open /\ file'.mark = file.mark
    BY <1>0, <2>1, <2>2 DEF FileType
  <2>5. FileType'
    <3>1. file \in [open : BOOLEAN, off : 0..MaxLine, tail : Nat, mark : 0..F!NoMark]
      BY <1>0 DEF FileType
    <3>2. file' = [open |-> file.open, off |-> Len(log), tail |-> Text[log[Len(log)]], mark |-> file.mark]
      BY <2>1, <2>2, <3>1
    <3>3. Len(log) \in 0..MaxLine
      BY <1>0 DEF Facts
    <3> QED BY <2>3, <3>1, <3>2, <3>3 DEF FileType, F!NoMark
  <2>6. InStep' /\ (file'.off = 0 <=> file'.tail = F!NoText)
    BY <1>0, <1>1, <1>13, <2>3, <2>4 DEF InStep, Facts, F!NoText
  <2>7. ~raced' => \A i \in DOMAIN passed' : passed'[i] <= Base + file'.off
    BY <1>0, <1>11, <2>4
  <2>8. ASSUME ~raced', ~mixed' PROVE Ahead(passed)' /\ MarkFits
    <3>1. ~mixed /\ ~cut /\ ~raced
      BY <1>0, <1>1, <1>13, <2>8 DEF FileInv
    <3>2. MarkFits
      BY <1>0, <1>1, <3>1 DEF MarkInv
    <3>4. file.mark # F!NoMark => \A i \in DOMAIN copy : ~(i > file.mark + Len(log))
      <4> SUFFICES ASSUME file.mark # F!NoMark, NEW i \in DOMAIN copy PROVE ~(i > file.mark + Len(log))
        OBVIOUS
      <4>1. file.mark \in {Len(copy), Len(copy) - Copied} /\ i <= Len(copy) /\ i \in Nat
        BY <1>0, <3>2 DEF MarkFits, Facts
      <4> QED BY <1>0, <4>1 DEF Facts
    <3>5. Ahead(passed)'
      BY <1>1, <2>4, <3>4 DEF Ahead, F!NoMark
    <3> QED BY <3>2, <3>5
  <2> QED BY <2>4, <2>5, <2>6, <2>7, <2>8
<1>14. CASE Len(log) <= file.off
  <2>1. file' = file
    BY <1>0, <1>14 DEF F!PollReads, Facts
  <2>2. FileType' /\ (file'.off = 0 <=> file'.tail = F!NoText)
    BY <1>0, <2>1 DEF FileType, FileInv, F!NoMark
  <2>3. N = <<>> \/ N = got
    <3>1. log \in Seq(Line) /\ got \in Seq(Line) /\ file.off \in Nat /\ Len(log) \in Nat
      BY <1>0 DEF Facts
    <3>2. SubSeq(log, file.off + 1, Len(log)) = <<>>
      BY <1>14, <3>1
    <3>3. \A s \in Seq(Line) : s \o <<>> = s
      OBVIOUS
    <3> QED BY <3>1, <3>2, <3>3 DEF N, F!NewLines, F!Fresh
  <2>4. ASSUME ~raced'
        PROVE  /\ \A i \in DOMAIN passed' : passed'[i] <= Base + file'.off
               /\ Below(Base) => Below(Base)'
               /\ InStep' \/ Below(Base)'
               /\ ~mixed' => Ahead(passed)' /\ (MarkFits \/ Below(Base)')
    <3>1. PassedInv /\ GotInv /\ MarkInv /\ ~raced
      BY <1>0, <1>1, <2>4
    <3>2. \A k \in DOMAIN N : N[k] <= Base /\ N[k] \in Nat
      BY <1>3, <1>4, <1>14, <3>1, Elements
    <3>3. \A i \in DOMAIN passed' : passed'[i] <= Base + file'.off
      <4>1. \A k \in DOMAIN passed : passed[k] <= Base + file.off
        BY <3>1 DEF PassedInv, Below
      <4>2. \A k \in DOMAIN N : N[k] <= Base + file.off
        BY <1>0, <3>2 DEF Facts
      <4> QED BY <1>6, <2>1, <4>1, <4>2
    <3>4. Below(Base) => Below(Base)'
      BY <1>2, <1>6, <3>2 DEF Below
    <3>5. InStep => InStep'
      BY <1>1, <2>1 DEF InStep
    <3>6. ASSUME ~mixed' PROVE Ahead(passed)' /\ (MarkFits \/ Below(Base)')
      <4>1. ~mixed
        BY <1>0, <1>1 DEF FileInv
      <4>2. Ahead(passed) /\ Ahead(got) /\ (MarkFits \/ Below(Base))
        BY <1>1, <3>1, <4>1 DEF MarkInv
      <4>3. ASSUME file.mark # F!NoMark, NEW i \in DOMAIN copy, i > file.mark + file.off,
                   NEW j \in DOMAIN passed'
            PROVE  passed'[j] < copy[i]
        <5>1. \A k \in DOMAIN passed : passed[k] < copy[i]
          BY <4>2, <4>3 DEF Ahead
        <5>2. \A k \in DOMAIN got : got[k] < copy[i]
          BY <4>2, <4>3 DEF Ahead
        <5>3. \A k \in DOMAIN N : N[k] < copy[i]
          BY <2>3, <5>2
        <5> QED BY <1>6, <5>1, <5>3
      <4>4. Ahead(passed)'
        BY <1>1, <2>1, <4>3 DEF Ahead, F!NoMark
      <4> QED BY <3>4, <4>2, <4>4
    <3> QED BY <3>1, <3>3, <3>4, <3>5, <3>6 DEF PassedInv
  <2> QED BY <2>1, <2>2, <2>4
<1> QED
  <2>1. Len(log) > file.off \/ Len(log) <= file.off
    BY <1>0 DEF Facts
  <2> QED BY <1>13, <1>14, <2>1

\* Another process opens the log.
LEMMA StopKeeps == FollowInv /\ F!Stop => FollowInv'
<1> SUFFICES ASSUME FollowInv, F!Stop PROVE FollowInv'
  OBVIOUS
<1>1. /\ file' = F!Closed /\ poll' = "idle" /\ got' = <<>> /\ size' = 0 /\ opening' = FALSE
      /\ passed' = <<>> /\ cut' = FALSE /\ astray' = FALSE /\ mixed' = FALSE /\ raced' = FALSE
      /\ UNCHANGED <<log, copy, hasCopy, cleaner, written, excused>>
  BY DEF F!Stop, F!logVars
<1>0. /\ F!TypeOK /\ LogInv /\ CopyInv /\ Facts
  BY Unfolded
<1>2. LogInv' /\ CopyInv' /\ Base' = Base /\ Copied' = Copied
  BY <1>0, <1>1, FilesStay
<1>3. /\ file'.off = 0 /\ file'.tail = F!NoText /\ file'.mark = F!NoMark /\ ~file'.open
      /\ file' = F!Closed' /\ FileType'
  BY <1>1, ClosedFile DEF F!Closed, FileType, F!NoMark
<1>4. F!TypeOK'
  <2>1. file'.open \in BOOLEAN /\ file'.off \in 0..MaxLine /\ file'.mark \in 0..F!NoMark
    BY <1>3 DEF FileType
  <2>2. got' \in Seq(F!Line) /\ passed' \in Seq(F!Line) /\ size' \in 0..MaxLine
    BY <1>0, <1>1 DEF Facts
  <2> QED BY <1>0, <1>1, <2>1, <2>2 DEF F!TypeOK
<1>5. FileInv'
  BY <1>1, <1>3 DEF FileInv, F!NoText
<1>6. PassedInv'
  BY <1>1 DEF PassedInv, Below, Increasing
<1>7. GotInv'
  BY <1>1 DEF GotInv, Increasing
<1>8. MarkInv'
  BY <1>3 DEF MarkInv, Ahead, MarkFits, F!NoMark
<1> QED BY <1>2, <1>3, <1>4, <1>5, <1>6, <1>7, <1>8 DEF FollowInv

-----------------------------------------------------------------------------
(* The follower in the pipeline. *)

LEMMA FollowInit == Init => FollowInv
<1> SUFFICES ASSUME Init PROVE FollowInv
  OBVIOUS
<1>1. /\ log = <<>> /\ copy = <<>> /\ hasCopy \in BOOLEAN /\ cleaner = F!Idle /\ written = 0
      /\ file = F!Closed /\ poll = "idle" /\ got = <<>> /\ size = 0 /\ opening = FALSE
      /\ passed = <<>> /\ excused = {} /\ cut = FALSE /\ astray = FALSE
      /\ mixed = FALSE /\ raced = FALSE
  BY DEF Init, F!Init
<1>2. MaxLine \in Nat
  BY FollowerAssumption
<1>3. /\ file.off = 0 /\ file.tail = F!NoText /\ file.mark = F!NoMark /\ ~file.open /\ FileType
  BY <1>1, ClosedFile DEF FileType
<1>4. F!TypeOK
  <2>1. file.open \in BOOLEAN /\ file.off \in 0..MaxLine /\ file.mark \in 0..F!NoMark
    BY <1>3 DEF FileType
  <2>2. <<>> \in Seq(F!Line)
    OBVIOUS
  <2>3. log \in Seq(F!Line) /\ copy \in Seq(F!Line) /\ got \in Seq(F!Line) /\ passed \in Seq(F!Line)
    BY <1>1, <2>2
  <2>4. written \in 0..MaxLine /\ cleaner \in 0..F!Idle /\ size \in 0..MaxLine
    BY <1>1, <1>2 DEF F!Idle
  <2>5. /\ hasCopy \in BOOLEAN /\ opening \in BOOLEAN
        /\ cut \in BOOLEAN /\ astray \in BOOLEAN /\ mixed \in BOOLEAN /\ raced \in BOOLEAN
        /\ poll \in {"idle", "compare", "recover", "mark", "read"} /\ excused \subseteq F!Line
    BY <1>1
  <2> QED BY <2>1, <2>3, <2>4, <2>5 DEF F!TypeOK
<1>5. Base = 0 /\ Copied = 0
  <2>1. Len(log) = 0 /\ written = 0
    BY <1>1
  <2>2. written - Len(log) = 0
    BY <2>1
  <2> QED BY <1>1, <2>2 DEF Base, Copied
<1>6. LogInv /\ CopyInv /\ GotInv
  BY <1>1, <1>5 DEF LogInv, CopyInv, GotInv, Increasing
<1>7. FileInv /\ PassedInv
  BY <1>1, <1>3 DEF FileInv, PassedInv, Below, Increasing
<1>8. MarkInv
  BY <1>3 DEF MarkInv, Ahead, MarkFits
<1> QED BY <1>3, <1>4, <1>6, <1>7, <1>8 DEF FollowInv

LEMMA FollowUnchanged == FollowInv /\ UNCHANGED logSide => FollowInv'
BY DEF FollowInv, logSide, F!TypeOK, FileType, LogInv, CopyInv, FileInv, PassedInv, GotInv, MarkInv,
       Increasing, Base, Copied, Below, InStep, MarkFits, Ahead, F!Closed

LEMMA FollowStep == FollowInv /\ [Next]_vars => FollowInv'
<1>1. [Next]_vars => \/ F!Write \/ F!CopyLog \/ F!TruncateLog \/ F!ReplaceLog \/ F!RotateCopy
                     \/ F!PollStats \/ F!PollCompares \/ F!PollRecovers \/ F!PollMarks \/ F!PollReads
                     \/ F!Stop \/ UNCHANGED logSide
  BY DEF Next, Write, CopyLog, TruncateLog, ReplaceLog, RotateCopy, PollStats, PollCompares,
         PollRecovers, PollMarks, PollReads, Ended,
         Send, Publish, CloudStores, Acknowledge, Connect, Break, Stop, RecordsOnly, vars
<1> QED BY <1>1, WriteKeeps, CopyKeeps, TruncateKeeps, ReplaceKeeps, RotateKeeps, StatsKeep,
           ComparesKeep, RecoversKeep, MarksKeep, ReadsKeep, StopKeeps, FollowUnchanged

\* A process passes no line on twice and keeps their order, whatever the texts of the
\* lines and wherever its looks at the files fall between copies, truncations and
\* rotations, unless it read back a copy whose log was yet to be truncated, or after a
\* read in a log truncated since its poll's checks (follower.poll, recover).
THEOREM PassesOnce == Spec => []PassedOnce
<1>1. FollowInv => PassedOnce
  BY DEF FollowInv, PassedInv, Increasing, PassedOnce, F!PassedOnce
<1> QED BY <1>1, FollowInit, FollowStep, PTL DEF Spec

-----------------------------------------------------------------------------
(* The records. *)

Distinct(s) == \A i, j \in DOMAIN s : s[i] = s[j] => i = j
Values(s) == {s[i] : i \in DOMAIN s}
Batch == [id : Nat, records : Seq(Record), dropped : SUBSET Record]

\* Records of what was passed on, and of connections that ended, are all there are.
Known == {r \in Record : IF r.end THEN r.line \in ended ELSE r.at \in 1..Len(passed)}

\* A record is in one place only, and from a line passed on or a connection that ended.
MemoryInv ==
    /\ queue \in Seq(Record) /\ Len(queue) <= MaxQueued /\ Distinct(queue)
    /\ pending \in Batch /\ Len(pending.records) <= MaxBatch /\ dropped \subseteq Record
    /\ Values(queue) \cap (Values(pending.records) \cup dropped \cup pending.dropped) = {}
    /\ Values(pending.records) \cap (dropped \cup pending.dropped) = {}
    /\ Values(queue) \cup Values(pending.records) \cup dropped \cup pending.dropped \subseteq Known

\* Cloud has what a batch holds.
Done(b) == Values(b.records) \subseteq stored /\ b.dropped \subseteq told
\* A batch that left the mutex is the one that waits, or done with.
Sent(b) == /\ b \in Batch /\ b.id < nextId /\ (b.id = 0 => b = R!None)
           /\ b = pending \/ (b.id # pending.id /\ Done(b))

WireInv ==
    /\ nextId \in Nat \ {0} /\ session \in {"down", "ready"}
    /\ stored \subseteq Record /\ told \subseteq Record
    /\ Sent(pending) /\ Sent(outgoing)
    /\ up \in Seq(Batch) /\ \A i \in DOMAIN up : Sent(up[i])
    /\ down \in Seq(Nat)
    /\ \A i \in DOMAIN down : down[i] < nextId /\ (down[i] = pending.id => Done(pending))

RecordInv == MemoryInv /\ WireInv /\ ended \subseteq Line

\* Induction over the numbers, as a fact about sets.
LEMMA Induction ==
    ASSUME NEW S, 0 \in S, \A n \in Nat : n \in S => n + 1 \in S
    PROVE  Nat \subseteq S
<1> SUFFICES ASSUME Nat \ S # {} PROVE FALSE
  OBVIOUS
<1> DEFINE R0 == OpToRel(<, Nat)
           T == Nat \ S
<1>1. IsWellFoundedOn(R0, Nat)
  BY NatLessThanWellFounded
<1>2. T \subseteq Nat /\ T # {}
  OBVIOUS
<1>3. PICK n \in T : \A m \in T : ~ (<<m, n>> \in R0)
  BY <1>1, <1>2, WFMin
<1>4. \A m, k \in Nat : m < k => <<m, k>> \in R0
  BY DEF OpToRel
<1> HIDE DEF R0
<1>5. \A m \in T : ~ (m < n)
  BY <1>3, <1>4
<1>6. n \in Nat /\ n # 0 /\ n - 1 \in Nat /\ n - 1 < n /\ (n - 1) + 1 = n
  OBVIOUS
<1> QED BY <1>5, <1>6

\* What add does to a queue: nothing is lost from memory, what was dropped stays so,
\* and the limit holds.
Took(s, t, K) ==
    /\ t.queue \in Seq(Record) /\ Len(t.queue) <= MaxQueued /\ Distinct(t.queue)
    /\ t.dropped \subseteq Record /\ s.dropped \subseteq t.dropped
    /\ Values(t.queue) \cap t.dropped = {}
    /\ Values(s.queue) \cup s.dropped \subseteq Values(t.queue) \cup t.dropped
    /\ Values(t.queue) \cup t.dropped \subseteq Values(s.queue) \cup s.dropped \cup K

LEMMA Suffix ==
    ASSUME NEW S, NEW q \in Seq(S), NEW d \in Nat, d <= Len(q)
    PROVE  /\ SubSeq(q, d + 1, Len(q)) \in Seq(S)
           /\ Len(SubSeq(q, d + 1, Len(q))) = Len(q) - d
           /\ DOMAIN SubSeq(q, d + 1, Len(q)) = 1..(Len(q) - d)
           /\ \A i \in 1..(Len(q) - d) : SubSeq(q, d + 1, Len(q))[i] = q[d + i]
<1>1. Len(q) \in Nat
  OBVIOUS
<1>2. Len(SubSeq(q, d + 1, Len(q))) = Len(q) - d
  BY <1>1
<1>3. SubSeq(q, d + 1, Len(q)) \in Seq(S)
  BY <1>1
<1>4. DOMAIN SubSeq(q, d + 1, Len(q)) = 1..(Len(q) - d)
  BY <1>2, <1>3
<1>5. \A i \in 1..(Len(q) - d) : SubSeq(q, d + 1, Len(q))[i] = q[d + i]
  BY <1>1
<1> QED BY <1>2, <1>3, <1>4, <1>5

\* A sequence a and a sequence b share out the values of q, a taking the first d.
Parts(S, q, d, a, b) ==
    /\ a \in Seq(S) /\ Len(a) = d
    /\ b \in Seq(S) /\ Len(b) = Len(q) - d
    /\ Distinct(b)
    /\ Values(a) \cap Values(b) = {}
    /\ Values(a) \cup Values(b) = Values(q)

\* A sequence's values, cut in two.
LEMMA Cut ==
    ASSUME NEW S, NEW q \in Seq(S), Distinct(q), NEW d \in 0..Len(q)
    PROVE  Parts(S, q, d, SubSeq(q, 1, d), SubSeq(q, d + 1, Len(q)))
<1> DEFINE a == SubSeq(q, 1, d)
           b == SubSeq(q, d + 1, Len(q))
<1>1. Len(q) \in Nat /\ d \in Nat /\ d <= Len(q) /\ DOMAIN q = 1..Len(q)
  OBVIOUS
<1>2. a \in Seq(S) /\ Len(a) = d /\ DOMAIN a = 1..d /\ \A i \in 1..d : a[i] = q[i]
  BY <1>1, SMTT(30)
<1>3. /\ b \in Seq(S) /\ Len(b) = Len(q) - d /\ DOMAIN b = 1..(Len(q) - d)
      /\ \A i \in 1..(Len(q) - d) : b[i] = q[d + i]
  BY <1>1, Suffix
<1> HIDE DEF a, b
<1>4. /\ \A i \in 1..d : i \in DOMAIN q
      /\ \A i \in 1..(Len(q) - d) : d + i \in DOMAIN q /\ d + i > d
      /\ \A i, j \in 1..(Len(q) - d) : d + i = d + j => i = j
  BY <1>1
<1>5. Distinct(b)
  <2> SUFFICES ASSUME NEW i \in DOMAIN b, NEW j \in DOMAIN b, b[i] = b[j] PROVE i = j
    BY DEF Distinct
  <2>1. d + i \in DOMAIN q /\ d + j \in DOMAIN q /\ q[d + i] = q[d + j]
    BY <1>3, <1>4
  <2>2. d + i = d + j
    BY <2>1 DEF Distinct
  <2> QED BY <1>3, <1>4, <2>2
<1>6. Values(a) \cap Values(b) = {}
  <2> SUFFICES ASSUME NEW i \in DOMAIN a, NEW j \in DOMAIN b, a[i] = b[j] PROVE FALSE
    BY DEF Values
  <2>1. i = d + j
    <3>1. i \in DOMAIN q /\ d + j \in DOMAIN q /\ q[i] = q[d + j]
      BY <1>2, <1>3, <1>4
    <3> QED BY <3>1 DEF Distinct
  <2>2. i <= d /\ d + j > d /\ i \in Nat
    BY <1>1, <1>2, <1>3
  <2> QED BY <1>1, <2>1, <2>2
<1>7. Values(a) \cup Values(b) = Values(q)
  <2>1. ASSUME NEW i \in DOMAIN a PROVE a[i] \in Values(q)
    BY <1>2, <1>4 DEF Values
  <2>2. ASSUME NEW i \in DOMAIN b PROVE b[i] \in Values(q)
    BY <1>3, <1>4 DEF Values
  <2>3. ASSUME NEW i \in DOMAIN q PROVE q[i] \in Values(a) \cup Values(b)
    <3>1. CASE i <= d
      <4>1. i \in 1..d
        BY <1>1, <3>1
      <4> QED BY <1>2, <4>1 DEF Values
    <3>2. CASE i > d
      <4>1. i - d \in 1..(Len(q) - d) /\ d + (i - d) = i
        BY <1>1, <3>2
      <4> QED BY <1>3, <4>1 DEF Values
    <3> QED BY <1>1, <3>1, <3>2
  <2> QED BY <2>1, <2>2, <2>3 DEF Values
<1>8. Parts(S, q, d, a, b)
  BY <1>2, <1>3, <1>5, <1>6, <1>7 DEF Parts
<1> QED BY <1>8 DEF a, b

LEMMA AddOneKeeps ==
    ASSUME NEW s, NEW r \in Record, s.queue \in Seq(Record), Len(s.queue) <= MaxQueued,
           Distinct(s.queue), s.dropped \subseteq Record, Values(s.queue) \cap s.dropped = {},
           r \notin Values(s.queue) \cup s.dropped
    PROVE  Took(s, R!AddOne(s, r), {r})
<1> DEFINE q == Append(s.queue, r)
           keep == (MaxQueued * 9) \div 10
           drop == Len(q) - keep
<1>1. /\ q \in Seq(Record) /\ Len(q) = Len(s.queue) + 1 /\ DOMAIN q = 1..(Len(s.queue) + 1)
      /\ \A i \in 1..Len(s.queue) : q[i] = s.queue[i]
      /\ q[Len(s.queue) + 1] = r
  OBVIOUS
<1>2. Len(s.queue) \in Nat /\ DOMAIN s.queue = 1..Len(s.queue) /\ MaxQueued \in Nat
  BY RecordsAssumption
<1>3. \A i \in 1..(Len(s.queue) + 1) : i \in 1..Len(s.queue) \/ i = Len(s.queue) + 1
  BY <1>2
<1>4. Distinct(q) /\ Values(q) = Values(s.queue) \cup {r}
  <2>1. \A i \in 1..Len(s.queue) : s.queue[i] # r
    BY <1>2 DEF Values
  <2>2. Distinct(q)
    BY <1>1, <1>2, <1>3, <2>1 DEF Distinct
  <2>3. \A i \in DOMAIN q : q[i] \in Values(s.queue) \cup {r}
    BY <1>1, <1>2, <1>3 DEF Values
  <2>4. r \in Values(q)
    <3>1. Len(s.queue) + 1 \in DOMAIN q
      BY <1>1, <1>2
    <3> QED BY <1>1, <3>1 DEF Values
  <2>5. \A i \in DOMAIN s.queue : s.queue[i] \in Values(q)
    <3>1. \A i \in 1..Len(s.queue) : i \in DOMAIN q
      BY <1>1, <1>2
    <3> QED BY <1>1, <1>2, <3>1 DEF Values
  <2> QED BY <2>2, <2>3, <2>4, <2>5 DEF Values
<1>5. keep \in Nat /\ keep <= MaxQueued
  BY <1>2
<1> HIDE DEF q, keep
<1>6. CASE r \notin Readable
  BY <1>6 DEF R!AddOne, Took
<1>7. CASE r \in Readable /\ Len(q) <= MaxQueued
  <2>1. R!AddOne(s, r) = [queue |-> q, dropped |-> s.dropped]
    BY <1>7 DEF R!AddOne, q
  <2> QED BY <1>1, <1>4, <1>7, <2>1 DEF Took
<1>8. CASE r \in Readable /\ ~(Len(q) <= MaxQueued)
  <2> DEFINE a == SubSeq(q, 1, drop)
             b == SubSeq(q, drop + 1, Len(q))
  <2>1. R!AddOne(s, r) = [queue |-> b, dropped |-> s.dropped \cup R!Range(a)]
    BY <1>8 DEF R!AddOne, q, keep
  <2>2. drop \in 0..Len(q) /\ Len(q) - drop = keep
    BY <1>1, <1>2, <1>5, <1>8
  <2>3. R!Range(a) = Values(a)
    BY DEF R!Range, Values
  <2> HIDE DEF drop
  <2>4. /\ a \in Seq(Record) /\ b \in Seq(Record) /\ Len(b) = keep /\ Distinct(b)
        /\ Values(a) \cap Values(b) = {} /\ Values(a) \cup Values(b) = Values(q)
    <3>1. q \in Seq(Record) /\ Distinct(q) /\ drop \in 0..Len(q)
      BY <1>1, <1>4, <2>2
    <3>2. Parts(Record, q, drop, a, b)
      BY <3>1, Cut
    <3> HIDE DEF a, b
    <3> QED BY <2>2, <3>2 DEF Parts
  <2> HIDE DEF a, b
  <2>5. Values(a) \subseteq Record
    BY <2>4 DEF Values
  <2> DEFINE t == R!AddOne(s, r)
  <2>6. t.queue = b /\ t.dropped = s.dropped \cup Values(a)
    BY <2>1, <2>3
  <2> HIDE DEF t
  <2>7. Values(t.queue) \cap t.dropped = {}
    BY <1>4, <2>4, <2>6
  <2>8. Values(t.queue) \cup t.dropped = Values(s.queue) \cup s.dropped \cup {r}
    BY <1>4, <2>4, <2>6
  <2>9. Len(t.queue) <= MaxQueued
    BY <1>5, <2>4, <2>6
  <2>10. Took(s, t, {r})
    BY <2>4, <2>5, <2>6, <2>7, <2>8, <2>9 DEF Took
  <2> QED BY <2>10 DEF t
<1> QED BY <1>6, <1>7, <1>8

\* The recursion of AddAll has a solution, and AddAll is its last value.
LEMMA AddAllUnfolds ==
    ASSUME NEW s, NEW records, Len(records) \in Nat
    PROVE  \E f : /\ f = [n \in 0..Len(records) |->
                            IF n = 0 THEN s ELSE R!AddOne(f[n - 1], records[n])]
                  /\ R!AddAll(s, records) = f[Len(records)]
<1> DEFINE Solves(f, m) == f = [n \in 0..m |-> IF n = 0 THEN s ELSE R!AddOne(f[n - 1], records[n])]
           S == {m \in Nat : \E f : Solves(f, m)}
<1>1. 0 \in S
  <2> DEFINE f == [n \in 0..0 |-> s]
  <2>1. \A n \in 0..0 : n = 0
    OBVIOUS
  <2>2. Solves(f, 0)
    BY <2>1
  <2> QED BY <2>2
<1>2. ASSUME NEW m \in Nat, m \in S PROVE m + 1 \in S
  <2>1. PICK f : Solves(f, m)
    BY <1>2
  <2> DEFINE g == [n \in 0..(m + 1) |-> IF n = m + 1 THEN R!AddOne(f[m], records[m + 1]) ELSE f[n]]
  <2>2. \A n \in 0..m : f[n] = IF n = 0 THEN s ELSE R!AddOne(f[n - 1], records[n])
    BY <2>1
  <2>3. \A n \in 0..(m + 1) : /\ n \in 0..m \/ n = m + 1
                              /\ n # m + 1 => n \in 0..m /\ (n # 0 => n - 1 \in 0..m /\ n - 1 # m + 1)
    OBVIOUS
  <2>4. /\ \A n \in 0..m : g[n] = f[n]
        /\ g[m + 1] = R!AddOne(f[m], records[m + 1])
        /\ (m + 1) - 1 = m /\ m + 1 # 0 /\ m \in 0..m
    OBVIOUS
  <2> HIDE DEF g
  <2>5. ASSUME NEW n \in 0..(m + 1)
        PROVE  g[n] = IF n = 0 THEN s ELSE R!AddOne(g[n - 1], records[n])
    <3>1. CASE n = m + 1
      BY <2>4, <3>1
    <3>2. CASE n # m + 1
      <4>1. n \in 0..m /\ g[n] = f[n] /\ (n # 0 => g[n - 1] = f[n - 1])
        BY <2>3, <2>4, <3>2
      <4> QED BY <2>2, <4>1
    <3> QED BY <3>1, <3>2
  <2>6. g = [n \in 0..(m + 1) |-> g[n]]
    BY DEF g
  <2>7. Solves(g, m + 1)
    BY <2>5, <2>6
  <2> QED BY <2>7
<1> HIDE DEF Solves
<1>3. Nat \subseteq S
  <2> HIDE DEF S
  <2> QED BY <1>1, <1>2, Induction
<1>4. \E f : Solves(f, Len(records))
  BY <1>3
<1> DEFINE after == CHOOSE f : Solves(f, Len(records))
<1>5. Solves(after, Len(records))
  BY <1>4
<1>6. R!AddAll(s, records) = after[Len(records)]
  BY DEF R!AddAll, Solves
<1> HIDE DEF after
<1> QED BY <1>5, <1>6 DEF Solves

\* All the records of a poll: each is new to the memory the ones before it are in.
LEMMA AddAllKeeps ==
    ASSUME NEW s, NEW records \in Seq(Record), s.queue \in Seq(Record), Len(s.queue) <= MaxQueued,
           Distinct(s.queue), s.dropped \subseteq Record, Values(s.queue) \cap s.dropped = {},
           Distinct(records), Values(records) \cap (Values(s.queue) \cup s.dropped) = {}
    PROVE  Took(s, R!AddAll(s, records), Values(records))
<1> DEFINE L == Len(records)
           K(n) == {records[i] : i \in 1..n}
<1>1. L \in Nat /\ DOMAIN records = 1..L
  OBVIOUS
<1>2. PICK f : /\ f = [n \in 0..L |-> IF n = 0 THEN s ELSE R!AddOne(f[n - 1], records[n])]
               /\ R!AddAll(s, records) = f[L]
  BY <1>1, AddAllUnfolds
<1>3. \A n \in 0..L : f[n] = IF n = 0 THEN s ELSE R!AddOne(f[n - 1], records[n])
  BY <1>2
<1> DEFINE S == {n \in Nat : n <= L => Took(s, f[n], K(n))}
<1>4. 0 \in S
  <2>1. 0 \in 0..L /\ f[0] = s
    BY <1>1, <1>3
  <2> HIDE DEF L, K
  <2>2. Took(s, s, K(0))
    BY DEF Took
  <2> QED BY <2>1, <2>2
<1>5. ASSUME NEW n \in Nat, n \in S PROVE n + 1 \in S
  <2> SUFFICES ASSUME n + 1 <= L PROVE Took(s, f[n + 1], K(n + 1))
    OBVIOUS
  <2>1. Took(s, f[n], K(n))
    BY <1>1, <1>5
  <2>2. n + 1 \in 0..L /\ n + 1 \in DOMAIN records /\ n + 1 # 0 /\ (n + 1) - 1 = n
    BY <1>1
  <2> DEFINE r == records[n + 1]
             t == f[n]
  <2>3. f[n + 1] = R!AddOne(t, r)
    BY <1>3, <2>2
  <2>4. r \in Record /\ r \in Values(records)
    BY <2>2 DEF Values
  <2>5. r \notin K(n)
    <3>1. \A i \in 1..n : i \in DOMAIN records /\ i # n + 1
      BY <1>1, <2>2
    <3> QED BY <2>2, <3>1 DEF Distinct
  <2>6. K(n + 1) = K(n) \cup {r}
    <3>1. \A i \in 1..(n + 1) : i \in 1..n \/ i = n + 1
      OBVIOUS
    <3>2. \A i \in 1..n : i \in 1..(n + 1)
      OBVIOUS
    <3>3. n + 1 \in 1..(n + 1)
      OBVIOUS
    <3> QED BY <3>1, <3>2, <3>3
  <2> HIDE DEF r, t, K, L
  <2>7. r \notin Values(t.queue) \cup t.dropped
    BY <2>1, <2>4, <2>5 DEF Took, t
  <2>8. Took(t, f[n + 1], {r})
    BY <2>1, <2>3, <2>4, <2>7, AddOneKeeps DEF Took, t
  <2> QED BY <2>1, <2>6, <2>8 DEF Took, t
<1>6. L \in S
  <2> HIDE DEF S
  <2>1. Nat \subseteq S
    BY <1>4, <1>5, Induction
  <2> QED BY <1>1, <2>1
<1>7. K(L) = Values(records)
  BY <1>1 DEF Values
<1> HIDE DEF K, L
<1> QED BY <1>1, <1>2, <1>6, <1>7

-----------------------------------------------------------------------------
(* The records' steps, against the trail. *)

TrailStep == [R!Trail!Next]_(R!Trail!vars)

LEMMA Ranges == \A f : R!Range(f) = Values(f) /\ Range(f) = Values(f)
BY DEF R!Range, Range, Values

Memory == Values(queue) \cup Values(pending.records) \cup dropped \cup pending.dropped

\* New records come into the queue; what is dropped for them was in it.
LEMMA TakeKeeps ==
    ASSUME RecordInv, NEW records \in Seq(Record), R!Take(records), Distinct(records),
           Values(records) \cap Memory = {}, Values(records) \subseteq Known', Known \subseteq Known',
           ended' \subseteq Line
    PROVE  RecordInv' /\ TrailStep
<1> DEFINE s == [queue |-> queue, dropped |-> dropped]
           t == R!AddAll(s, records)
<1>1. /\ queue' = t.queue /\ dropped' = t.dropped
      /\ UNCHANGED <<pending, outgoing, nextId, session, up, down, stored, told, lost>>
  BY DEF R!Take, R!wire, R!cloud
<1>2. s.queue = queue /\ s.dropped = dropped
  OBVIOUS
<1>3. MemoryInv /\ WireInv
  BY DEF RecordInv
<1> HIDE DEF s
<1>4. Took(s, t, Values(records))
  BY <1>2, <1>3, AddAllKeeps DEF MemoryInv, Memory
<1> HIDE DEF t
<1>5. /\ queue' \in Seq(Record) /\ Len(queue') <= MaxQueued /\ Distinct(queue')
      /\ dropped' \subseteq Record /\ dropped \subseteq dropped'
      /\ Values(queue') \cap dropped' = {}
      /\ Values(queue) \cup dropped \subseteq Values(queue') \cup dropped'
      /\ Values(queue') \cup dropped' \subseteq Values(queue) \cup dropped \cup Values(records)
  BY <1>1, <1>2, <1>4 DEF Took
<1>6. MemoryInv'
  <2>1. pending' = pending /\ pending \in Batch /\ Len(pending.records) <= MaxBatch
    BY <1>1, <1>3 DEF MemoryInv
  <2>2. /\ Values(queue') \cap (Values(pending.records) \cup dropped' \cup pending.dropped) = {}
        /\ Values(pending.records) \cap (dropped' \cup pending.dropped) = {}
    BY <1>3, <1>5 DEF MemoryInv, Memory
  <2>3. Values(queue') \cup Values(pending.records) \cup dropped' \cup pending.dropped \subseteq Known'
    BY <1>3, <1>5 DEF MemoryInv
  <2> HIDE DEF Known
  <2> QED BY <1>5, <2>1, <2>2, <2>3 DEF MemoryInv
<1>7. WireInv'
  BY <1>1, <1>3 DEF WireInv, Sent, Done
<1>8. TrailStep
  <2>1. /\ R!Held = Values(queue) \cup Values(pending.records)
        /\ R!Held' = Values(queue') \cup Values(pending'.records)
    BY Ranges DEF R!Held
  <2> DEFINE w == R!Held \ stored
             w1 == R!Held' \ stored'
             g == (dropped \cup pending.dropped) \ told
             g1 == (dropped' \cup pending'.dropped) \ told'
  <2>2. g \subseteq g1
    BY <1>1, <1>5
  <2>3. w \subseteq w1 \cup g1 \cup told
    BY <1>1, <1>5, <2>1
  <2>4. w1 \subseteq Record \ (stored \cup g1)
    <3>1. Values(queue') \subseteq Record /\ Values(pending.records) \subseteq Record
      BY <1>3, <1>5 DEF MemoryInv, Batch, Values
    <3> QED BY <1>1, <1>6, <2>1, <3>1 DEF MemoryInv
  <2>5. R!Trail!Take
    BY <1>1, <2>2, <2>3, <2>4 DEF R!Trail!Take
  <2> QED BY <2>5 DEF TrailStep, R!Trail!Next
<1> QED BY <1>6, <1>7, <1>8 DEF RecordInv

LEMMA NoneIsDone == R!None \in Batch /\ R!None.id = 0 /\ Done(R!None)
                    /\ Values(R!None.records) = {} /\ R!None.dropped = {} /\ Len(R!None.records) = 0
<1>1. <<>> \in Seq(Record) /\ Values(<<>>) = {} /\ Len(<<>>) = 0
  BY DEF Values
<1> QED BY <1>1 DEF R!None, Batch, Done

\* What the trail sees of the records.
LEMMA TrailStutters ==
    ASSUME stored' = stored, told' = told,
           (Values(queue') \cup Values(pending'.records)) \ stored
              = (Values(queue) \cup Values(pending.records)) \ stored,
           (dropped' \cup pending'.dropped) \ told = (dropped \cup pending.dropped) \ told
    PROVE  TrailStep
<1>1. /\ R!Held = Values(queue) \cup Values(pending.records)
      /\ R!Held' = Values(queue') \cup Values(pending'.records)
  BY Ranges DEF R!Held
<1> QED BY <1>1 DEF TrailStep, R!Trail!vars

\* send moves the head of the queue, and what was dropped, into the batch that waits.
LEMMA SendKeeps ==
    ASSUME RecordInv, R!Send, Known' = Known, ended' = ended
    PROVE  RecordInv' /\ TrailStep
<1>1. /\ MemoryInv /\ WireInv /\ ended \subseteq Line /\ outgoing = R!None
      /\ UNCHANGED <<session, up, down, stored, told, lost>>
  BY DEF RecordInv, R!Send, R!wire, R!cloud
<1>2. CASE /\ pending # R!None /\ outgoing' = pending
           /\ UNCHANGED <<queue, dropped, pending, nextId>>
  <2>1. MemoryInv'
    BY <1>1, <1>2 DEF MemoryInv
  <2>2. WireInv'
    BY <1>1, <1>2 DEF WireInv, Sent, Done, R!None
  <2>3. TrailStep
    BY <1>1, <1>2, TrailStutters
  <2> QED BY <1>1, <2>1, <2>2, <2>3 DEF RecordInv
<1>3. CASE /\ pending = R!None
           /\ LET n == IF Len(queue) < MaxBatch THEN Len(queue) ELSE MaxBatch IN
              /\ pending' = [id |-> nextId, records |-> SubSeq(queue, 1, n), dropped |-> dropped]
              /\ queue' = SubSeq(queue, n + 1, Len(queue))
           /\ outgoing' = pending' /\ dropped' = {} /\ nextId' = nextId + 1
  <2> DEFINE n == IF Len(queue) < MaxBatch THEN Len(queue) ELSE MaxBatch
             a == SubSeq(queue, 1, n)
             b == SubSeq(queue, n + 1, Len(queue))
  <2>1. pending' = [id |-> nextId, records |-> a, dropped |-> dropped] /\ queue' = b
    BY <1>3
  <2>2. queue \in Seq(Record) /\ Distinct(queue) /\ Len(queue) \in Nat /\ MaxBatch \in Nat
    BY <1>1, RecordsAssumption DEF MemoryInv
  <2>3. n \in 0..Len(queue) /\ n <= MaxBatch
    BY <2>2
  <2> HIDE DEF n
  <2>4. /\ a \in Seq(Record) /\ Len(a) = n /\ b \in Seq(Record) /\ Len(b) = Len(queue) - n
        /\ Distinct(b) /\ Values(a) \cap Values(b) = {} /\ Values(a) \cup Values(b) = Values(queue)
    <3>1. Parts(Record, queue, n, a, b)
      BY <2>2, <2>3, Cut
    <3> HIDE DEF a, b
    <3> QED BY <3>1 DEF Parts
  <2> HIDE DEF a, b
  <2>5. /\ pending'.id = nextId /\ pending'.records = a /\ pending'.dropped = dropped
        /\ pending' \in Batch
    <3>1. nextId \in Nat /\ dropped \subseteq Record
      BY <1>1 DEF WireInv, MemoryInv
    <3> QED BY <2>1, <2>4, <3>1 DEF Batch
  <2>6. Values(pending.records) = {} /\ pending.dropped = {} /\ pending.id = 0
    BY <1>3, NoneIsDone
  <2>7. MemoryInv'
    <3>1. Len(queue') <= MaxQueued
      BY <1>1, <2>1, <2>2, <2>3, <2>4, RecordsAssumption DEF MemoryInv
    <3>2. /\ Values(queue') \cap (Values(pending'.records) \cup dropped' \cup pending'.dropped) = {}
          /\ Values(pending'.records) \cap (dropped' \cup pending'.dropped) = {}
          /\ Values(queue') \cup Values(pending'.records) \cup dropped' \cup pending'.dropped \subseteq Known
      BY <1>1, <1>3, <2>1, <2>4, <2>5 DEF MemoryInv
    <3> QED BY <1>3, <2>1, <2>3, <2>4, <2>5, <3>1, <3>2 DEF MemoryInv
  <2>8. WireInv'
    <3>1. nextId \in Nat \ {0} /\ nextId' = nextId + 1
      BY <1>1, <1>3 DEF WireInv
    <3>2. Sent(pending)' /\ Sent(outgoing)'
      BY <1>3, <2>5, <3>1 DEF Sent
    <3>3. ASSUME NEW c, Sent(c) PROVE /\ c \in Batch /\ c.id < nextId' /\ (c.id = 0 => c = R!None)
                                      /\ c.id # pending'.id /\ Done(c)
      <4>1. c \in Batch /\ c.id < nextId /\ c.id \in Nat /\ (c.id = 0 => c = R!None)
        BY <3>3 DEF Sent, Batch
      <4>2. Done(c)
        BY <1>3, <3>3, NoneIsDone DEF Sent
      <4> QED BY <2>5, <3>1, <4>1, <4>2
    <3>4. \A i \in DOMAIN up : Sent(up[i])'
      BY <1>1, <3>3 DEF WireInv, Sent, Done, R!None
    <3>5. \A i \in DOMAIN down : down[i] < nextId' /\ down[i] # pending'.id
      <4>1. \A i \in DOMAIN down : down[i] < nextId /\ down[i] \in Nat
        BY <1>1 DEF WireInv
      <4> QED BY <2>5, <3>1, <4>1
    <3> QED BY <1>1, <3>1, <3>2, <3>4, <3>5 DEF WireInv
  <2>9. TrailStep
    <3>1. Values(queue') \cup Values(pending'.records) = Values(queue) \cup Values(pending.records)
      BY <2>1, <2>4, <2>5, <2>6
    <3>2. dropped' \cup pending'.dropped = dropped \cup pending.dropped
      BY <1>3, <2>5, <2>6
    <3> QED BY <1>1, <3>1, <3>2, TrailStutters
  <2> QED BY <1>1, <2>7, <2>8, <2>9 DEF RecordInv
<1> QED BY <1>2, <1>3 DEF R!Send

\* publish puts the copy of the batch on the connection.
LEMMA PublishKeeps ==
    ASSUME RecordInv, R!Publish, Known' = Known, ended' = ended
    PROVE  RecordInv' /\ TrailStep
<1>1. /\ MemoryInv /\ WireInv /\ ended \subseteq Line /\ outgoing' = R!None
      /\ up' = Append(up, outgoing) \/ up' = up
      /\ UNCHANGED <<queue, dropped, pending, nextId, session, down, stored, told, lost>>
  BY DEF RecordInv, R!Publish, R!cloud
<1>2. MemoryInv'
  BY <1>1 DEF MemoryInv
<1>3. /\ Sent(outgoing) /\ outgoing \in Batch /\ up \in Seq(Batch) /\ \A i \in DOMAIN up : Sent(up[i])
      /\ nextId \in Nat \ {0} /\ Sent(pending)
  BY <1>1 DEF WireInv, Sent
<1>4. Sent(R!None)
  <2>1. pending.id = 0 => pending = R!None
    BY <1>3 DEF Sent
  <2> QED BY <1>3, <2>1, NoneIsDone DEF Sent
<1>5. up' \in Seq(Batch) /\ \A i \in DOMAIN up' : Sent(up'[i])
  <2>1. CASE up' = up
    BY <1>3, <2>1
  <2>2. CASE up' = Append(up, outgoing)
    <3>1. up' \in Seq(Batch) /\ DOMAIN up' = 1..(Len(up) + 1) /\ Len(up) \in Nat /\ DOMAIN up = 1..Len(up)
      BY <1>3, <2>2
    <3>2. \A i \in 1..(Len(up) + 1) : i \in 1..Len(up) \/ i = Len(up) + 1
      BY <3>1
    <3>3. \A i \in 1..Len(up) : up'[i] = up[i]
      BY <1>3, <2>2
    <3>4. up'[Len(up) + 1] = outgoing
      BY <1>3, <2>2
    <3> QED BY <1>3, <3>1, <3>2, <3>3, <3>4
  <2> QED BY <1>1, <2>1, <2>2
<1>6. \A c : Sent(c) => Sent(c)'
  BY <1>1 DEF Sent, Done, R!None
<1>7. Sent(outgoing)' /\ Sent(pending)' /\ \A i \in DOMAIN up' : Sent(up[i])'
  <2>1. Sent(R!None)'
    BY <1>4, <1>6
  <2>2. Sent(pending)'
    BY <1>1, <1>3 DEF Sent, Done, R!None
  <2>3. Sent(outgoing)'
    BY <1>1, <2>1 DEF Sent, Done, R!None
  <2>4. \A i \in DOMAIN up' : Sent(up[i])'
    BY <1>1, <1>5 DEF Sent, Done, R!None
  <2> QED BY <2>2, <2>3, <2>4
<1>8. WireInv'
  <2>1. \A i \in DOMAIN down' : down'[i] < nextId' /\ (down'[i] = pending'.id => Done(pending)')
    BY <1>1 DEF WireInv, Done
  <2> QED BY <1>1, <1>5, <1>7, <2>1 DEF WireInv
<1>9. TrailStep
  BY <1>1, TrailStutters
<1> QED BY <1>1, <1>2, <1>8, <1>9 DEF RecordInv

\* Cloud stores a batch: the one that waits, or one it has.
LEMMA StoresKeep ==
    ASSUME RecordInv, R!CloudStores, Known' = Known, ended' = ended
    PROVE  RecordInv' /\ TrailStep
<1> DEFINE b == Head(up)
<1>1. /\ MemoryInv /\ WireInv /\ ended \subseteq Line /\ up # <<>>
      /\ up' = Tail(up) /\ down' = Append(down, b.id)
      /\ stored' = stored \cup Values(b.records) /\ told' = told \cup b.dropped
      /\ UNCHANGED <<queue, dropped, pending, outgoing, nextId, session, lost>>
  BY Ranges DEF RecordInv, R!CloudStores, R!memory
<1>2. /\ up \in Seq(Batch) /\ (\A i \in DOMAIN up : Sent(up[i])) /\ down \in Seq(Nat)
      /\ Sent(pending) /\ Sent(outgoing) /\ pending \in Batch
  BY <1>1 DEF WireInv, MemoryInv
<1>3. b = up[1] /\ 1 \in DOMAIN up
  BY <1>1, <1>2
<1>4. Sent(b) /\ b \in Batch /\ b.id \in Nat /\ b.records \in Seq(Record) /\ b.dropped \subseteq Record
  <2>1. Sent(b)
    BY <1>2, <1>3
  <2> QED BY <2>1 DEF Sent, Batch
<1> HIDE DEF b
<1>5. up' \in Seq(Batch) /\ \A i \in DOMAIN up' : Sent(up'[i])
  <2>1. up' \in Seq(Batch) /\ Len(up') = Len(up) - 1 /\ Len(up) \in Nat /\ Len(up) > 0
    BY <1>1, <1>2
  <2>2. \A i \in 1..(Len(up) - 1) : up'[i] = up[i + 1]
    BY <1>1, <1>2
  <2>3. \A i \in 1..(Len(up) - 1) : i + 1 \in DOMAIN up
    BY <1>2, <2>1
  <2>4. DOMAIN up' = 1..(Len(up) - 1)
    BY <2>1
  <2> QED BY <1>2, <2>1, <2>2, <2>3, <2>4
<1>6. \A c : Done(c) => Done(c)'
  BY <1>1 DEF Done
<1>7. \A c : Sent(c) => Sent(c)'
  BY <1>1, <1>6 DEF Sent, R!None
<1>8. Values(b.records) \subseteq stored' /\ b.dropped \subseteq told'
  BY <1>1
<1>9. b.id < nextId /\ (b.id = pending.id => b = pending)
  BY <1>4 DEF Sent
<1>10. down' \in Seq(Nat)
       /\ \A i \in DOMAIN down' : down'[i] < nextId /\ (down'[i] = pending.id => Done(pending)')
  <2>1. /\ down' \in Seq(Nat) /\ DOMAIN down' = 1..(Len(down) + 1) /\ Len(down) \in Nat
        /\ DOMAIN down = 1..Len(down)
    BY <1>1, <1>2, <1>4
  <2>2. \A i \in 1..(Len(down) + 1) : i \in 1..Len(down) \/ i = Len(down) + 1
    BY <2>1
  <2>3. \A i \in 1..Len(down) : down'[i] = down[i]
    BY <1>1, <1>2, <1>4
  <2>4. down'[Len(down) + 1] = b.id
    BY <1>1, <1>2, <1>4
  <2>5. \A i \in DOMAIN down : down[i] < nextId /\ (down[i] = pending.id => Done(pending)')
    BY <1>1, <1>6 DEF WireInv, Done
  <2>6. b.id = pending.id => Done(pending)'
    BY <1>1, <1>8, <1>9 DEF Done
  <2> QED BY <1>9, <2>1, <2>2, <2>3, <2>4, <2>5, <2>6
<1>11. Sent(outgoing)' /\ Sent(pending)' /\ \A i \in DOMAIN up' : Sent(up[i])'
  <2>1. Sent(pending)' /\ Sent(outgoing)'
    BY <1>1, <1>2, <1>6 DEF Sent, R!None
  <2>2. \A i \in DOMAIN up' : Sent(up[i])'
    BY <1>1, <1>5, <1>6 DEF Sent, R!None
  <2> QED BY <2>1, <2>2
<1>12. MemoryInv'
  BY <1>1 DEF MemoryInv
<1>13. stored' \subseteq Record /\ told' \subseteq Record
  BY <1>1, <1>4 DEF WireInv, Values
<1>14. WireInv'
  BY <1>1, <1>5, <1>10, <1>11, <1>13 DEF WireInv
<1>15. TrailStep
  <2>1. /\ R!Held = Values(queue) \cup Values(pending.records)
        /\ R!Held' = R!Held
    BY <1>1, Ranges DEF R!Held
  <2>2. Values(b.records) \subseteq stored \cup R!Held /\ b.dropped \subseteq told \cup pending.dropped
    BY <1>4, <2>1 DEF Sent, Done
  <2> DEFINE w == R!Held \ stored
             w1 == R!Held' \ stored'
             g == (dropped \cup pending.dropped) \ told
             g1 == (dropped' \cup pending'.dropped) \ told'
  <2>3. w1 \subseteq w /\ stored' = stored \cup (w \ w1)
    BY <1>1, <2>1, <2>2
  <2>4. g1 \subseteq g /\ told' = told \cup (g \ g1)
    BY <1>1, <2>2
  <2>5. R!Trail!Store
    BY <2>3, <2>4 DEF R!Trail!Store
  <2> QED BY <2>5 DEF TrailStep, R!Trail!Next
<1> QED BY <1>1, <1>12, <1>14, <1>15 DEF RecordInv

\* An acknowledgement of the batch that waits: Cloud has all of it.
LEMMA AcknowledgeKeeps ==
    ASSUME RecordInv, R!Acknowledge, Known' = Known, ended' = ended
    PROVE  RecordInv' /\ TrailStep
<1>1. /\ MemoryInv /\ WireInv /\ ended \subseteq Line /\ down # <<>>
      /\ down' = Tail(down) /\ pending' = (IF pending.id = Head(down) THEN R!None ELSE pending)
      /\ UNCHANGED <<queue, dropped, outgoing, nextId, session, up, stored, told, lost>>
  BY DEF RecordInv, R!Acknowledge, R!cloud
<1>2. down \in Seq(Nat) /\ Head(down) = down[1] /\ 1 \in DOMAIN down
  BY <1>1 DEF WireInv
<1>3. down' \in Seq(Nat) /\ \A i \in DOMAIN down' : down'[i] \in Values(down)
  <2>1. down' \in Seq(Nat) /\ Len(down') = Len(down) - 1 /\ Len(down) \in Nat /\ Len(down) > 0
    BY <1>1, <1>2
  <2>2. \A i \in 1..(Len(down) - 1) : down'[i] = down[i + 1]
    BY <1>1, <1>2
  <2>3. \A i \in 1..(Len(down) - 1) : i + 1 \in DOMAIN down
    BY <1>2, <2>1
  <2>4. DOMAIN down' = 1..(Len(down) - 1)
    BY <2>1
  <2> QED BY <2>1, <2>2, <2>3, <2>4 DEF Values
<1>4. \A d \in Values(down) : d < nextId /\ (d = pending.id => Done(pending))
  BY <1>1 DEF WireInv, Values
<1>5. CASE pending' = pending
  <2>1. MemoryInv'
    BY <1>1, <1>5 DEF MemoryInv
  <2>2. \A i \in DOMAIN down' : down'[i] < nextId /\ (down'[i] = pending.id => Done(pending))
    BY <1>3, <1>4
  <2>3. WireInv'
    BY <1>1, <1>3, <1>5, <2>2 DEF WireInv, Sent, Done, R!None
  <2>4. TrailStep
    BY <1>1, <1>5, TrailStutters
  <2> QED BY <1>1, <2>1, <2>3, <2>4 DEF RecordInv
<1>6. CASE pending' = R!None /\ pending.id = Head(down)
  <2>1. Done(pending)
    BY <1>2, <1>4, <1>6 DEF Values
  <2>2. MemoryInv'
    <3>1. MaxBatch \in Nat
      BY RecordsAssumption
    <3>2. 0 <= MaxBatch
      BY <3>1
    <3> QED BY <1>1, <1>6, <3>2, NoneIsDone DEF MemoryInv
  <2>3. ASSUME NEW c, Sent(c)
        PROVE  /\ c \in Batch /\ c.id < nextId /\ (c.id = 0 => c = R!None)
               /\ c = R!None \/ (c.id # 0 /\ Done(c))
    BY <2>1, <2>3 DEF Sent
  <2>4. \A c : Sent(c) => /\ c \in Batch /\ c.id < nextId' /\ (c.id = 0 => c = R!None)
                          /\ c = pending' \/ (c.id # pending'.id /\ Done(c))
    BY <1>1, <1>6, <2>3, NoneIsDone
  <2>5. Sent(outgoing)' /\ \A i \in DOMAIN up : Sent(up[i])'
    <3>1. Sent(outgoing) /\ \A i \in DOMAIN up : Sent(up[i])
      BY <1>1 DEF WireInv
    <3> QED BY <1>1, <2>4, <3>1 DEF Sent, Done, R!None
  <2>6. Sent(pending)'
    <3>1. nextId \in Nat \ {0}
      BY <1>1 DEF WireInv
    <3> QED BY <1>1, <1>6, <3>1, NoneIsDone DEF Sent, R!None
  <2>7. \A i \in DOMAIN down' : down'[i] < nextId'
    BY <1>1, <1>3, <1>4
  <2>8. Done(pending)'
    BY <1>6, NoneIsDone DEF Done
  <2>9. WireInv'
    BY <1>1, <1>3, <2>5, <2>6, <2>7, <2>8 DEF WireInv
  <2>10. TrailStep
    <3>1. Values(pending.records) \subseteq stored /\ pending.dropped \subseteq told
      BY <2>1 DEF Done
    <3> QED BY <1>1, <1>6, <3>1, NoneIsDone, TrailStutters
  <2> QED BY <1>1, <2>2, <2>9, <2>10 DEF RecordInv
<1> QED BY <1>1, <1>5, <1>6

\* The session comes and goes; what was on its way is sent again.
LEMMA SessionKeeps ==
    ASSUME RecordInv, R!Connect \/ R!Break, Known' = Known, ended' = ended
    PROVE  RecordInv' /\ TrailStep
<1>1. /\ MemoryInv /\ WireInv /\ ended \subseteq Line /\ session' \in {"down", "ready"}
      /\ (up' = up /\ down' = down) \/ (up' = <<>> /\ down' = <<>>)
      /\ UNCHANGED <<queue, dropped, pending, outgoing, nextId, stored, told, lost>>
  BY DEF RecordInv, R!Connect, R!Break, R!memory, R!cloud
<1>2. MemoryInv'
  BY <1>1 DEF MemoryInv
<1>3. CASE up' = up /\ down' = down
  BY <1>1, <1>2, <1>3, TrailStutters DEF RecordInv, WireInv, Sent, Done, R!None
<1>4. CASE up' = <<>> /\ down' = <<>>
  <2>1. Sent(pending)' /\ Sent(outgoing)'
    BY <1>1 DEF WireInv, Sent, Done, R!None
  <2>2. <<>> \in Seq(Batch) /\ <<>> \in Seq(Nat) /\ DOMAIN <<>> = {}
    OBVIOUS
  <2>3. WireInv'
    BY <1>1, <1>4, <2>1, <2>2 DEF WireInv
  <2>4. TrailStep
    BY <1>1, TrailStutters
  <2> QED BY <1>1, <1>2, <2>3, <2>4 DEF RecordInv
<1> QED BY <1>1, <1>3, <1>4

\* Empty memory.
LEMMA Emptied ==
    ASSUME queue' = <<>>, dropped' = {}, pending' = R!None, outgoing' = R!None,
           nextId' \in Nat \ {0}, session' \in {"down", "ready"}, up' = <<>>, down' = <<>>,
           stored' \subseteq Record, told' \subseteq Record, ended' \subseteq Line
    PROVE  RecordInv'
<1>1. <<>> \in Seq(Batch) /\ <<>> \in Seq(Nat) /\ DOMAIN <<>> = {} /\ <<>> \in Seq(Record)
      /\ Len(<<>>) = 0
  OBVIOUS
<1>2. 0 <= MaxQueued /\ 0 <= MaxBatch
  BY RecordsAssumption
<1>3. Distinct(queue') /\ Values(queue') = {}
  BY <1>1 DEF Distinct, Values
<1>4. MemoryInv'
  BY <1>1, <1>2, <1>3, NoneIsDone DEF MemoryInv
<1>5. Sent(pending)' /\ Sent(outgoing)'
  BY NoneIsDone DEF Sent, R!None
<1>6. WireInv'
  BY <1>1, <1>5 DEF WireInv
<1> QED BY <1>4, <1>6 DEF RecordInv

\* A new process starts with nothing.
LEMMA ForgetKeeps ==
    ASSUME RecordInv, R!Stop, ended' = ended
    PROVE  RecordInv' /\ TrailStep
<1>1. /\ WireInv /\ ended \subseteq Line
      /\ queue' = <<>> /\ dropped' = {} /\ pending' = R!None /\ outgoing' = R!None
      /\ session' = "down" /\ up' = <<>> /\ down' = <<>>
      /\ UNCHANGED <<nextId, stored, told>>
  BY DEF RecordInv, R!Stop, R!cloud
<1>2. RecordInv'
  BY <1>1, Emptied DEF WireInv
<1>3. R!Held' = {} /\ dropped' \cup pending'.dropped = {}
  <2>1. R!Held' = Values(queue') \cup Values(pending'.records)
    BY Ranges DEF R!Held
  <2>2. Values(<<>>) = {}
    BY DEF Values
  <2> QED BY <1>1, <2>1, <2>2, NoneIsDone
<1>4. R!Trail!Restart
  BY <1>1, <1>3 DEF R!Trail!Restart
<1> QED BY <1>2, <1>4 DEF TrailStep, R!Trail!Next

\* Only the log moves.
LEMMA LogOnlyKeeps ==
    ASSUME RecordInv, UNCHANGED recordSide, Known' = Known, ended' = ended
    PROVE  RecordInv' /\ TrailStep
<1>1. UNCHANGED <<queue, dropped, pending, outgoing, nextId, session, up, down, stored, told, lost>>
  BY DEF recordSide
<1>2. RecordInv'
  BY <1>1 DEF RecordInv, MemoryInv, WireInv, Sent, Done, R!None
<1> QED BY <1>1, <1>2, TrailStutters

-----------------------------------------------------------------------------
(* The pipeline. *)

\* The records of the lines a poll passes on are new: of places behind all before.
LEMMA PollTakes ==
    ASSUME FollowInv, RecordInv, PollReads
    PROVE  RecordInv' /\ TrailStep
<1> DEFINE N == F!NewLines
           new == StartRecords(N)
           L == Len(passed)
<1>1. F!PollReads /\ R!Take(new) /\ ended' = ended
  BY DEF PollReads
<1>2. passed' = passed \o N /\ passed \in Seq(Line) /\ N \in Seq(Line)
  BY <1>1, NewLinesType, Unfolded DEF F!PollReads, Facts
<1> HIDE DEF N
<1>3. /\ L \in Nat /\ Len(N) \in Nat /\ DOMAIN N = 1..Len(N) /\ Len(passed') = L + Len(N)
      /\ \A i \in 1..Len(N) : N[i] \in Line
  BY <1>2
<1>4. new = [i \in 1..Len(N) |-> [line |-> N[i], end |-> FALSE, at |-> L + i]]
  BY <1>3 DEF StartRecords
<1> HIDE DEF new, L
<1>5. \A i \in 1..Len(N) : [line |-> N[i], end |-> FALSE, at |-> L + i] \in Record
  BY <1>3 DEF Record
<1>6. /\ new \in Seq(Record) /\ DOMAIN new = 1..Len(N)
      /\ \A i \in 1..Len(N) : /\ new[i] \in Record /\ new[i].end = FALSE
                                /\ new[i].at = L + i
  BY <1>3, <1>4, <1>5
<1>7. /\ \A i \in 1..Len(N) : L + i \notin 1..L /\ L + i \in 1..(L + Len(N))
      /\ \A i, j \in 1..Len(N) : L + i = L + j => i = j
      /\ \A n \in 1..L : n \in 1..(L + Len(N))
  BY <1>3
<1>8. Distinct(new)
  <2> SUFFICES ASSUME NEW i \in 1..Len(N), NEW j \in 1..Len(N), new[i] = new[j] PROVE i = j
    BY <1>6 DEF Distinct
  <2>1. L + i = L + j
    BY <1>6
  <2> QED BY <1>7, <2>1
<1>9. Values(new) \cap Memory = {}
  <2> SUFFICES ASSUME NEW i \in 1..Len(N), new[i] \in Memory PROVE FALSE
    BY <1>6 DEF Values
  <2>1. new[i] \in Known
    BY DEF RecordInv, MemoryInv, Memory
  <2>2. new[i].at \in 1..L
    BY <1>6, <2>1 DEF Known, L
  <2> QED BY <1>6, <1>7, <2>2
<1>10. Values(new) \subseteq Known' /\ Known \subseteq Known'
  <2>1. Known \subseteq Known'
    BY <1>1, <1>3, <1>7 DEF Known, L
  <2>2. \A i \in DOMAIN new : new[i] \in Known'
    BY <1>3, <1>6, <1>7 DEF Known
  <2> QED BY <2>1, <2>2 DEF Values
<1>11. ended' \subseteq Line
  BY <1>1 DEF RecordInv
<1> QED BY <1>1, <1>6, <1>8, <1>9, <1>10, <1>11, TakeKeeps

\* So is the record of a connection's end: the line's connection ends once.
LEMMA EndTakes ==
    ASSUME FollowInv, RecordInv, NEW l \in Line, Ended(l)
    PROVE  RecordInv' /\ TrailStep
<1> DEFINE r == [line |-> l, end |-> TRUE, at |-> 0]
           new == <<r>>
<1>1. /\ l \notin ended /\ ended' = ended \cup {l} /\ R!Take(new) /\ passed' = passed
  BY DEF Ended, logSide
<1>2. r \in Record /\ r.line = l /\ r.end = TRUE
  BY DEF Record
<1> HIDE DEF r
<1>3. new \in Seq(Record) /\ DOMAIN new = {1} /\ new[1] = r
  BY <1>2
<1> HIDE DEF new
<1>4. Distinct(new) /\ Values(new) = {r}
  BY <1>3 DEF Distinct, Values
<1>5. r \notin Memory
  <2>1. r \notin Known
    BY <1>1, <1>2 DEF Known
  <2> QED BY <2>1 DEF RecordInv, MemoryInv, Memory
<1>6. r \in Known' /\ Known \subseteq Known'
  BY <1>1, <1>2 DEF Known
<1>7. ended' \subseteq Line
  BY <1>1 DEF RecordInv
<1> QED BY <1>1, <1>3, <1>4, <1>5, <1>6, <1>7, TakeKeeps

LEMMA RecordStep == FollowInv /\ RecordInv /\ [Next]_vars => RecordInv' /\ TrailStep
<1> SUFFICES ASSUME FollowInv, RecordInv, [Next]_vars PROVE RecordInv' /\ TrailStep
  OBVIOUS
<1>1. CASE passed' = passed /\ ended' = ended
  <2>1. Known' = Known
    BY <1>1 DEF Known
  <2>2. CASE UNCHANGED recordSide
    BY <1>1, <2>1, <2>2, LogOnlyKeeps
  <2>3. CASE R!Send
    BY <1>1, <2>1, <2>3, SendKeeps
  <2>4. CASE R!Publish
    BY <1>1, <2>1, <2>4, PublishKeeps
  <2>5. CASE R!CloudStores
    BY <1>1, <2>1, <2>5, StoresKeep
  <2>6. CASE R!Acknowledge
    BY <1>1, <2>1, <2>6, AcknowledgeKeeps
  <2>7. CASE R!Connect \/ R!Break
    BY <1>1, <2>1, <2>7, SessionKeeps
  <2>8. CASE PollReads
    BY <2>8, PollTakes
  <2>9. CASE \E l \in Line : Ended(l)
    BY <2>9, EndTakes
  <2>10. CASE Stop
    BY <1>1, <2>10, ForgetKeeps DEF Stop
  <2> QED
    BY <2>2, <2>3, <2>4, <2>5, <2>6, <2>7, <2>8, <2>9, <2>10
    DEF Next, Write, CopyLog, TruncateLog, ReplaceLog, RotateCopy, PollStats, PollCompares,
        PollRecovers, PollMarks, FollowerOnly, Send, Publish, CloudStores, Acknowledge, Connect, Break, vars
<1>2. CASE PollReads
  BY <1>2, PollTakes
<1>3. CASE \E l \in Line : Ended(l)
  BY <1>3, EndTakes
<1>4. CASE Stop
  BY <1>4, ForgetKeeps DEF Stop
<1>5. [Next]_vars => (passed' = passed /\ ended' = ended) \/ PollReads \/ (\E l \in Line : Ended(l)) \/ Stop
  BY DEF Next, Write, CopyLog, TruncateLog, ReplaceLog, RotateCopy, PollStats, PollCompares,
         PollRecovers, PollMarks, FollowerOnly, RecordsOnly,
         Send, Publish, CloudStores, Acknowledge, Connect, Break, vars, logSide,
         F!Write, F!CopyLog, F!TruncateLog, F!ReplaceLog, F!RotateCopy,
         F!PollStats, F!PollCompares, F!PollRecovers, F!PollMarks, F!readVars
<1> QED BY <1>1, <1>2, <1>3, <1>4, <1>5

LEMMA RecordStart == Init => RecordInv /\ R!Trail!Init
<1> SUFFICES ASSUME Init PROVE RecordInv /\ R!Trail!Init
  OBVIOUS
<1>1. /\ queue = <<>> /\ dropped = {} /\ pending = R!None /\ outgoing = R!None /\ nextId = 1
      /\ session = "down" /\ up = <<>> /\ down = <<>>
      /\ stored = {} /\ told = {} /\ lost = {} /\ ended = {}
  BY DEF Init, R!Init
<1>2. /\ <<>> \in Seq(Batch) /\ <<>> \in Seq(Nat) /\ DOMAIN <<>> = {} /\ <<>> \in Seq(Record)
      /\ Len(<<>>) = 0 /\ 0 <= MaxQueued /\ 0 <= MaxBatch
  BY RecordsAssumption
<1>3. Distinct(queue) /\ Values(queue) = {}
  BY <1>1, <1>2 DEF Distinct, Values
<1>4. MemoryInv
  BY <1>1, <1>2, <1>3, NoneIsDone DEF MemoryInv
<1>5. Sent(R!None)
  BY <1>1, NoneIsDone DEF Sent
<1>6. WireInv
  BY <1>1, <1>2, <1>5 DEF WireInv
<1>7. R!Held = {}
  BY <1>1, <1>3, NoneIsDone, Ranges DEF R!Held
<1>8. R!Trail!Init
  BY <1>1, <1>7, NoneIsDone DEF R!Trail!Init
<1> QED BY <1>1, <1>4, <1>6, <1>8 DEF RecordInv

LEMMA RecordTypes == FollowInv /\ RecordInv => TypeOK
<1> SUFFICES ASSUME FollowInv, RecordInv PROVE TypeOK
  OBVIOUS
<1>1. F!TypeOK /\ ended \subseteq Line /\ MemoryInv /\ WireInv /\ outgoing \in Batch
  BY DEF FollowInv, RecordInv, WireInv, Sent
<1>2. \A b \in Batch : R!BatchType(b)
  BY DEF Batch, R!BatchType
<1>3. R!TypeOK
  BY <1>1, <1>2 DEF R!TypeOK, MemoryInv, WireInv
<1> QED BY <1>1, <1>3 DEF TypeOK

\* Every variable has its type, and neither the queue nor the batch outgrows its limit,
\* however many lines come (maxQueued, maxBatch).
THEOREM TypeCorrect == Spec => []TypeOK
BY FollowInit, FollowStep, RecordStart, RecordStep, RecordTypes, PTL DEF Spec

\* Queue, batches, resends, late acknowledgements, breaks and stops implement the audit
\* trail: no record leaves the memory unless Cloud has it or is told that it was dropped.
THEOREM RecordsKeepTrail == Spec => KeepsTrail
<1>1. TrailStep => [R!Trail!Next]_(R!Trail!vars)
  BY DEF TrailStep
<1> QED BY <1>1, FollowInit, FollowStep, RecordStart, RecordStep, PTL
        DEF Spec, KeepsTrail, R!KeepsTrail, R!Trail!Spec
=============================================================================
