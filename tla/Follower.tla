------------------------------ MODULE Follower ------------------------------
(***************************************************************************)
(* The access log's follower (internal/xray/accesslog/follow.go) against   *)
(* Xray, which appends lines, and 3x-ui, which appends the whole log to a  *)
(* copy and then truncates it.                                             *)
(*                                                                         *)
(* A file is the sequence of its lines, an offset a number of lines, and   *)
(* tail the text of the last line read.  Xray writes whole lines, and one  *)
(* read takes all there is: its 4 MiB limit is more than Xray logs in a    *)
(* second.  A poll looks at the two files one system call after the other, *)
(* and they change between any two of its looks.                           *)
(***************************************************************************)
EXTENDS Naturals, Sequences, SequencesExt

CONSTANTS
    MaxLine,    \* how many lines Xray writes
    Text        \* the text of a line, as far as tail and cleared compare it

Line == 1..MaxLine
NoText == 0
NoMark == MaxLine + 1

VARIABLES
    log,        \* the access log
    copy,       \* 3x-ui's copy
    hasCopy,    \* the copy exists
    cleaner,    \* how much of the log 3x-ui has copied and not yet truncated, or idle
    written,    \* how many lines Xray has written
    file,       \* the follower's state: open file, offset, tail, mark
    poll,       \* where the poll is
    got,        \* the lines this poll has read so far
    size,       \* the log's size at the start of this poll
    opening,    \* this poll opened the file: its lines are backlog
    passed,     \* the lines this process passed on as new, in order
    excused,    \* lines the follower has no way to find any more
    cut,        \* the log was truncated after this poll checked it
    astray,     \* the mark may be that of another filling of the log than the offset
    mixed,      \* the last read was in a log truncated since its poll checked it
    raced       \* this process read back a copy whose log was not truncated yet, or
                \* after a mixed read

logVars == <<log, copy, hasCopy, cleaner, written>>
readVars == <<file, poll, got, size, opening, passed>>
vars == <<logVars, readVars, excused, cut, astray, mixed, raced>>

Idle == MaxLine + 1
Closed == [open |-> FALSE, off |-> 0, tail |-> NoText, mark |-> NoMark]
Unpassed == (1..written) \ (Range(passed) \cup Range(got))

Init ==
    /\ log = <<>> /\ copy = <<>> /\ hasCopy \in BOOLEAN /\ cleaner = Idle /\ written = 0
    /\ file = Closed /\ poll = "idle" /\ got = <<>> /\ size = 0 /\ opening = FALSE
    /\ passed = <<>> /\ excused = {} /\ cut = FALSE /\ astray = FALSE
    /\ mixed = FALSE /\ raced = FALSE

-----------------------------------------------------------------------------
(* Xray and 3x-ui, at any moment of a poll. *)

Write ==
    /\ written < MaxLine
    /\ written' = written + 1
    /\ log' = Append(log, written + 1)
    /\ UNCHANGED <<copy, hasCopy, cleaner, readVars, excused, cut, astray, mixed, raced>>

CopyLog ==
    /\ cleaner = Idle
    /\ copy' = copy \o log /\ hasCopy' = TRUE /\ cleaner' = Len(log)
    /\ UNCHANGED <<log, written, readVars, excused, cut, astray, mixed, raced>>

\* What Xray wrote since the copy is in neither file.  The follower cannot find the rest
\* either if it has no mark, has one from another filling of the log, or takes its next
\* one, past them, before it looks for them.
TruncateLog ==
    LET gap == {log[i] : i \in (cleaner + 1)..Len(log)}
        adrift == file.mark = NoMark \/ astray \/ poll = "mark" IN
    /\ cleaner # Idle
    /\ log' = <<>> /\ cleaner' = Idle
    /\ excused' = excused \cup (gap \ Range(passed)) \cup (IF adrift THEN Unpassed ELSE {})
    /\ cut' = (poll \in {"mark", "read"})
    /\ UNCHANGED <<copy, hasCopy, written, readVars, astray, mixed, raced>>

\* Another file takes the log's place, between polls.
ReplaceLog ==
    /\ poll = "idle" /\ cleaner = Idle /\ file.open
    /\ log' = <<>> /\ file' = Closed
    /\ excused' = excused \cup Unpassed
    /\ UNCHANGED <<copy, hasCopy, cleaner, written, poll, got, size, opening, passed, cut, astray, mixed, raced>>

\* The copy is rotated away; the mark of another file is no mark (os.SameFile), and
\* what was only in the copy is lost.
RotateCopy ==
    /\ hasCopy
    /\ copy' = <<>> /\ hasCopy' = FALSE
    /\ file' = [file EXCEPT !.mark = NoMark]
    /\ excused' = excused \cup (Unpassed \ Range(log))
    /\ UNCHANGED <<log, cleaner, written, poll, got, size, opening, passed, cut, astray, mixed, raced>>

-----------------------------------------------------------------------------
(* follower.poll, one look at a file after the other. *)

\* The log's Stat; a file that is not open is opened from its start.
PollStats ==
    /\ poll = "idle" /\ opening' = ~file.open
    /\ IF file.open THEN poll' = "compare" /\ size' = Len(log) /\ UNCHANGED file
       ELSE poll' = "mark" /\ file' = [Closed EXCEPT !.open = TRUE] /\ UNCHANGED size
    /\ UNCHANGED <<logVars, got, passed, excused, cut, astray, mixed, raced>>

\* unchanged: the text before the offset is still what was read.
Unchanged == file.tail # NoText => Len(log) >= file.off /\ Text[log[file.off]] = file.tail

\* cleared: nothing had been read, the copy grew, and the file was empty or does not
\* start with the text appended to the copy.
Cleared == /\ file.off = 0 /\ file.mark # NoMark
           /\ Len(copy) > file.mark
           /\ \/ size = 0 \/ log = <<>>
              \/ Text[log[1]] # Text[copy[file.mark + 1]]

\* The conditions of poll for reading from the start again.
PollCompares ==
    /\ poll = "compare" /\ size' = 0
    /\ poll' = IF size < file.off \/ ~Unchanged \/ Cleared THEN "recover" ELSE "mark"
    /\ UNCHANGED <<logVars, file, got, opening, passed, excused, cut, astray, mixed, raced>>

\* Mutant: the text in the copy is taken to start where the copy did at the last poll.
RecoveredFromMark ==
    IF file.mark # NoMark /\ Len(copy) >= file.mark
    THEN SubSeq(copy, file.mark + 1, Len(copy)) ELSE <<>>
\* recover: what the truncated file held past the offset, from the copy, if the text
\* read last comes right before it there.
Recovered ==
    LET from == file.mark + file.off IN
    IF /\ file.mark # NoMark /\ Len(copy) >= from
       /\ file.tail = NoText \/ Text[copy[from]] = file.tail
    THEN SubSeq(copy, from + 1, Len(copy)) ELSE <<>>

PollRecovers ==
    /\ poll = "recover" /\ poll' = "mark"
    /\ got' = Recovered
    /\ raced' = (raced \/ (got' # <<>> /\ (cleaner # Idle \/ mixed)))
    /\ file' = [file EXCEPT !.off = 0, !.tail = NoText]
    /\ UNCHANGED <<logVars, size, opening, passed, excused, cut, astray, mixed>>

PollMarks ==
    /\ poll = "mark" /\ poll' = "read"
    /\ file' = [file EXCEPT !.mark = IF hasCopy THEN Len(copy) ELSE NoMark]
    /\ astray' = (cleaner # Idle \/ (cut /\ file.off # 0)) /\ mixed' = FALSE
    /\ UNCHANGED <<logVars, got, size, opening, passed, excused, cut, raced>>

\* The lines the poll passes on; those of a file just opened are backlog, which
\* makes no record.
Fresh == SubSeq(log, file.off + 1, Len(log))
NewLines == IF opening THEN <<>> ELSE got \o Fresh

\* read; a poll that reads on in a log truncated since it checked, or that opened it,
\* leaves the lines before behind.
PollReads ==
    LET reads == Len(log) > file.off IN
    /\ poll = "read" /\ poll' = "idle"
    /\ passed' = passed \o NewLines
    /\ file' = IF reads THEN [file EXCEPT !.off = Len(log), !.tail = Text[Last(log)]] ELSE file
    /\ got' = <<>> /\ cut' = FALSE
    /\ astray' = (astray \/ (reads /\ (cut \/ Len(log) > cleaner))) /\ mixed' = (reads /\ cut)
    /\ excused' = IF opening \/ (cut /\ reads)
                  THEN excused \cup ((1..written) \ Range(passed')) ELSE excused
    /\ UNCHANGED <<logVars, size, opening, raced>>

\* The Agent ends; the next one opens the log.
Stop ==
    /\ file' = Closed /\ poll' = "idle" /\ got' = <<>> /\ size' = 0 /\ opening' = FALSE
    /\ passed' = <<>> /\ cut' = FALSE /\ astray' = FALSE /\ mixed' = FALSE /\ raced' = FALSE
    /\ UNCHANGED <<logVars, excused>>

-----------------------------------------------------------------------------
(* Properties. *)

\* Every variable has its type.
TypeOK ==
    /\ log \in Seq(Line) /\ copy \in Seq(Line) /\ written \in 0..MaxLine
    /\ hasCopy \in BOOLEAN /\ opening \in BOOLEAN
    /\ cut \in BOOLEAN /\ astray \in BOOLEAN
    /\ mixed \in BOOLEAN /\ raced \in BOOLEAN
    /\ cleaner \in 0..Idle
    /\ file.open \in BOOLEAN /\ file.off \in 0..MaxLine /\ file.mark \in 0..NoMark
    /\ poll \in {"idle", "compare", "recover", "mark", "read"} /\ size \in 0..MaxLine
    /\ got \in Seq(Line) /\ passed \in Seq(Line)
    /\ excused \subseteq Line

\* A process passes no line on twice and keeps their order, however its looks at the log
\* and at the copy fall between copies, truncations and rotations (recover: "once and in
\* order"), as long as it reads back no copy whose log is yet to be truncated.
PassedOnce == ~raced => \A i, j \in DOMAIN passed : i < j => passed[i] < passed[j]
=============================================================================
