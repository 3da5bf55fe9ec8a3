--------------------------- MODULE RecordPipeline ---------------------------
(***************************************************************************)
(* From the access log to Cloud: the lines a poll passes on make the       *)
(* records the connection records queue, in one process that may stop      *)
(* (internal/app shares one log between the ledger and the records).       *)
(***************************************************************************)
EXTENDS Naturals, Sequences, SequencesExt, Functions

CONSTANTS
    MaxLine, Text,
    Recordable,   \* lines of owned clients that carry all a record needs
    MaxQueued, MaxBatch, MaxInFlight,
    MaxFaults,    \* how often each disturbance happens
    MaxTotal      \* and all of them together

Line == 1..MaxLine
FaultKind == {"clear", "replace", "rotate", "break", "stop", "end"}
\* The record a line makes at once, where it was passed on, and the one its connection's
\* end makes.
Record == [line : Line, end : BOOLEAN, at : Nat]
Readable == {r \in Record : r.line \in Recordable}

\* The text 0 is the follower's for none.
ASSUME FollowerAssumption == MaxLine \in Nat /\ Text \in [Line -> Nat \ {0}]
ASSUME RecordsAssumption == MaxQueued \in Nat /\ MaxBatch \in Nat \ {0} /\ MaxInFlight \in Nat
ASSUME PipelineAssumption == Recordable \subseteq Line /\ MaxFaults \in [FaultKind -> Nat] /\ MaxTotal \in Nat

VARIABLES
    log, copy, hasCopy, cleaner, written, file, poll, got, size, opening, passed,
    excused, cut, astray, mixed, raced,
    queue, dropped, pending, outgoing, nextId, session, up, down, stored, told, lost,
    ended,        \* lines whose bound connection ended
    faults

F == INSTANCE Follower
R == INSTANCE ConnectionRecords

logSide == <<log, copy, hasCopy, cleaner, written, file, poll, got, size, opening, passed,
             excused, cut, astray, mixed, raced>>
recordSide == <<queue, dropped, pending, outgoing, nextId, session, up, down, stored, told, lost>>
vars == <<logSide, recordSide, ended, faults>>

Fault(k) ==
    /\ faults[k] < MaxFaults[k] /\ SumFunction(faults) < MaxTotal
    /\ faults' = [faults EXCEPT ![k] = @ + 1]
FollowerOnly == UNCHANGED <<recordSide, ended>>
RecordsOnly == UNCHANGED <<logSide, ended>>

StartRecords(lines) ==
    [i \in DOMAIN lines |-> [line |-> lines[i], end |-> FALSE, at |-> Len(passed) + i]]

Init == F!Init /\ R!Init /\ ended = {} /\ faults = [k \in FaultKind |-> 0]

Write == F!Write /\ FollowerOnly /\ UNCHANGED faults
CopyLog == F!CopyLog /\ Fault("clear") /\ FollowerOnly
TruncateLog == F!TruncateLog /\ FollowerOnly /\ UNCHANGED faults
ReplaceLog == F!ReplaceLog /\ Fault("replace") /\ FollowerOnly
RotateCopy == F!RotateCopy /\ Fault("rotate") /\ FollowerOnly
PollStats == F!PollStats /\ FollowerOnly /\ UNCHANGED faults
PollCompares == F!PollCompares /\ FollowerOnly /\ UNCHANGED faults
PollRecovers == F!PollRecovers /\ FollowerOnly /\ UNCHANGED faults
PollMarks == F!PollMarks /\ FollowerOnly /\ UNCHANGED faults
\* Log.Run hands the poll's lines to Records.Lines.
PollReads == /\ F!PollReads
             /\ R!Take(StartRecords(F!NewLines))
             /\ UNCHANGED <<ended, faults>>

\* The ledger reports the end of a connection bound to a line passed on.
Ended(l) ==
    /\ l \in Range(passed) \ ended /\ Fault("end")
    /\ ended' = ended \cup {l}
    /\ R!Take(<<[line |-> l, end |-> TRUE, at |-> 0]>>)
    /\ UNCHANGED logSide

Send == R!Send /\ RecordsOnly /\ UNCHANGED faults
Publish == R!Publish /\ RecordsOnly /\ UNCHANGED faults
CloudStores == R!CloudStores /\ RecordsOnly /\ UNCHANGED faults
Acknowledge == R!Acknowledge /\ RecordsOnly /\ UNCHANGED faults
Connect == R!Connect /\ RecordsOnly /\ UNCHANGED faults
Break == R!Break /\ Fault("break") /\ RecordsOnly
\* Update, crash or stop: another process follows.
Stop == F!Stop /\ R!Stop /\ Fault("stop") /\ UNCHANGED ended

Next == \/ Write \/ CopyLog \/ TruncateLog \/ ReplaceLog \/ RotateCopy
        \/ PollStats \/ PollCompares \/ PollRecovers \/ PollMarks \/ PollReads \/ \E l \in Line : Ended(l)
        \/ Send \/ Publish \/ CloudStores \/ Acknowledge \/ Connect \/ Break \/ Stop

Spec == Init /\ [][Next]_vars

\* The tickers keep polling and sending, the client reconnects, the connection and
\* Cloud move what is sent.
FairSpec ==
    /\ Spec
    /\ WF_vars(PollStats) /\ WF_vars(PollCompares) /\ WF_vars(PollRecovers) /\ WF_vars(PollMarks) /\ WF_vars(PollReads)
    /\ WF_vars(Send) /\ WF_vars(Publish) /\ WF_vars(Connect)
    /\ WF_vars(CloudStores) /\ WF_vars(Acknowledge)

-----------------------------------------------------------------------------
(* Properties. *)

\* Every variable has its type.
TypeOK == F!TypeOK /\ R!TypeOK /\ ended \subseteq Line

\* A process passes no line on twice and keeps their order, however the poll's looks at
\* the log and at the copy fall between copies, truncations and rotations ("read back from
\* its copy, once and in order").  Set aside is a process that read back a copy whose log
\* was yet to be truncated, or after a read in a log truncated since its poll's checks: there
\* the code can pass lines on twice (follower.recover).
PassedOnce == F!PassedOnce

\* Queue, batches, resends and late acknowledgements keep what the records promise, also
\* of a line passed on twice.
KeepsTrail == R!KeepsTrail

\* What becomes of the record of a line.
Reached(l) ==
    \/ \E r \in stored \cup told \cup lost : r.line = l /\ ~r.end
                          \* Cloud has it or knows it was dropped, or its process ended first
    \/ l \in excused      \* never read

\* A line Xray writes for an owned client reaches Cloud, over clearings and rotations of
\* the log at any moment of a poll, broken sessions, a full queue and process changes,
\* unless the follower cannot find it (excused).  Documented among these: written between
\* copy and truncation, read on opening the log, in a log or a copy another file replaced.
\* Not documented ("A truncation then loses only what Xray writes between the copy and the
\* truncation"): truncated before the follower ever saw a copy, truncated between the
\* poll's checks and its read, and truncated once more while the mark was taken, or the
\* offset moved, between an earlier copy and its truncation.
LinesReachCloud == \A l \in Recordable : (written >= l) ~> Reached(l)
=============================================================================
