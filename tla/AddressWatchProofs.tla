-------------------------- MODULE AddressWatchProofs --------------------------
(***************************************************************************)
(* Proofs about AddressWatch, for every set of commands and addresses,     *)
(* every size of the connection and every number of faults.                *)
(***************************************************************************)
EXTENDS AddressWatch, TLAPS

-----------------------------------------------------------------------------
(* Queues of reports. *)

Elements(s) == {s[k] : k \in 1..Len(s)}
Ordered(s) == \A j, k \in 1..Len(s) : j < k => s[j].id <= s[k].id

\* What Append adds.
LEMMA AppendReport ==
    ASSUME NEW s \in Seq(Report), NEW r \in Report
    PROVE  /\ Append(s, r) \in Seq(Report)
           /\ Elements(Append(s, r)) = Elements(s) \cup {r}
           /\ Ordered(s) /\ (\A q \in Elements(s) : q.id <= r.id) => Ordered(Append(s, r))
<1>1. /\ Append(s, r) \in Seq(Report) /\ Len(Append(s, r)) = Len(s) + 1 /\ Len(s) \in Nat
      /\ \A k \in 1..Len(s) : Append(s, r)[k] = s[k]
      /\ Append(s, r)[Len(s) + 1] = r
    OBVIOUS
<1>2. \A k \in 1..(Len(s) + 1) : k \in 1..Len(s) \/ k = Len(s) + 1
    BY <1>1
<1>3. Elements(Append(s, r)) = Elements(s) \cup {r}
    BY <1>1, <1>2 DEF Elements
<1>4. ASSUME Ordered(s), \A q \in Elements(s) : q.id <= r.id
      PROVE  Ordered(Append(s, r))
    <2> SUFFICES ASSUME NEW j \in 1..(Len(s) + 1), NEW k \in 1..(Len(s) + 1), j < k
                 PROVE  Append(s, r)[j].id <= Append(s, r)[k].id
        BY <1>1 DEF Ordered
    <2>1. j \in 1..Len(s)
        BY <1>1
    <2>2. CASE k \in 1..Len(s)
        BY <1>1, <1>4, <2>1, <2>2 DEF Ordered
    <2>3. CASE k = Len(s) + 1
        BY <1>1, <1>4, <2>1, <2>3 DEF Elements
    <2> QED BY <1>2, <2>2, <2>3
<1> QED BY <1>1, <1>3, <1>4

\* What Head and Tail take.
LEMMA TailReport ==
    ASSUME NEW s \in Seq(Report), s # <<>>
    PROVE  /\ Tail(s) \in Seq(Report) /\ Head(s) \in Report
           /\ Head(s) \in Elements(s) /\ Elements(Tail(s)) \subseteq Elements(s)
           /\ Ordered(s) => Ordered(Tail(s)) /\ \A q \in Elements(s) : Head(s).id <= q.id
<1>1. /\ Tail(s) \in Seq(Report) /\ Head(s) = s[1] /\ Len(s) \in Nat /\ Len(s) >= 1
      /\ Len(Tail(s)) = Len(s) - 1
      /\ \A k \in 1..(Len(s) - 1) : Tail(s)[k] = s[k + 1]
      /\ \A k \in 1..Len(s) : s[k] \in Report
    OBVIOUS
<1>2. Elements(Tail(s)) \subseteq Elements(s) /\ Head(s) \in Elements(s)
    BY <1>1 DEF Elements
<1>3. Ordered(s) => Ordered(Tail(s))
    BY <1>1 DEF Ordered
<1>4. ASSUME Ordered(s), NEW k \in 1..Len(s)
      PROVE  s[1].id <= s[k].id
    <2>1. CASE k = 1
        <3>1. s[1].id \in Nat
            BY <1>1, MaxReportsType DEF Report, Id
        <3> QED BY <2>1, <3>1
    <2>2. CASE k > 1
        BY <1>1, <1>4, <2>2 DEF Ordered
    <2> QED BY <2>1, <2>2
<1> QED BY <1>1, <1>2, <1>3, <1>4 DEF Elements

\* The same for acknowledgements.
LEMMA DownQueue ==
    ASSUME NEW s \in Seq(Id)
    PROVE  /\ \A n \in Id : Append(s, n) \in Seq(Id) /\ Elements(Append(s, n)) = Elements(s) \cup {n}
           /\ s # <<>> => /\ Tail(s) \in Seq(Id) /\ Head(s) \in Id
                          /\ Head(s) \in Elements(s) /\ Elements(Tail(s)) \subseteq Elements(s)
<1>1. ASSUME NEW n \in Id
      PROVE  Append(s, n) \in Seq(Id) /\ Elements(Append(s, n)) = Elements(s) \cup {n}
    <2>1. /\ Append(s, n) \in Seq(Id) /\ Len(Append(s, n)) = Len(s) + 1 /\ Len(s) \in Nat
          /\ \A k \in 1..Len(s) : Append(s, n)[k] = s[k]
          /\ Append(s, n)[Len(s) + 1] = n
        OBVIOUS
    <2>2. \A k \in 1..(Len(s) + 1) : k \in 1..Len(s) \/ k = Len(s) + 1
        BY <2>1
    <2> QED BY <2>1, <2>2 DEF Elements
<1>2. ASSUME s # <<>>
      PROVE  /\ Tail(s) \in Seq(Id) /\ Head(s) \in Id
             /\ Head(s) \in Elements(s) /\ Elements(Tail(s)) \subseteq Elements(s)
    <2>1. /\ Tail(s) \in Seq(Id) /\ Head(s) = s[1] /\ Len(s) \in Nat /\ Len(s) >= 1
          /\ Len(Tail(s)) = Len(s) - 1
          /\ \A k \in 1..(Len(s) - 1) : Tail(s)[k] = s[k + 1]
          /\ \A k \in 1..Len(s) : s[k] \in Id
        BY <1>2
    <2> QED BY <2>1 DEF Elements
<1> QED BY <1>1, <1>2

\* Nothing is in flight on a connection that just ended.
LEMMA EmptyQueue ==
    <<>> \in Seq(Report) /\ <<>> \in Seq(Id) /\ Elements(<<>>) = {} /\ Ordered(<<>>)
BY DEF Elements, Ordered

-----------------------------------------------------------------------------
(* Types, and what the monitor's loop holds at each of its places. *)

\* Reports on their way to Cloud, the one the loop holds included; and the report the
\* node sends again until Cloud has it.
Own(r) == {r} \ {NoReport}
OutcomeOf(a) == IF a.out # NoOutcome THEN {OutcomeReport(a)} ELSE {}
Sent == Elements(up) \cup Own(outgoing)
Current == Own(pending) \cup OutcomeOf(attempt)
Said == Sent \cup Current

\* An attempt is not open any more once it is confirmed.
Counted(a) == a.out = NoOutcome => a.confirmations < Confirmations

Causes == moved \cup {Nobody}
LoopInv ==
    /\ outgoing # NoReport <=> mpc = "publish"
    /\ seen # NotSeen <=> mpc = "settle"
    /\ mpc \in {"observe", "settle"} => attempt.out = NoOutcome
    /\ Counted(attempt) /\ Counted(file)
    /\ cause \in Causes /\ seen.cause \in Causes
    /\ \A r \in Said : r.cause \in Causes

TypeInv == TypeOK /\ LoopInv

MaybeAttempt == Attempt \cup {NoAttempt}
MaybeReport == Report \cup {NoReport}
SeenType == [addr : Address, cause : Command \cup {Nobody}]

\* What stands for nothing is nothing.
LEMMA Nothings ==
    /\ NoOutcome \notin Outcome /\ NoAttempt \notin Attempt /\ NoReport \notin Report
    /\ NotSeen \notin SeenType
    /\ NoAttempt.out = NoOutcome /\ NoAttempt.cmd = Nobody /\ Counted(NoAttempt)
    /\ NoOutcome.id = 0 /\ NoOutcome.changed = FALSE /\ 0 \notin Id
    /\ NoReport.id = 0 /\ NoReport.cmd = Nobody
    /\ NotSeen.cause = Nobody
    /\ \A a \in MaybeAttempt : /\ a # NoAttempt <=> a \in Attempt
                               /\ a # NoAttempt <=> a.cmd # Nobody
                               /\ a.out # NoOutcome => a \in Attempt /\ a.out \in Outcome
                               /\ a.out # NoOutcome <=> a.out.id \in Id
    /\ \A r \in MaybeReport : (r # NoReport <=> r \in Report) /\ (r # NoReport <=> r.id \in Id)
<1>1. 0 \notin Id /\ NoOutcome.id = 0 /\ NoOutcome.changed = FALSE /\ NoReport.id = 0
      /\ NoReport.cmd = Nobody /\ NotSeen.cause = Nobody /\ NotSeen.addr = Nobody
      /\ NoAttempt.out = NoOutcome /\ NoAttempt.cmd = Nobody /\ Counted(NoAttempt)
    BY DEF NoOutcome, NoAttempt, NoReport, NotSeen, Id, Counted, Confirmations
<1>2. NoOutcome \notin Outcome /\ NoAttempt \notin Attempt /\ NoReport \notin Report
      /\ NotSeen \notin SeenType
    <2>1. \A o \in Outcome : o.id \in Id
        BY DEF Outcome
    <2>2. \A a \in Attempt : a.cmd \in Command
        BY DEF Attempt
    <2>3. \A r \in Report : r.id \in Id
        BY DEF Report
    <2>4. \A x \in SeenType : x.addr \in Address
        BY DEF SeenType
    <2> QED BY <1>1, <2>1, <2>2, <2>3, <2>4, NobodyFresh
<1>3. ASSUME NEW a \in MaybeAttempt
      PROVE  /\ a # NoAttempt <=> a \in Attempt
             /\ a # NoAttempt <=> a.cmd # Nobody
             /\ a.out # NoOutcome => a \in Attempt /\ a.out \in Outcome
             /\ a.out # NoOutcome <=> a.out.id \in Id
    <2>1. CASE a = NoAttempt
        BY <1>1, <1>2, <2>1
    <2>2. CASE a \in Attempt
        <3>1. a.cmd \in Command /\ a.out \in Outcome \cup {NoOutcome}
            BY <2>2 DEF Attempt
        <3>2. a.out \in Outcome => a.out.id \in Id
            BY DEF Outcome
        <3> QED BY <1>1, <1>2, <2>2, <3>1, <3>2, NobodyFresh
    <2> QED BY <2>1, <2>2 DEF MaybeAttempt
<1>4. \A r \in MaybeReport : (r # NoReport <=> r \in Report) /\ (r # NoReport <=> r.id \in Id)
    <2>1. \A r \in Report : r.id \in Id
        BY DEF Report
    <2> QED BY <1>1, <1>2, <2>1 DEF MaybeReport
<1> QED BY <1>1, <1>2, <1>3, <1>4

\* The report of an outcome.
LEMMA OutcomeTyped ==
    ASSUME NEW a \in MaybeAttempt, a.out # NoOutcome
    PROVE  /\ OutcomeReport(a) \in Report /\ OutcomeReport(a) # NoReport
           /\ OutcomeReport(a).cause = Nobody /\ OutcomeReport(a).id = a.out.id
           /\ OutcomeReport(a).cmd = a.cmd /\ OutcomeReport(a).cmd \in Command
           /\ OutcomeReport(a).addr = a.out.addr /\ OutcomeReport(a).unchanged = ~a.out.changed
<1>1. a \in Attempt /\ a.out \in Outcome
    BY Nothings
<1>2. OutcomeReport(a) \in Report
    BY <1>1 DEF OutcomeReport, Report, Attempt, Outcome
<1> QED BY <1>1, <1>2, Nothings DEF OutcomeReport, Attempt

\* What an observation makes of an open attempt.
LEMMA SettledTyped ==
    ASSUME NEW a \in Attempt, Counted(a), a.out = NoOutcome, NEW id \in Id, seen \in SeenType
    PROVE  /\ Settled(a, id) \in Attempt /\ Counted(Settled(a, id))
           /\ Settled(a, id).cmd = a.cmd /\ Settled(a, id).addr = a.addr
           /\ Settled(a, id).out # NoOutcome =>
                  /\ Settled(a, id).out.id = id /\ Settled(a, id).out.addr = seen.addr
                  /\ Settled(a, id).out.changed = (seen.addr # a.addr)
<1> USE DEF Attempt, Counted, Confirmed, Confirmations, SeenType
<1>1. CASE seen.addr # a.addr
    <2>1. [id |-> id, changed |-> TRUE, addr |-> seen.addr] \in Outcome
        BY DEF Outcome
    <2> QED BY <1>1, <2>1, Nothings DEF Settled
<1>2. CASE seen.addr = a.addr
    <2> DEFINE o == IF Confirmed(a.confirmations + 1)
                    THEN [id |-> id, changed |-> FALSE, addr |-> seen.addr] ELSE a.out
    <2>1. [id |-> id, changed |-> FALSE, addr |-> seen.addr] \in Outcome
        BY DEF Outcome
    <2>2. o \in Outcome \cup {NoOutcome}
          /\ (o # NoOutcome => o.id = id /\ o.addr = seen.addr /\ o.changed = FALSE)
        BY <2>1
    <2>3. a.confirmations + 1 \in 0..2 /\ (o = NoOutcome => a.confirmations + 1 < 2)
        BY <2>1, Nothings
    <2>4. Settled(a, id) = [a EXCEPT !.confirmations = a.confirmations + 1, !.out = o]
        BY <1>2 DEF Settled
    <2> HIDE DEF o
    <2>5. Settled(a, id) \in Attempt
        BY <2>2, <2>3, <2>4
    <2>6. Settled(a, id).cmd = a.cmd /\ Settled(a, id).addr = a.addr /\ Settled(a, id).out = o
          /\ Settled(a, id).confirmations = a.confirmations + 1
        BY <2>4
    <2> QED BY <1>2, <2>2, <2>3, <2>5, <2>6
<1> QED BY <1>1, <1>2

\* All that is said is reports.
LEMMA SaidTyped ==
    ASSUME TypeOK
    PROVE  /\ Sent \subseteq Report /\ Current \subseteq Report
           /\ Elements(up) \subseteq Report
           /\ NoReport \notin Said
           /\ \A r \in OutcomeOf(attempt) : attempt.out # NoOutcome /\ r = OutcomeReport(attempt)
<1>1. Elements(up) \subseteq Report
    BY DEF TypeOK, Elements
<1>2. Own(outgoing) \subseteq Report /\ Own(pending) \subseteq Report
    BY DEF TypeOK, Own
<1>3. attempt \in MaybeAttempt
    BY DEF TypeOK, MaybeAttempt
<1>4. OutcomeOf(attempt) \subseteq Report
    BY <1>3, OutcomeTyped DEF OutcomeOf
<1>5. \A r \in OutcomeOf(attempt) : attempt.out # NoOutcome /\ r = OutcomeReport(attempt)
    BY DEF OutcomeOf
<1> QED BY <1>1, <1>2, <1>4, <1>5, Nothings DEF Sent, Current, Said

\* The loop takes the current report, or goes to observe.
LEMMA StepSays ==
    ASSUME Step
    PROVE  /\ up' = up /\ Current' = Current
           /\ \/ mpc' = "publish" /\ Own(outgoing') \subseteq Current
              \/ mpc' = "observe" /\ outgoing' = outgoing /\ attempt.out = NoOutcome
    BY DEF Step, Current, Own, OutcomeOf, monitorVars

\* A new process says only the outcome in its file.
LEMMA NewProcessSays ==
    ASSUME NewProcess
    PROVE  /\ up' = <<>> /\ down' = <<>> /\ Sent' = {} /\ Current' = OutcomeOf(file')
           /\ attempt' = file' /\ pending' = NoReport /\ outgoing' = NoReport
    <1>1. up' = <<>> /\ down' = <<>> /\ attempt' = file' /\ pending' = NoReport /\ outgoing' = NoReport
        BY DEF NewProcess
    <1> QED BY <1>1, EmptyQueue DEF Sent, Current, Own, OutcomeOf

\* Publishing drops the report or puts it last.
LEMMA PublishSays ==
    ASSUME TypeInv, Publish
    PROVE  /\ outgoing' = NoReport /\ mpc' = "step" /\ Current' = Current /\ Sent' \subseteq Sent
           /\ outgoing \in Report /\ outgoing # NoReport
           /\ up' = up \/ up' = Append(up, outgoing)
           /\ up' \in Seq(Report) /\ Elements(up') \subseteq Sent
    <1>1. outgoing \in Report /\ outgoing # NoReport /\ up \in Seq(Report)
        BY Nothings DEF TypeInv, TypeOK, LoopInv, Publish
    <1>2. /\ outgoing' = NoReport /\ mpc' = "step" /\ UNCHANGED <<pending, attempt>>
          /\ up' = up \/ up' = Append(up, outgoing)
        BY DEF Publish, monitorVars
    <1>3. up' \in Seq(Report) /\ Elements(up') \subseteq Elements(up) \cup {outgoing}
        BY <1>1, <1>2, AppendReport
    <1>4. Elements(up') \subseteq Sent
        BY <1>1, <1>3 DEF Sent, Own
    <1>5. Sent' = Elements(up')
        BY <1>2 DEF Sent, Own
    <1> QED BY <1>1, <1>2, <1>3, <1>4, <1>5 DEF Current, OutcomeOf

\* An acknowledgement may end what is said.
LEMMA AcknowledgeSays ==
    ASSUME TypeOK, Acknowledge
    PROVE  /\ Sent' \subseteq Sent /\ Current' \subseteq Current
           /\ outgoing' = outgoing /\ (up' = up \/ up' = <<>>)
           /\ down # <<>> /\ (down' = Tail(down) \/ down' = <<>>)
    <1>1. /\ outgoing' = outgoing /\ (up' = up \/ up' = <<>>)
          /\ down # <<>> /\ (down' = Tail(down) \/ down' = <<>>)
          /\ pending' = pending \/ pending' = NoReport
          /\ attempt' = attempt \/ attempt' = NoAttempt
        BY DEF Acknowledge, EndSession, loopVars
    <1>2. Elements(up') \subseteq Elements(up)
        BY <1>1, EmptyQueue
    <1>3. OutcomeOf(attempt') \subseteq OutcomeOf(attempt)
        BY <1>1, Nothings DEF OutcomeOf
    <1>4. Own(pending') \subseteq Own(pending)
        BY <1>1 DEF Own
    <1> QED BY <1>1, <1>2, <1>3, <1>4 DEF Sent, Current

\* Cloud takes the first report of the connection.
LEMMA CloudSays ==
    ASSUME TypeOK, CloudStores
    PROVE  /\ Sent' \subseteq Sent /\ Current' = Current
           /\ up # <<>> /\ up' = Tail(up) /\ Head(up) \in Sent /\ outgoing' = outgoing
           /\ Head(up) \in Elements(up) /\ Elements(up') \subseteq Elements(up)
           /\ down' = Append(down, Head(up).id) /\ stored' = stored \cup {Head(up).id}
           /\ Head(up) \in Report
    <1>1. /\ up # <<>> /\ up' = Tail(up) /\ UNCHANGED <<outgoing, pending, attempt>>
          /\ down' = Append(down, Head(up).id) /\ stored' = stored \cup {Head(up).id}
        BY DEF CloudStores, monitorVars, loopVars
    <1>2. Head(up) \in Elements(up) /\ Elements(Tail(up)) \subseteq Elements(up) /\ Head(up) \in Report
        BY <1>1, TailReport DEF TypeOK
    <1> QED BY <1>1, <1>2 DEF Sent, Current

\* A new session drops the report that was waiting.
LEMMA NotifySays ==
    ASSUME NotifyControlReady
    PROVE  Sent' = Sent /\ Current' \subseteq Current /\ UNCHANGED <<up, down, outgoing, attempt>>
    <1>1. pending' = NoReport /\ UNCHANGED <<up, down, outgoing, attempt>>
        BY DEF NotifyControlReady, loopVars, wireVars
    <1> QED BY <1>1 DEF Sent, Current, Own, OutcomeOf

\* The end of a session drops what is in flight.
LEMMA BreakSays ==
    ASSUME Break
    PROVE  /\ Sent' \subseteq Sent /\ Current' = Current /\ up' = <<>> /\ down' = <<>>
           /\ outgoing' = outgoing
    <1>1. up' = <<>> /\ down' = <<>> /\ UNCHANGED <<outgoing, pending, attempt>>
        BY DEF Break, EndSession, monitorVars, loopVars
    <1> QED BY <1>1, EmptyQueue DEF Sent, Current, OutcomeOf

\* A new ordinary report is the loop's and the current one.
LEMMA ObservedSays ==
    ASSUME TypeInv, Observed
    PROVE  /\ up' = up /\ attempt = NoAttempt /\ attempt' = attempt /\ outgoing = NoReport
           /\ seen \in SeenType /\ seen' = NotSeen
           /\ \/ /\ mpc' = "step" /\ UNCHANGED <<announce, pending, outgoing, nextId>>
                 /\ Sent' = Sent /\ Current' = Current
              \/ /\ mpc' = "publish" /\ nextId \in Id /\ nextId' = nextId + 1 /\ announce' = FALSE
                 /\ pending' \in Report /\ pending' # NoReport /\ outgoing' = pending'
                 /\ pending'.id = nextId /\ pending'.cmd = Nobody /\ ~pending'.unchanged
                 /\ pending'.addr = seen.addr /\ pending'.cause = seen.cause
                 /\ Sent' = Sent \cup {pending'} /\ Current' = {pending'}
    <1>1. seen \in SeenType
        BY DEF TypeInv, TypeOK, LoopInv, SeenType, Observed
    <1>2. outgoing = NoReport /\ attempt = NoAttempt /\ UNCHANGED <<up, attempt>> /\ seen' = NotSeen
        BY DEF TypeInv, LoopInv, Observed, Ordinary
    <1>3. OutcomeOf(attempt) = {} /\ OutcomeOf(attempt') = {}
        BY <1>2, Nothings DEF OutcomeOf
    <1>4. CASE mpc' = "step" /\ UNCHANGED <<announce, pending, outgoing, nextId>>
        BY <1>1, <1>2, <1>4 DEF Sent, Current, OutcomeOf
    <1>5. CASE /\ nextId \in Id /\ nextId' = nextId + 1 /\ announce' = FALSE
               /\ pending' = [id |-> nextId, unchanged |-> FALSE, addr |-> seen.addr,
                              cmd |-> Nobody, cause |-> seen.cause]
               /\ outgoing' = pending' /\ mpc' = "publish"
        <2>1. pending' \in Report /\ pending'.id = nextId /\ pending'.cmd = Nobody
              /\ ~pending'.unchanged /\ pending'.addr = seen.addr /\ pending'.cause = seen.cause
            BY <1>1, <1>5 DEF Report, SeenType
        <2>2. pending' # NoReport
            BY <2>1, Nothings
        <2>3. Sent' = Sent \cup {pending'}
            BY <1>2, <1>5, <2>2 DEF Sent, Own
        <2>4. Current' = {pending'}
            BY <1>3, <2>2 DEF Current, Own
        <2> QED BY <1>1, <1>2, <1>5, <2>1, <2>2, <2>3, <2>4
    <1> QED BY <1>4, <1>5 DEF Observed

\* An observation settles the attempt, counts, or ends in a new process.
LEMMA SettleSays ==
    ASSUME TypeInv, SettleAttempt
    PROVE  /\ attempt \in Attempt /\ attempt.out = NoOutcome /\ Counted(attempt)
           /\ seen \in SeenType /\ nextId \in Id /\ outgoing = NoReport
           /\ Settled(attempt, nextId).out # NoOutcome => nextId' = nextId + 1
           /\ nextId' \in {nextId, nextId + 1}
           /\ \/ /\ file' = Settled(attempt, nextId) /\ attempt' = file' /\ UNCHANGED faults
                 /\ seen' = NotSeen
                 /\ UNCHANGED <<reported, pending, announce, handlerVars, netVars, session,
                                up, down, cloudVars>>
                 /\ \/ attempt'.out = NoOutcome /\ mpc' = "step" /\ outgoing' = outgoing
                    \/ /\ attempt'.out # NoOutcome /\ mpc' = "publish"
                       /\ outgoing' = OutcomeReport(attempt')
              \/ /\ file' \in {file, Settled(attempt, nextId)} /\ Fault("save")
                 /\ NewProcess
<1> DEFINE next == Settled(attempt, nextId)
<1>1. attempt \in Attempt /\ attempt.out = NoOutcome /\ Counted(attempt) /\ seen \in SeenType
      /\ nextId \in Id /\ outgoing = NoReport
    BY DEF TypeInv, TypeOK, LoopInv, SettleAttempt, SeenType
<1>2. PICK how \in SaveOutcome :
           /\ Save(next, how)
           /\ nextId' = IF next.out = NoOutcome THEN nextId ELSE nextId + 1
           /\ IF how = "ok"
              THEN /\ attempt' = next
                   /\ seen' = NotSeen
                   /\ mpc' = IF next.out = NoOutcome THEN "step" ELSE "publish"
                   /\ outgoing' = IF next.out = NoOutcome THEN outgoing ELSE OutcomeReport(next)
                   /\ UNCHANGED <<reported, pending, announce, loopUnchanged, up>>
              ELSE NewProcess
    BY DEF SettleAttempt
<1>3. CASE how = "ok"
    BY <1>1, <1>2, <1>3 DEF Save, loopUnchanged
<1>4. CASE how # "ok"
    BY <1>1, <1>2, <1>4 DEF Save
<1> QED BY <1>3, <1>4

\* Every step of the loop but its own end in a new process keeps the types.
LEMMA LoopTyped ==
    ASSUME TypeInv, Loop
    PROVE  TypeInv' \/ (SettleAttempt /\ NewProcess)
<1>0. attempt \in MaybeAttempt /\ file \in MaybeAttempt /\ outgoing \in MaybeReport
      /\ pending \in MaybeReport
    BY DEF TypeInv, TypeOK, MaybeAttempt, MaybeReport
<1> USE DEF TypeInv
<1>1. CASE Step
    <2>1. Own(outgoing') \subseteq Current \/ outgoing' = outgoing
        BY <1>1, StepSays
    <2>2. outgoing' \in MaybeReport /\ Said' \subseteq Said
        BY <1>0, <1>1, <2>1, SaidTyped, StepSays DEF Own, MaybeReport, Said, Sent
    <2>3. outgoing' # NoReport <=> mpc' = "publish"
        BY <1>0, <1>1, OutcomeTyped DEF Step, LoopInv
    <2>4. UNCHANGED <<file, attempt, seen, cause, moved>> /\ mpc' \in {"publish", "observe"}
          /\ (mpc' = "observe" => attempt.out = NoOutcome) /\ mpc = "step"
        BY <1>1 DEF Step, monitorVars, loopUnchanged, netVars
    <2>5. LoopInv'
        BY <2>2, <2>3, <2>4 DEF LoopInv, Causes, Counted
    <2>6. TypeOK'
        BY <1>1, <2>2, <2>4 DEF Step, TypeOK, MaybeReport, monitorVars, loopUnchanged, netVars,
                                handlerVars, cloudVars
    <2> QED BY <2>5, <2>6
<1>2. CASE Observe
    <2>1. UNCHANGED <<file, attempt, outgoing, pending, up, cause, moved>> /\ mpc = "observe"
          /\ mpc' = "settle" /\ seen' = [addr |-> addr, cause |-> cause]
        BY <1>2 DEF Observe, monitorVars, loopUnchanged, netVars
    <2>2. seen' \in SeenType /\ seen'.cause = cause
        BY <2>1 DEF TypeOK, SeenType
    <2>3. Said' = Said
        BY <2>1 DEF Said, Sent, Current, OutcomeOf
    <2>4. LoopInv'
        BY <2>1, <2>2, <2>3, Nothings DEF LoopInv, Causes, Counted
    <2>5. TypeOK'
        BY <1>2, <2>1, <2>2 DEF Observe, TypeOK, SeenType, monitorVars, loopUnchanged, netVars,
                                handlerVars, cloudVars
    <2> QED BY <2>4, <2>5
<1>3. CASE WaitForGrace
    <2>1. UNCHANGED <<file, attempt, outgoing, pending, up, cause, moved>> /\ mpc = "settle"
          /\ mpc' = "step" /\ seen' = NotSeen
        BY <1>3 DEF WaitForGrace, monitorVars, loopUnchanged, netVars
    <2>2. Said' = Said
        BY <2>1 DEF Said, Sent, Current, OutcomeOf
    <2>3. LoopInv'
        BY <2>1, <2>2, Nothings DEF LoopInv, Causes, Counted
    <2>4. TypeOK'
        BY <1>3, <2>1 DEF WaitForGrace, TypeOK, monitorVars, loopUnchanged, netVars,
                          handlerVars, cloudVars
    <2> QED BY <2>3, <2>4
<1>4. CASE Observed
    <2>1. UNCHANGED <<file, attempt, up, cause, moved>> /\ attempt = NoAttempt
        BY <1>4 DEF Observed, Ordinary, loopUnchanged, netVars
    <2>2. Said' \subseteq Said \cup Own(pending') /\ (pending' = pending \/ pending'.cause = seen.cause)
        BY <1>4, ObservedSays DEF Said, Own
    <2>3. \A r \in Said' : r.cause \in Causes
        <3>1. pending' # pending => pending'.cause \in Causes
            BY <2>2 DEF LoopInv
        <3>2. Own(pending) \subseteq Said
            BY DEF Said, Current
        <3> QED BY <2>2, <3>1, <3>2 DEF LoopInv, Own
    <2>4. outgoing' # NoReport <=> mpc' = "publish"
        BY <1>4, ObservedSays
    <2>5. seen' = NotSeen /\ mpc' \in {"step", "publish"} /\ pending' \in MaybeReport
          /\ outgoing' \in MaybeReport /\ announce' \in BOOLEAN
        BY <1>0, <1>4, ObservedSays DEF MaybeReport, TypeOK
    <2>6. nextId' \in 1..(MaxReports + 1)
        <3>1. nextId \in 1..(MaxReports + 1)
            BY DEF TypeOK
        <3>2. nextId' = nextId \/ (nextId \in Id /\ nextId' = nextId + 1)
            BY <1>4, ObservedSays
        <3> QED BY <3>1, <3>2, MaxReportsType DEF Id
    <2>7. LoopInv'
        BY <2>1, <2>3, <2>4, <2>5, Nothings DEF LoopInv, Causes, Counted
    <2>8. TypeOK'
        BY <1>4, <2>1, <2>5, <2>6 DEF Observed, TypeOK, MaybeReport, loopUnchanged, netVars,
                          handlerVars, cloudVars
    <2> QED BY <2>7, <2>8
<1>5. CASE Publish
    <2>1. UNCHANGED <<file, attempt, seen, cause, moved>> /\ mpc = "publish"
        BY <1>5 DEF Publish, monitorVars, loopUnchanged, netVars
    <2>2. LoopInv'
        BY <1>5, <2>1, PublishSays DEF LoopInv, Causes, Counted, Said
    <2>3. TypeOK'
        BY <1>5, <2>1, PublishSays DEF Publish, TypeOK, MaybeReport, monitorVars, loopUnchanged, netVars,
                          handlerVars, cloudVars
    <2> QED BY <2>2, <2>3
<1>6. CASE SettleAttempt /\ ~NewProcess
    <2> DEFINE next == Settled(attempt, nextId)
    <2>1. next \in Attempt /\ Counted(next)
        BY <1>6, SettleSays, SettledTyped
    <2>2. file' = next /\ attempt' = next /\ seen' = NotSeen
          /\ UNCHANGED <<reported, pending, announce, handlerVars, netVars, session, up, down, cloudVars>>
          /\ outgoing = NoReport /\ attempt.out = NoOutcome /\ nextId \in Id
        BY <1>6, SettleSays
    <2>3. \/ next.out = NoOutcome /\ mpc' = "step" /\ outgoing' = outgoing
          \/ next.out # NoOutcome /\ mpc' = "publish" /\ outgoing' = OutcomeReport(next)
        BY <1>6, <2>2, SettleSays
    <2> HIDE DEF next
    <2>4. next.out # NoOutcome => OutcomeReport(next) \in Report /\ OutcomeReport(next) # NoReport
                                  /\ OutcomeReport(next).cause = Nobody
        BY <2>1, OutcomeTyped DEF MaybeAttempt
    <2>5. \A r \in Said' : r.cause \in Causes
        <3>1. Said' \subseteq Said \cup Own(outgoing') \cup OutcomeOf(next)
            BY <2>2, <2>3 DEF Said, Sent, Current
        <3> QED BY <2>2, <2>3, <2>4, <3>1 DEF LoopInv, Own, OutcomeOf, Causes
    <2>6. outgoing' \in MaybeReport /\ (outgoing' # NoReport <=> mpc' = "publish")
        BY <2>2, <2>3, <2>4 DEF MaybeReport
    <2>7. nextId' \in 1..(MaxReports + 1)
        BY <1>6, SettleSays, MaxReportsType DEF Id
    <2>8. LoopInv'
        BY <2>1, <2>2, <2>3, <2>5, <2>6, Nothings DEF LoopInv, Causes, netVars
    <2>9. TypeOK'
        BY <2>1, <2>2, <2>3, <2>6, <2>7 DEF TypeOK, MaybeReport, netVars, handlerVars, cloudVars
    <2> QED BY <2>8, <2>9
<1> QED BY <1>1, <1>2, <1>3, <1>4, <1>5, <1>6 DEF Loop

\* A new process has its types.
LEMMA NewProcessTyped ==
    ASSUME TypeInv, NewProcess, file' \in MaybeAttempt, Counted(file'), nextId' \in 1..(MaxReports + 1)
    PROVE  TypeInv'
<1> USE DEF TypeInv
<1>1. \A r \in Said' : r.cause = Nobody
    <2>1. Said' = OutcomeOf(file')
        BY NewProcessSays DEF Said
    <2> QED BY <2>1, OutcomeTyped DEF OutcomeOf
<1>2. attempt' = file' /\ mpc' = "step" /\ seen' = NotSeen /\ outgoing' = NoReport
      /\ UNCHANGED <<cause, moved>>
    BY DEF NewProcess, netVars
<1>3. LoopInv'
    BY <1>1, <1>2, Nothings DEF LoopInv, Causes
<1>4. up' \in Seq(Report) /\ down' \in Seq(Id)
    BY NewProcessSays, EmptyQueue
<1>5. hpc' \in [Command -> {"new", "offered", "preflight", "arm", "trigger", "provider",
                            "cancel", "interrupted", "done"}]
    BY DEF NewProcess, TypeOK
<1>6. announce' \in BOOLEAN
    BY Zenon DEF NewProcess
<1>7. TypeOK'
    BY <1>2, <1>4, <1>5, <1>6 DEF NewProcess, TypeOK, MaybeAttempt, netVars, handlerVars, cloudVars
<1> QED BY <1>3, <1>7

\* A step of the session, of Cloud or of the network keeps the types.
LEMMA WorldTyped ==
    ASSUME TypeInv,
           \/ Connect \/ NotifyControlReady \/ Break \/ Acknowledge \/ CloudStores
           \/ \E a \in Address : NaturalChange(a) \/ \E c \in Command : ProviderChanges(c, a)
           \/ \E c \in Command : GraceElapses(c)
    PROVE  TypeInv'
<1> USE DEF TypeInv
<1>1. CASE Connect \/ \E c \in Command : GraceElapses(c)
    <2>1. UNCHANGED <<file, attempt, up, outgoing, pending, seen, mpc, cause, moved>>
        BY <1>1 DEF Connect, GraceElapses, monitorVars, loopVars, wireVars, netVars
    <2>2. LoopInv'
        BY <2>1 DEF LoopInv, Said, Sent, Current, OutcomeOf, Causes, Counted
    <2>3. TypeOK'
        BY <1>1 DEF Connect, GraceElapses, TypeOK, monitorVars, loopVars, wireVars, netVars,
                    handlerVars, cloudVars
    <2> QED BY <2>2, <2>3
<1>2. CASE NotifyControlReady
    <2>1. UNCHANGED <<file, attempt, outgoing, seen, mpc, cause, moved>>
        BY <1>2 DEF NotifyControlReady, loopVars, netVars
    <2>2. LoopInv'
        BY <1>2, <2>1, NotifySays DEF LoopInv, Said, Causes, Counted
    <2>3. TypeOK'
        BY <1>2 DEF NotifyControlReady, TypeOK, loopVars, wireVars, netVars, handlerVars, cloudVars
    <2> QED BY <2>2, <2>3
<1>3. CASE Break
    <2>1. UNCHANGED <<file, attempt, outgoing, seen, mpc, cause, moved>>
        BY <1>3 DEF Break, monitorVars, loopVars, netVars
    <2>2. LoopInv'
        BY <1>3, <2>1, BreakSays DEF LoopInv, Said, Causes, Counted
    <2>3. up' \in Seq(Report) /\ down' \in Seq(Id)
        BY <1>3, BreakSays, EmptyQueue
    <2>4. TypeOK'
        BY <1>3, <2>3 DEF Break, EndSession, TypeOK, monitorVars, loopVars, netVars, handlerVars, cloudVars
    <2> QED BY <2>2, <2>4
<1>4. CASE Acknowledge
    <2>1. UNCHANGED <<outgoing, seen, mpc, cause, moved>>
        BY <1>4 DEF Acknowledge, loopVars, netVars
    <2>2. attempt' \in {attempt, NoAttempt} /\ file' \in {file, NoAttempt}
        BY <1>4 DEF Acknowledge, Save
    <2>3. LoopInv'
        BY <1>4, <2>1, <2>2, AcknowledgeSays, Nothings DEF LoopInv, Said, Causes, Counted
    <2>4. up' \in Seq(Report) /\ down' \in Seq(Id)
        <3>1. up \in Seq(Report) /\ down \in Seq(Id)
            BY DEF TypeOK
        <3>2. down # <<>> /\ (down' = Tail(down) \/ down' = <<>>) /\ (up' = up \/ up' = <<>>)
            BY <1>4, AcknowledgeSays
        <3>3. Tail(down) \in Seq(Id)
            BY <3>1, <3>2, DownQueue
        <3> QED BY <3>1, <3>2, <3>3, EmptyQueue
    <2>5. reported' \in Address \cup {Nobody} /\ pending' \in MaybeReport
        <3>1. attempt.out # NoOutcome => attempt.out.addr \in Address
            BY Nothings DEF TypeOK, MaybeAttempt, Outcome
        <3>2. pending.id \in Id => pending.addr \in Address
            BY Nothings DEF TypeOK, MaybeReport, Report
        <3>3. Head(down) \in Id
            BY <1>4, DownQueue DEF TypeOK, Acknowledge
        <3> QED BY <1>4, <3>1, <3>2, <3>3 DEF Acknowledge, SettlesOutcome, SettlesPending, TypeOK, MaybeReport
    <2>6. session' \in {"down", "active", "ready"}
        BY <1>4 DEF Acknowledge, EndSession, TypeOK
    <2>7. TypeOK'
        BY <1>4, <2>1, <2>2, <2>4, <2>5, <2>6 DEF Acknowledge, TypeOK, MaybeReport, loopVars, netVars,
                                          handlerVars, cloudVars
    <2> QED BY <2>3, <2>7
<1>5. CASE CloudStores
    <2> DEFINE r == Head(up)
    <2>1. UNCHANGED <<file, attempt, outgoing, seen, mpc, cause, moved>>
        BY <1>5 DEF CloudStores, monitorVars, loopVars, netVars
    <2>2. LoopInv'
        BY <1>5, <2>1, CloudSays DEF LoopInv, Said, Causes, Counted
    <2>3. r \in Report /\ r \in Said
        BY <1>5, CloudSays DEF Said
    <2>4. up' \in Seq(Report) /\ down' \in Seq(Id) /\ stored' \subseteq Id
        <3>1. r.id \in Id
            BY <2>3 DEF Report
        <3> QED BY <1>5, <3>1, CloudSays, TailReport, DownQueue DEF TypeOK
    <2>5. cloudAddr' \in Address \cup {Nobody}
        BY <1>5, <2>3 DEF CloudStores, TypeOK, Report
    <2>6. outcome' \in [Command -> {"none", "changed", "unchanged", "mismatched"}]
        <3>1. CloudJudges(r) \in {"changed", "unchanged", "mismatched"}
            BY DEF CloudJudges
        <3>2. outcome' = outcome \/ outcome' = [outcome EXCEPT ![r.cmd] = CloudJudges(r)]
            BY <1>5 DEF CloudStores
        <3>3. outcome \in [Command -> {"none", "changed", "unchanged", "mismatched"}]
            BY DEF TypeOK
        <3> QED BY <3>1, <3>2, <3>3
    <2>7. misread' \subseteq moved
        <3>1. r.cause \in Causes
            BY <2>3 DEF LoopInv
        <3>2. misread' = misread \/ misread' = misread \cup ({r.cause} \ {Nobody})
            BY <1>5 DEF CloudStores
        <3>3. misread \subseteq moved
            BY DEF TypeOK
        <3> QED BY <3>1, <3>2, <3>3 DEF Causes
    <2> HIDE DEF r
    <2>8. TypeOK'
        BY <1>5, <2>1, <2>4, <2>5, <2>6, <2>7 DEF CloudStores, TypeOK, monitorVars, loopVars, netVars,
                                          handlerVars
    <2> QED BY <2>2, <2>8
<1>6. ASSUME NEW a \in Address, NaturalChange(a) \/ \E c \in Command : ProviderChanges(c, a)
      PROVE  TypeInv'
    <2>1. UNCHANGED <<file, attempt, up, outgoing, pending, seen, mpc>>
        BY <1>6 DEF NaturalChange, ProviderChanges, monitorVars, loopVars, wireVars
    <2>2. cause' \in Causes' /\ Causes \subseteq Causes' /\ moved' \subseteq triggered
          /\ moved \subseteq moved' /\ cause' \in Command \cup {Nobody}
        BY <1>6 DEF NaturalChange, ProviderChanges, Causes, TypeOK
    <2>3. Said' = Said
        BY <2>1 DEF Said, Sent, Current, OutcomeOf
    <2>4. LoopInv'
        BY <2>1, <2>2, <2>3 DEF LoopInv, Counted
    <2>5. TypeOK'
        BY <1>6, <2>1, <2>2 DEF NaturalChange, ProviderChanges, TypeOK, monitorVars, loopVars,
                               wireVars, handlerVars, cloudVars
    <2> QED BY <2>4, <2>5
<1> QED BY <1>1, <1>2, <1>3, <1>4, <1>5, <1>6

\* The attempt a command opens.
Opened(c) == [cmd |-> c, addr |-> expected[c], confirmations |-> 0, out |-> NoOutcome]

\* Arming finds the attempt open, opens it, or fails.
LEMMA ArmCases ==
    ASSUME TypeOK, NEW c \in Command, ArmChange(c)
    PROVE  /\ hpc[c] = "arm" /\ UNCHANGED <<expected, triggered>>
           /\ \/ /\ attempt.cmd = c /\ UNCHANGED <<file, attempt, faults, result>>
                 /\ hpc' = [hpc EXCEPT ![c] = "trigger"]
              \/ /\ Armable(c) /\ file' = Opened(c) /\ attempt' = Opened(c)
                 /\ UNCHANGED <<faults, result>>
                 /\ hpc' = [hpc EXCEPT ![c] = "trigger"]
                 /\ Opened(c) \in Attempt
              \/ /\ Armable(c) /\ file' \in {file, Opened(c)} /\ UNCHANGED attempt /\ Fault("save")
                 /\ Return(c, "failed")
                 /\ Opened(c) \in Attempt
              \/ UNCHANGED <<file, attempt, faults>> /\ Return(c, "failed")
<1>1. CASE attempt.cmd = c /\ attempt.addr = expected[c]
    BY <1>1 DEF ArmChange, Goto
<1>2. CASE ~(attempt.cmd = c /\ attempt.addr = expected[c]) /\ Armable(c)
    <2>1. expected[c] \in Address
        BY <1>2 DEF Armable, AddressSettled, TypeOK
    <2>2. Opened(c) \in Attempt
        BY <2>1 DEF Attempt, Opened
    <2>3. PICK how \in SaveOutcome :
                /\ Save(Opened(c), how)
                /\ IF Armed(how)
                   THEN attempt' = Opened(c) /\ Goto(c, "trigger") /\ UNCHANGED result
                   ELSE Return(c, "failed") /\ UNCHANGED attempt
        BY <1>2 DEF ArmChange, Opened
    <2>4. CASE how = "ok"
        BY <1>2, <2>2, <2>3, <2>4 DEF Save, Armed, Goto, ArmChange
    <2>5. CASE how # "ok"
        BY <1>2, <2>2, <2>3, <2>5 DEF Save, Armed, ArmChange
    <2> QED BY <2>4, <2>5
<1>3. CASE ~(attempt.cmd = c /\ attempt.addr = expected[c]) /\ ~Armable(c)
    BY <1>3 DEF ArmChange
<1> QED BY <1>1, <1>2, <1>3

\* An attempt just opened is open.
LEMMA OpenedOpen ==
    ASSUME NEW c \in Command
    PROVE  /\ Opened(c).cmd = c /\ Opened(c).addr = expected[c] /\ Opened(c).out = NoOutcome
           /\ Counted(Opened(c)) /\ OutcomeOf(Opened(c)) = {} /\ Opened(c).cmd # Nobody
           /\ Opened(c) # NoAttempt
BY NobodyFresh DEF Opened, Counted, Confirmations, OutcomeOf, NoAttempt

\* Cancelling closes the attempt, or says that it may not be closed.
LEMMA CancelCases ==
    ASSUME NEW c \in Command, CancelChange(c)
    PROVE  /\ hpc[c] = "cancel" /\ UNCHANGED <<expected, triggered>>
           /\ \/ /\ Cancellable(c) /\ file' = NoAttempt /\ attempt' = NoAttempt /\ UNCHANGED faults
                 /\ Return(c, "failed")
              \/ /\ Cancellable(c) /\ file' \in {file, NoAttempt} /\ UNCHANGED attempt /\ Fault("save")
                 /\ Return(c, "unknown")
              \/ UNCHANGED <<file, attempt, faults>> /\ Return(c, "unknown")
BY DEF CancelChange, Save

\* A step of a command's handler keeps the types.
LEMMA HandlerTyped ==
    ASSUME TypeInv, NEW c \in Command, CloudCreates(c) \/ Handler(c)
    PROVE  TypeInv'
<1> USE DEF TypeInv
<1>1. UNCHANGED handlerUnchanged
    BY DEF CloudCreates, Handler, Accept, Preflight, ArmChange, Trigger, ProviderReturns,
           CancelChange, Recover
<1>2. attempt' \in MaybeAttempt /\ file' \in MaybeAttempt /\ Counted(attempt') /\ Counted(file')
      /\ (attempt' = attempt \/ attempt'.out = NoOutcome)
    <2>1. CASE ArmChange(c)
        BY <2>1, ArmCases, OpenedOpen DEF TypeOK, LoopInv, MaybeAttempt
    <2>2. CASE CancelChange(c)
        BY <2>2, CancelCases, Nothings DEF TypeOK, LoopInv, MaybeAttempt
    <2>3. CASE ~ArmChange(c) /\ ~CancelChange(c)
        <3>1. UNCHANGED <<file, attempt>>
            BY <2>3 DEF CloudCreates, Handler, Accept, Preflight, Trigger, ProviderReturns, Recover
        <3> QED BY <3>1 DEF TypeOK, LoopInv, MaybeAttempt
    <2> QED BY <2>1, <2>2, <2>3
<1>3. LoopInv'
    <2>1. UNCHANGED <<outgoing, mpc, seen, cause, moved, up, pending>>
        BY <1>1 DEF handlerUnchanged, loopVars, netVars, wireVars
    <2>2. Said' \subseteq Said
        BY <1>2, <2>1 DEF Said, Sent, Current, OutcomeOf
    <2> QED BY <1>2, <2>1, <2>2 DEF LoopInv, Causes
<1>4. hpc' \in [Command -> {"new", "offered", "preflight", "arm", "trigger", "provider",
                            "cancel", "interrupted", "done"}]
    BY DEF TypeOK, CloudCreates, Handler, Accept, Preflight, ArmChange, Trigger, ProviderReturns,
           CancelChange, Recover, Goto, Return
<1>5. result' \in [Command -> {"none", "failed", "unknown", "triggered"}]
    BY DEF TypeOK, CloudCreates, Handler, Accept, Preflight, ArmChange, Trigger, ProviderReturns,
           CancelChange, Recover, Goto, Return
<1>6. expected' \in [Command -> Address \cup {Nobody}]
    BY DEF TypeOK, CloudCreates, Handler, Accept, Preflight, ArmChange, Trigger, ProviderReturns,
           CancelChange, Recover
<1>7. triggered' \subseteq Command /\ moved \subseteq triggered'
    <2>1. CASE ProviderReturns(c)
        <3>1. c \notin moved \/ triggered' = triggered
            BY <2>1 DEF ProviderReturns, TypeOK, Return, Goto
        <3> QED BY <2>1, <3>1 DEF ProviderReturns, TypeOK
    <2>2. CASE ~ProviderReturns(c)
        BY <2>2 DEF TypeOK, CloudCreates, Handler, Accept, Preflight, ArmChange, Trigger,
                    CancelChange, Recover
    <2> QED BY <2>1, <2>2
<1>8. TypeOK'
    BY <1>1, <1>2, <1>4, <1>5, <1>6, <1>7
    DEF TypeOK, MaybeAttempt, handlerUnchanged, loopVars, netVars, wireVars, cloudVars
<1> QED BY <1>3, <1>8

\* Every step keeps the types.
LEMMA StepTyped ==
    ASSUME TypeInv, [Next]_vars
    PROVE  TypeInv'
<1>1. CASE UNCHANGED vars
    <2>1. UNCHANGED <<attempt, file, up, outgoing, pending, mpc, seen, cause, moved>>
        BY <1>1 DEF vars, monitorVars, loopVars, netVars, wireVars
    <2>2. LoopInv'
        BY <2>1 DEF TypeInv, LoopInv, Said, Sent, Current, OutcomeOf, Causes, Counted
    <2>3. TypeOK'
        BY <1>1 DEF TypeInv, TypeOK, vars, monitorVars, loopVars, netVars, wireVars, handlerVars, cloudVars
    <2> QED BY <2>2, <2>3 DEF TypeInv
<1>2. CASE Crash
    BY <1>2, NewProcessTyped DEF Crash, TypeInv, TypeOK, LoopInv, MaybeAttempt, Counted
<1>3. CASE SettleAttempt /\ NewProcess
    <2>1. file' = file \/ file' = Settled(attempt, nextId)
        BY <1>3, SettleSays DEF NewProcess
    <2>2. Settled(attempt, nextId) \in Attempt /\ Counted(Settled(attempt, nextId))
        BY <1>3, SettleSays, SettledTyped
    <2>3. nextId' \in 1..(MaxReports + 1)
        BY <1>3, SettleSays, MaxReportsType DEF Id
    <2>4. file' \in MaybeAttempt /\ Counted(file')
        BY <2>1, <2>2 DEF TypeInv, TypeOK, LoopInv, MaybeAttempt
    <2> QED BY <1>3, <2>3, <2>4, NewProcessTyped
<1> QED BY <1>1, <1>2, <1>3, LoopTyped, WorldTyped, HandlerTyped DEF Next

\* Initially every variable has its type.
LEMMA InitTyped == Init => TypeInv /\ Said = {}
<1> SUFFICES ASSUME Init PROVE TypeInv /\ Said = {}
    OBVIOUS
<1>1. up = <<>> /\ outgoing = NoReport /\ pending = NoReport /\ attempt = NoAttempt
    BY DEF Init
<1>2. Said = {}
    BY <1>1, EmptyQueue, Nothings DEF Said, Sent, Current, Own, OutcomeOf
<1>3. LoopInv
    BY <1>2, Nothings DEF Init, LoopInv, Causes
<1>4. announce \in BOOLEAN
    BY Zenon DEF Init
<1>5. up \in Seq(Report) /\ down \in Seq(Id)
    BY EmptyQueue DEF Init
<1>6. nextId \in 1..(MaxReports + 1)
    BY MaxReportsType DEF Init
<1>7. TypeOK
    BY <1>4, <1>5, <1>6 DEF Init, TypeOK
<1> QED BY <1>2, <1>3, <1>7 DEF TypeInv

\* Every variable keeps its type: an attempt is never confirmed beyond its count, every
\* report in flight is one, and whatever Cloud takes for natural was caused by a command
\* whose provider was called.
THEOREM TypeCorrect == Spec => []TypeOK
<1>1. Init => TypeInv
    BY InitTyped
<1>2. TypeInv /\ [Next]_vars => TypeInv'
    BY StepTyped
<1>3. TypeInv => TypeOK
    BY DEF TypeInv
<1> QED BY <1>1, <1>2, <1>3, PTL DEF Spec

-----------------------------------------------------------------------------
(* The order of the reports. *)

\* One report at a time is current, and only an attempt in memory has an outcome on disk.
LinkInv ==
    /\ attempt # NoAttempt => pending = NoReport
    /\ file.out # NoOutcome => file = attempt

\* Reports are stored in the order of their ids: what is stored is no later than what
\* is in flight, and that no later than the current report; an id stands for one report;
\* only what is stored is acknowledged.
OrderInv ==
    /\ \A r \in Said : r.id < nextId
    /\ \A n \in stored : n < nextId
    /\ Ordered(up)
    /\ outgoing # NoReport => \A r \in Elements(up) : r.id <= outgoing.id
    /\ \A r \in Sent, s \in Current : r.id <= s.id
    /\ \A n \in stored, r \in Said : n <= r.id
    /\ \A r, s \in Said : r.id = s.id => r = s
    /\ Elements(down) \subseteq stored

\* The numbers that ids are.
LEMMA Numbers ==
    ASSUME TypeOK
    PROVE  /\ \A r \in Said : r.id \in Int
           /\ \A n \in stored : n \in Int
           /\ nextId \in Int
<1>1. \A n \in Id : n \in Int
    BY MaxReportsType DEF Id
<1>2. \A r \in Said : r.id \in Id
    BY SaidTyped DEF Report, Said
<1>3. stored \subseteq Id /\ nextId \in 1..(MaxReports + 1)
    BY DEF TypeOK
<1> QED BY <1>1, <1>2, <1>3, MaxReportsType

\* There is one current report at most.
LEMMA CurrentIsOne ==
    ASSUME LinkInv
    PROVE  \A r, s \in Current : r = s
<1>1. OutcomeOf(attempt) = {} \/ Own(pending) = {}
    BY Nothings DEF LinkInv, OutcomeOf, Own
<1> QED BY <1>1 DEF Current, OutcomeOf, Own

\* Saying less, or the current report again, keeps the order.
LEMMA SayAgain ==
    ASSUME TypeOK, TypeOK', OrderInv, LinkInv, Sent' \subseteq Said, Current' \subseteq Current,
           stored' = stored, nextId' \in {nextId, nextId + 1}, Ordered(up'),
           outgoing' # NoReport => \A r \in Elements(up') : r.id <= outgoing'.id,
           Elements(down') \subseteq stored
    PROVE  OrderInv'
<1>1. Said' \subseteq Said
    BY DEF Said
<1>2. \A r \in Said' : r.id < nextId' /\ \A n \in stored : n < nextId'
    BY <1>1, Numbers DEF OrderInv
<1>3. \A n \in stored : n < nextId'
    BY Numbers DEF OrderInv
<1>4. \A r \in Sent', s \in Current' : r.id <= s.id
    <2> SUFFICES ASSUME NEW r \in Sent', NEW s \in Current' PROVE r.id <= s.id
        OBVIOUS
    <2>1. CASE r \in Sent
        BY <2>1 DEF OrderInv
    <2>2. CASE r \in Current
        BY <2>2, CurrentIsOne, Numbers DEF Said
    <2> QED BY <2>1, <2>2 DEF Said
<1>5. \A n \in stored', r \in Said' : n <= r.id
    BY <1>1 DEF OrderInv
<1>6. \A r, s \in Said' : r.id = s.id => r = s
    BY <1>1 DEF OrderInv
<1> QED BY <1>2, <1>3, <1>4, <1>5, <1>6 DEF OrderInv

\* So does a new report, with a new id.
LEMMA SayNew ==
    ASSUME TypeOK, TypeOK', OrderInv, NEW n \in Report, n.id = nextId, nextId' = nextId + 1,
           Sent' \subseteq Sent \cup {n}, Current' \subseteq {n}, stored' = stored, Ordered(up'),
           Elements(up') \subseteq Elements(up), outgoing' # NoReport => outgoing' = n,
           Elements(down') \subseteq stored
    PROVE  OrderInv'
<1>1. Said' \subseteq Sent \cup {n} /\ Sent \subseteq Said /\ Elements(up) \subseteq Sent
    BY DEF Said, Sent
<1>2. \A r \in Sent : r.id \in Int /\ r.id < n.id
    BY <1>1, Numbers DEF OrderInv
<1>3. n.id \in Int /\ nextId \in Int /\ n.id < nextId'
    BY Numbers
<1>4. \A r \in Said' : r.id < nextId' /\ r.id <= n.id
    BY <1>1, <1>2, <1>3
<1>5. \A m \in stored : m \in Int /\ m < nextId /\ m < nextId'
    BY <1>3, Numbers DEF OrderInv
<1>6. \A m \in stored', r \in Said' : m <= r.id
    <2> SUFFICES ASSUME NEW m \in stored, NEW r \in Said' PROVE m <= r.id
        OBVIOUS
    <2>1. CASE r = n
        BY <1>3, <1>5, <2>1
    <2>2. CASE r \in Sent
        BY <1>1, <2>2 DEF OrderInv
    <2> QED BY <1>1, <2>1, <2>2
<1>7. \A r, s \in Said' : r.id = s.id => r = s
    <2> SUFFICES ASSUME NEW r \in Said', NEW s \in Said', r.id = s.id PROVE r = s
        OBVIOUS
    <2>1. CASE r \in Sent /\ s \in Sent
        BY <1>1, <2>1 DEF OrderInv
    <2>2. CASE r = n \/ s = n
        BY <1>1, <1>2, <1>3, <2>2
    <2> QED BY <1>1, <2>1, <2>2
<1>8. \A r \in Sent', s \in Current' : r.id <= s.id
    BY <1>4 DEF Said
<1>9. outgoing' # NoReport => \A r \in Elements(up') : r.id <= outgoing'.id
    BY <1>1, <1>2, <1>3
<1> QED BY <1>4, <1>5, <1>6, <1>7, <1>8, <1>9 DEF OrderInv

\* Every step keeps the links.
LEMMA LinksKept ==
    ASSUME TypeInv, LinkInv, [Next]_vars
    PROVE  LinkInv'
<1>1. CASE Crash
    BY <1>1, NewProcessSays, Nothings DEF Crash, LinkInv
<1>2. CASE SettleAttempt
    <2>1. CASE NewProcess
        BY <2>1, NewProcessSays DEF LinkInv
    <2>2. CASE ~NewProcess
        BY <1>2, <2>2, SettleSays, Nothings DEF LinkInv
    <2> QED BY <2>1, <2>2
<1>3. CASE Step \/ Observe \/ WaitForGrace \/ Publish \/ UNCHANGED vars
    <2>1. UNCHANGED <<file, attempt, pending>>
        BY <1>3 DEF Step, Observe, WaitForGrace, Publish, vars, monitorVars
    <2> QED BY <2>1 DEF LinkInv
<1>4. CASE Observed
    <2>1. attempt' = NoAttempt /\ UNCHANGED <<file, attempt>>
        BY <1>4 DEF Observed, Ordinary
    <2> QED BY <2>1 DEF LinkInv
<1>5. CASE NotifyControlReady
    BY <1>5 DEF NotifyControlReady, LinkInv
<1>6. CASE Acknowledge
    <2>1. pending' = pending \/ pending' = NoReport
        BY <1>6 DEF Acknowledge
    <2>2. \/ file' = NoAttempt /\ attempt' = NoAttempt
          \/ file' \in {file, NoAttempt} /\ attempt' = attempt
        BY <1>6 DEF Acknowledge, Save
    <2> QED BY <2>1, <2>2, Nothings DEF LinkInv
<1>7. CASE Connect \/ Break \/ CloudStores
    <2>1. UNCHANGED <<file, attempt, pending>>
        BY <1>7 DEF Connect, Break, CloudStores, monitorVars
    <2> QED BY <2>1 DEF LinkInv
<1>8. CASE \E a \in Address : NaturalChange(a) \/ \E c \in Command : ProviderChanges(c, a)
    <2>1. UNCHANGED <<file, attempt, pending>>
        BY <1>8 DEF NaturalChange, ProviderChanges, monitorVars
    <2> QED BY <2>1 DEF LinkInv
<1>9. ASSUME NEW c \in Command, GraceElapses(c) \/ CloudCreates(c) \/ Handler(c)
      PROVE  LinkInv'
    <2>0. pending' = pending
        BY <1>9 DEF GraceElapses, CloudCreates, Handler, Accept, Preflight, ArmChange, Trigger,
                    ProviderReturns, CancelChange, Recover, handlerUnchanged, monitorVars
    <2>1. CASE ArmChange(c)
        BY <2>0, <2>1, ArmCases, OpenedOpen DEF LinkInv, TypeInv, Armable, AddressSettled
    <2>2. CASE CancelChange(c)
        BY <2>0, <2>2, CancelCases, Nothings DEF LinkInv
    <2>3. CASE ~ArmChange(c) /\ ~CancelChange(c)
        <3>1. UNCHANGED <<file, attempt, pending>>
            BY <1>9, <2>3, <2>0 DEF GraceElapses, CloudCreates, Handler, Accept, Preflight, Trigger,
                              ProviderReturns, Recover, monitorVars
        <3> QED BY <3>1 DEF LinkInv
    <2> QED BY <2>1, <2>2, <2>3
<1> QED BY <1>1, <1>2, <1>3, <1>4, <1>5, <1>6, <1>7, <1>8, <1>9 DEF Next, Loop

\* The new outcome of a settled attempt is its report.
LEMMA SettledSays ==
    ASSUME TypeInv, LinkInv, SettleAttempt, file' = Settled(attempt, nextId), attempt' = file',
           Settled(attempt, nextId).out # NoOutcome
    PROVE  /\ OutcomeReport(attempt') \in Report /\ OutcomeReport(attempt').id = nextId
           /\ OutcomeOf(attempt') = {OutcomeReport(attempt')}
           /\ pending = NoReport
<1>1. Settled(attempt, nextId) \in MaybeAttempt
    BY SettleSays, SettledTyped DEF MaybeAttempt
<1>2. Settled(attempt, nextId).out.id = nextId
    BY SettleSays, SettledTyped
<1>3. attempt # NoAttempt
    BY SettleSays, Nothings
<1> QED BY <1>1, <1>2, <1>3, OutcomeTyped DEF OutcomeOf, LinkInv

\* The order of a new process that starts from the file as it was.
LEMMA RestartOrdered ==
    ASSUME TypeInv, TypeInv', LinkInv, OrderInv, NewProcess,
           OutcomeOf(file') \subseteq OutcomeOf(attempt), nextId' \in {nextId, nextId + 1}
    PROVE  OrderInv'
<1>1. Sent' \subseteq Said /\ Current' \subseteq Current
    BY NewProcessSays DEF Current
<1>2. stored' = stored /\ Ordered(up') /\ Elements(down') \subseteq stored /\ outgoing' = NoReport
    BY NewProcessSays, EmptyQueue DEF NewProcess, cloudVars
<1> QED BY <1>1, <1>2, SayAgain DEF TypeInv

\* The file of an open attempt, or of one the node also has in memory, says no more.
LEMMA FileSays ==
    ASSUME LinkInv, TypeOK
    PROVE  OutcomeOf(file) \subseteq OutcomeOf(attempt)
BY DEF LinkInv, OutcomeOf

\* Every step of the monitor's loop keeps the order.
LEMMA LoopOrdered ==
    ASSUME TypeInv, TypeInv', LinkInv, OrderInv, Loop
    PROVE  OrderInv'
<1>0. TypeOK /\ TypeOK' /\ Sent \subseteq Said /\ Elements(up) \subseteq Sent
    BY DEF TypeInv, Said, Sent
<1>1. CASE Step
    <2>1. UNCHANGED <<up, down, stored, nextId>> /\ outgoing = NoReport /\ Current' = Current
        BY <1>1, StepSays DEF Step, TypeInv, LoopInv, loopUnchanged, cloudVars
    <2>2. Own(outgoing') \subseteq Current
        BY <1>1, <2>1, StepSays DEF Own
    <2>3. Sent' \subseteq Said
        BY <2>1, <2>2 DEF Sent, Said
    <2>4. outgoing' # NoReport => \A r \in Elements(up') : r.id <= outgoing'.id
        BY <1>0, <2>1, <2>2 DEF OrderInv, Own
    <2> QED BY <1>0, <2>1, <2>3, <2>4, SayAgain DEF OrderInv
<1>2. CASE Observe \/ WaitForGrace
    <2>1. UNCHANGED <<up, down, stored, nextId, outgoing, pending, attempt>>
        BY <1>2 DEF Observe, WaitForGrace, monitorVars, loopUnchanged, cloudVars
    <2> QED BY <2>1 DEF OrderInv, Said, Sent, Current, OutcomeOf
<1>3. CASE Observed
    <2>1. UNCHANGED <<up, down, stored>>
        BY <1>3 DEF Observed, loopUnchanged, cloudVars
    <2>2. CASE UNCHANGED <<pending, outgoing, nextId>> /\ Sent' = Sent /\ Current' = Current
        BY <2>1, <2>2 DEF OrderInv, Said
    <2>3. CASE /\ nextId \in Id /\ nextId' = nextId + 1
               /\ pending' \in Report /\ pending' # NoReport /\ outgoing' = pending'
               /\ pending'.id = nextId
               /\ Sent' = Sent \cup {pending'} /\ Current' = {pending'}
        <3>1. PICK n \in Report : n = pending'
            BY <2>3
        <3> QED BY <1>0, <2>1, <2>3, <3>1, SayNew DEF OrderInv
    <2> QED BY <1>3, <2>2, <2>3, ObservedSays
<1>4. CASE Publish
    <2>1. UNCHANGED <<down, stored, nextId>>
        BY <1>4 DEF Publish, loopUnchanged, cloudVars
    <2>2. Ordered(up')
        <3>1. up' = up \/ up' = Append(up, outgoing)
            BY <1>4, PublishSays
        <3>2. up \in Seq(Report) /\ outgoing \in Report /\ outgoing # NoReport
            BY <1>0, <1>4, PublishSays DEF TypeOK
        <3>3. Ordered(up) /\ \A r \in Elements(up) : r.id <= outgoing.id
            BY <3>2 DEF OrderInv
        <3> QED BY <3>1, <3>2, <3>3, AppendReport
    <2>3. Sent' \subseteq Said /\ Current' = Current /\ outgoing' = NoReport
        BY <1>0, <1>4, PublishSays
    <2> QED BY <1>0, <2>1, <2>2, <2>3, SayAgain DEF OrderInv
<1>5. CASE SettleAttempt
    <2> DEFINE next == Settled(attempt, nextId)
    <2>1. nextId' \in {nextId, nextId + 1} /\ (next.out # NoOutcome => nextId' = nextId + 1)
        BY <1>5, SettleSays
    <2> HIDE DEF next
    <2>2. CASE NewProcess /\ file' = file
        <3>1. OutcomeOf(file') \subseteq OutcomeOf(attempt)
            BY <1>0, <2>2, FileSays
        <3> QED BY <2>1, <2>2, <3>1, RestartOrdered
    <2>3. CASE NewProcess /\ file' = next /\ next.out = NoOutcome
        <3>1. OutcomeOf(file') \subseteq OutcomeOf(attempt)
            BY <2>3 DEF OutcomeOf
        <3> QED BY <2>1, <2>3, <3>1, RestartOrdered
    <2>4. CASE NewProcess /\ file' = next /\ next.out # NoOutcome
        <3>1. PICK n \in Report : n = OutcomeReport(attempt') /\ n.id = nextId
                                  /\ OutcomeOf(attempt') = {n}
            BY <1>5, <2>4, NewProcessSays, SettledSays DEF next
        <3>2. Sent' = {} /\ Current' = {n} /\ outgoing' = NoReport
            BY <2>4, <3>1, NewProcessSays
        <3>3. stored' = stored /\ Ordered(up') /\ Elements(down') = {} /\ Elements(up') = {}
            BY <2>4, NewProcessSays, EmptyQueue DEF NewProcess, cloudVars
        <3> QED BY <1>0, <2>1, <2>4, <3>1, <3>2, <3>3, SayNew
    <2>5. CASE ~NewProcess
        <3>1. file' = next /\ attempt' = next /\ UNCHANGED <<up, down, pending, stored>>
              /\ outgoing = NoReport
            BY <1>5, <2>5, SettleSays DEF cloudVars, next
        <3>2. pending = NoReport
            BY <1>5, SettleSays, Nothings DEF LinkInv
        <3>3. CASE next.out = NoOutcome
            <4>1. outgoing' = outgoing
                BY <1>5, <2>5, <3>1, <3>3, SettleSays
            <4>2. Sent' = Sent /\ Current' = {}
                BY <3>1, <3>2, <3>3, <4>1 DEF Sent, Current, Own, OutcomeOf
            <4> QED BY <1>0, <2>1, <3>1, <4>1, <4>2, SayAgain DEF OrderInv
        <3>4. CASE next.out # NoOutcome
            <4>1. outgoing' = OutcomeReport(attempt')
                BY <1>5, <2>5, <3>1, <3>4, SettleSays
            <4>2. PICK n \in Report : n = OutcomeReport(attempt') /\ n.id = nextId
                                      /\ OutcomeOf(attempt') = {n}
                BY <1>5, <3>1, <3>4, SettledSays DEF next
            <4>3. Sent' \subseteq Sent \cup {n} /\ Current' = {n}
                BY <3>1, <3>2, <4>1, <4>2 DEF Sent, Current, Own
            <4> QED BY <1>0, <2>1, <3>1, <3>4, <4>1, <4>2, <4>3, SayNew DEF OrderInv
        <3> QED BY <3>3, <3>4
    <2>6. NewProcess => file' = file \/ file' = next
        BY <1>5, SettleSays DEF next
    <2>7. CASE NewProcess
        <3>1. CASE file' = file
            BY <2>2, <2>7, <3>1
        <3>2. CASE file' = next
            BY <2>3, <2>4, <2>7, <3>2
        <3> QED BY <2>6, <2>7, <3>1, <3>2
    <2> QED BY <2>5, <2>7
<1> QED BY <1>1, <1>2, <1>3, <1>4, <1>5 DEF Loop

\* Every step keeps the order.
LEMMA OrderKept ==
    ASSUME TypeInv, TypeInv', LinkInv, OrderInv, [Next]_vars
    PROVE  OrderInv'
<1>0. TypeOK /\ TypeOK' /\ Sent \subseteq Said /\ Elements(up) \subseteq Sent /\ Current \subseteq Said
    BY DEF TypeInv, Said, Sent
<1>1. CASE Crash
    BY <1>0, <1>1, FileSays, RestartOrdered DEF Crash, OutcomeOf
<1>2. CASE NotifyControlReady
    <2>1. UNCHANGED <<stored, nextId>>
        BY <1>2 DEF NotifyControlReady, cloudVars
    <2> QED BY <1>0, <1>2, <2>1, NotifySays, SayAgain DEF OrderInv
<1>3. CASE Break
    <2>1. UNCHANGED <<stored, nextId>>
        BY <1>3 DEF Break, cloudVars
    <2>2. Ordered(up') /\ Elements(up') = {} /\ Elements(down') = {}
        BY <1>3, BreakSays, EmptyQueue
    <2> QED BY <1>0, <1>3, <2>1, <2>2, BreakSays, SayAgain
<1>4. CASE Acknowledge
    <2>1. UNCHANGED <<stored, nextId, outgoing>>
        BY <1>4 DEF Acknowledge, cloudVars, loopVars
    <2>2. Ordered(up') /\ Elements(up') \subseteq Elements(up)
        BY <1>4, AcknowledgeSays, EmptyQueue, <1>0 DEF OrderInv
    <2>3. Elements(down') \subseteq stored
        <3>1. down \in Seq(Id) /\ down # <<>> /\ (down' = Tail(down) \/ down' = <<>>)
            BY <1>0, <1>4, AcknowledgeSays DEF TypeOK
        <3>2. Elements(Tail(down)) \subseteq Elements(down)
            BY <3>1, DownQueue
        <3> QED BY <3>1, <3>2, EmptyQueue DEF OrderInv
    <2> QED BY <1>0, <1>4, <2>1, <2>2, <2>3, AcknowledgeSays, SayAgain DEF OrderInv
<1>5. CASE CloudStores
    <2>1. UNCHANGED <<nextId, outgoing>> /\ up' = Tail(up) /\ up # <<>> /\ up \in Seq(Report)
          /\ down \in Seq(Id)
        BY <1>0, <1>5, CloudSays DEF CloudStores, loopVars, TypeOK
    <2>2. PICK h \in Sent : h = Head(up) /\ h \in Report /\ h.id \in Id
        BY <1>0, <1>5, CloudSays DEF Report
    <2>3. stored' = stored \cup {h.id} /\ down' = Append(down, h.id) /\ Sent' \subseteq Sent
          /\ Current' = Current /\ Elements(up') \subseteq Elements(up)
        BY <1>0, <1>5, <2>2, CloudSays
    <2>4. Said' \subseteq Said
        BY <2>3 DEF Said
    <2>5. Ordered(up') /\ \A r \in Elements(up) : h.id <= r.id
        BY <2>1, <2>2, TailReport DEF OrderInv
    <2>6. \A r \in Said : h.id <= r.id
        <3>1. \A r \in Current : h.id <= r.id
            BY <2>2 DEF OrderInv
        <3>2. \A r \in Own(outgoing) : h.id <= r.id
            <4>1. h \in Elements(up)
                BY <2>1, <2>2, TailReport
            <4> QED BY <4>1 DEF OrderInv, Own
        <3> QED BY <2>5, <3>1, <3>2 DEF Said, Sent
    <2>7. \A n \in stored', r \in Said' : n <= r.id
        BY <2>3, <2>4, <2>6 DEF OrderInv
    <2>8. \A n \in stored' : n < nextId'
        BY <1>0, <2>1, <2>2, <2>3 DEF OrderInv
    <2>9. Elements(down') \subseteq stored'
        BY <2>1, <2>2, <2>3, DownQueue DEF OrderInv
    <2>10. \A r \in Said' : r.id < nextId'
        BY <2>1, <2>4 DEF OrderInv
    <2>11. outgoing' # NoReport => \A r \in Elements(up') : r.id <= outgoing'.id
        BY <2>1, <2>3 DEF OrderInv
    <2>12. \A r \in Sent', s \in Current' : r.id <= s.id
        BY <2>3 DEF OrderInv
    <2>13. \A r, s \in Said' : r.id = s.id => r = s
        BY <2>4 DEF OrderInv
    <2> QED BY <2>5, <2>7, <2>8, <2>9, <2>10, <2>11, <2>12, <2>13 DEF OrderInv
<1>6. CASE Connect \/ UNCHANGED vars
           \/ \E a \in Address : NaturalChange(a) \/ \E c \in Command : ProviderChanges(c, a)
    <2>1. UNCHANGED <<up, down, outgoing, pending, attempt, stored, nextId>>
        BY <1>6 DEF Connect, vars, NaturalChange, ProviderChanges, monitorVars, loopVars, wireVars, cloudVars
    <2> QED BY <2>1 DEF OrderInv, Said, Sent, Current, OutcomeOf
<1>7. ASSUME NEW c \in Command, GraceElapses(c) \/ CloudCreates(c) \/ Handler(c)
      PROVE  OrderInv'
    <2>1. UNCHANGED <<up, down, outgoing, pending, stored, nextId>>
        BY <1>7 DEF GraceElapses, CloudCreates, Handler, Accept, Preflight, ArmChange, Trigger,
                    ProviderReturns, CancelChange, Recover, handlerUnchanged, monitorVars,
                    loopVars, wireVars, cloudVars
    <2>2. attempt' = attempt \/ attempt'.out = NoOutcome
        <3>1. CASE ArmChange(c)
            BY <1>0, <3>1, ArmCases, OpenedOpen
        <3>2. CASE CancelChange(c)
            BY <3>2, CancelCases, Nothings
        <3>3. CASE ~ArmChange(c) /\ ~CancelChange(c)
            BY <1>7, <3>3 DEF GraceElapses, CloudCreates, Handler, Accept, Preflight, Trigger,
                              ProviderReturns, Recover, monitorVars
        <3> QED BY <3>1, <3>2, <3>3
    <2>3. Sent' = Sent /\ Current' \subseteq Current
        BY <2>1, <2>2 DEF Sent, Current, OutcomeOf
    <2> QED BY <1>0, <2>1, <2>3, SayAgain DEF OrderInv
<1> QED BY <1>1, <1>2, <1>3, <1>4, <1>5, <1>6, <1>7, LoopOrdered DEF Next

-----------------------------------------------------------------------------
(* What Cloud makes of the reports. *)

\* Only an outcome says that nothing changed; a report still said that Cloud has stored
\* is the last one stored; an outcome Cloud has not stored is the open attempt's.
SaidInv ==
    /\ \A r \in Said : r.cmd = Nobody => ~r.unchanged
    /\ \A r \in Said : r.id \in stored /\ ~r.unchanged => cloudAddr = r.addr
    /\ \A r \in Said : r.id \notin stored /\ r.cmd # Nobody => r.id = attempt.out.id

\* Saying less to a Cloud that stores nothing.
LEMMA SaidAgain ==
    ASSUME SaidInv, Said' \subseteq Said, stored' = stored, cloudAddr' = cloudAddr,
           attempt'.out = attempt.out \/ \A r \in Said' : r.id \notin stored => r.cmd = Nobody
    PROVE  SaidInv'
BY DEF SaidInv

\* Saying one new report.
LEMMA SaidNew ==
    ASSUME TypeOK, OrderInv, SaidInv, NEW n, n.id = nextId, Said' \subseteq Sent \cup {n},
           stored' = stored, cloudAddr' = cloudAddr,
           n.cmd = Nobody => ~n.unchanged, n.cmd # Nobody => attempt'.out.id = nextId,
           attempt.out = NoOutcome
    PROVE  SaidInv'
<1>1. nextId \notin stored
    BY Numbers DEF OrderInv
<1>2. \A r \in Sent : r \in Said /\ r.id \in Id
    BY SaidTyped DEF Said, Report
<1>3. \A r \in Sent : r.id \notin stored => r.cmd = Nobody
    BY <1>2, Nothings DEF SaidInv
<1> QED BY <1>1, <1>2, <1>3 DEF SaidInv

\* An attempt without an outcome has none on its way.
LEMMA NoneOnItsWay ==
    ASSUME TypeOK, SaidInv, attempt.out = NoOutcome
    PROVE  \A r \in Said : r.id \notin stored => r.cmd = Nobody
BY SaidTyped, Nothings DEF SaidInv, Said, Report

\* Every step of the monitor's loop keeps what Cloud makes of the reports.
LEMMA LoopSaid ==
    ASSUME TypeInv, LinkInv, OrderInv, SaidInv, Loop
    PROVE  SaidInv'
<1>0. TypeOK
    BY DEF TypeInv
<1>1. CASE Step \/ Observe \/ WaitForGrace \/ Publish
    <2>1. UNCHANGED <<attempt, stored, cloudAddr>>
        BY <1>1 DEF Step, Observe, WaitForGrace, Publish, monitorVars, loopUnchanged, cloudVars
    <2>2. CASE Step
        <3>1. Sent' \subseteq Said /\ Current' = Current
            BY <2>2, StepSays DEF Sent, Said, Own
        <3> QED BY <2>1, <3>1, SaidAgain DEF Said
    <2>3. CASE Observe \/ WaitForGrace
        <3>1. UNCHANGED <<up, outgoing, pending, attempt>>
            BY <2>3 DEF Observe, WaitForGrace, monitorVars
        <3>2. Said' = Said
            BY <3>1 DEF Said, Sent, Current, OutcomeOf
        <3> QED BY <2>1, <3>2, SaidAgain
    <2>4. CASE Publish
        BY <2>1, <2>4, PublishSays, SaidAgain DEF Said
    <2> QED BY <1>1, <2>2, <2>3, <2>4
<1>2. CASE Observed
    <2>1. UNCHANGED <<attempt, stored, cloudAddr>> /\ attempt.out = NoOutcome
        BY <1>2, Nothings DEF Observed, Ordinary, loopUnchanged, cloudVars
    <2>2. CASE Sent' = Sent /\ Current' = Current
        BY <2>1, <2>2, SaidAgain DEF Said
    <2>3. CASE /\ pending' \in Report /\ pending'.id = nextId /\ pending'.cmd = Nobody
               /\ ~pending'.unchanged
               /\ Sent' = Sent \cup {pending'} /\ Current' = {pending'}
        <3>1. PICK n \in Report : n = pending'
            BY <2>3
        <3>2. Said' \subseteq Sent \cup {n}
            BY <2>3, <3>1 DEF Said
        <3> QED BY <1>0, <2>1, <2>3, <3>1, <3>2, SaidNew
    <2> QED BY <1>2, <2>2, <2>3, ObservedSays
<1>3. CASE SettleAttempt
    <2> DEFINE next == Settled(attempt, nextId)
    <2>1. UNCHANGED <<stored, cloudAddr>> /\ attempt.out = NoOutcome /\ attempt' = file'
        BY <1>3, SettleSays DEF NewProcess, cloudVars
    <2>2. CASE file' = next /\ next.out # NoOutcome
        <3>1. OutcomeReport(attempt') \in Report /\ OutcomeReport(attempt').id = nextId
              /\ OutcomeOf(attempt') = {OutcomeReport(attempt')} /\ pending = NoReport
            BY <1>3, <2>1, <2>2, SettledSays
        <3>2. PICK n \in Report : n = OutcomeReport(attempt')
            BY <3>1
        <3>3. n.id = nextId /\ OutcomeOf(attempt') = {n} /\ pending = NoReport
            BY <3>1, <3>2
        <3>4. attempt'.out.id = nextId /\ n.cmd # Nobody
            <4>1. next \in MaybeAttempt
                BY <1>3, SettleSays, SettledTyped DEF MaybeAttempt
            <4>2. OutcomeReport(next).id = next.out.id /\ OutcomeReport(next).cmd \in Command
                BY <2>2, <4>1, OutcomeTyped
            <4>3. n = OutcomeReport(next)
                BY <2>1, <2>2, <3>2
            <4> QED BY <2>1, <2>2, <3>3, <4>2, <4>3, NobodyFresh
        <3>5. Said' \subseteq Sent \cup {n}
            <4>1. CASE NewProcess
                BY <2>1, <3>3, <4>1, NewProcessSays DEF Said
            <4>2. CASE ~NewProcess
                <5>1. outgoing' \in {outgoing, n} /\ UNCHANGED <<up, pending>> /\ outgoing = NoReport
                    BY <1>3, <3>2, <4>2, SettleSays
                <5> QED BY <3>3, <5>1 DEF Said, Sent, Current, Own
            <4> QED BY <4>1, <4>2
        <3> QED BY <1>0, <2>1, <3>3, <3>4, <3>5, SaidNew
    <2>3. CASE file' = file \/ next.out = NoOutcome
        <3>1. Said' \subseteq Said
            <4>1. CASE NewProcess
                <5>1. OutcomeOf(file') \subseteq OutcomeOf(attempt)
                    BY <1>0, <1>3, <2>3, <4>1, SettleSays, FileSays DEF OutcomeOf
                <5> QED BY <4>1, <5>1, NewProcessSays DEF Said, Current
            <4>2. CASE ~NewProcess /\ next.out = NoOutcome
                <5>1. attempt' = next /\ outgoing' = outgoing /\ UNCHANGED <<up, pending>>
                    BY <1>3, <4>2, SettleSays
                <5> QED BY <4>2, <5>1 DEF Said, Sent, Current, OutcomeOf
            <4>3. CASE ~NewProcess /\ next.out # NoOutcome
                <5>1. file' = next /\ file' = file
                    BY <1>3, <2>3, <4>3, SettleSays
                <5>2. file = attempt
                    BY <4>3, <5>1 DEF LinkInv
                <5> QED BY <2>1, <4>3, <5>1, <5>2
            <4> QED BY <4>1, <4>2, <4>3
        <3>2. \A r \in Said' : r.id \notin stored => r.cmd = Nobody
            BY <1>0, <2>1, <3>1, NoneOnItsWay
        <3> QED BY <2>1, <3>1, <3>2, SaidAgain
    <2>4. file' = file \/ file' = next
        BY <1>3, SettleSays
    <2> QED BY <2>2, <2>3, <2>4
<1> QED BY <1>1, <1>2, <1>3 DEF Loop

\* A step of a handler says nothing, and opens or closes no outcome.
LEMMA HandlerSays ==
    ASSUME TypeOK, NEW c \in Command, GraceElapses(c) \/ CloudCreates(c) \/ Handler(c)
    PROVE  /\ UNCHANGED <<up, down, outgoing, pending, announce, reported, stored, cloudAddr, outcome,
                          nextId>>
           /\ attempt'.out = attempt.out
           /\ Sent' = Sent /\ Current' = Current /\ Said' = Said
<1>1. UNCHANGED <<up, down, outgoing, pending, announce, reported, stored, cloudAddr, outcome, nextId>>
    BY DEF GraceElapses, CloudCreates, Handler, Accept, Preflight, ArmChange, Trigger,
           ProviderReturns, CancelChange, Recover, handlerUnchanged, monitorVars,
           loopVars, wireVars, cloudVars
<1>2. attempt' = attempt \/ (attempt'.out = NoOutcome /\ attempt.out = NoOutcome)
    <2>1. CASE ArmChange(c)
        BY <2>1, ArmCases, OpenedOpen, Nothings DEF Armable
    <2>2. CASE CancelChange(c)
        BY <2>2, CancelCases, Nothings DEF Cancellable
    <2>3. CASE ~ArmChange(c) /\ ~CancelChange(c)
        BY <2>3 DEF GraceElapses, CloudCreates, Handler, Accept, Preflight, Trigger,
                    ProviderReturns, Recover, monitorVars
    <2> QED BY <2>1, <2>2, <2>3
<1>3. OutcomeOf(attempt') = OutcomeOf(attempt)
    BY <1>2 DEF OutcomeOf
<1> QED BY <1>1, <1>2, <1>3 DEF Sent, Current, Said

\* The acknowledgement of an outcome: it was stored.
LEMMA AcknowledgeCases ==
    ASSUME TypeOK, OrderInv, Acknowledge
    PROVE  /\ Head(down) \in stored /\ Head(down) \in Id
           /\ \/ /\ attempt.out # NoOutcome /\ attempt.out.id = Head(down)
                 /\ file' = NoAttempt /\ attempt' = NoAttempt /\ UNCHANGED faults
                 /\ reported' = attempt.out.addr /\ pending' = pending
              \/ /\ attempt.out # NoOutcome /\ attempt.out.id = Head(down)
                 /\ file' \in {file, NoAttempt} /\ Fault("save")
                 /\ UNCHANGED <<attempt, reported, pending>>
              \/ /\ pending.id = Head(down) /\ reported' = pending.addr /\ pending' = NoReport
                 /\ UNCHANGED <<file, attempt, faults>>
              \/ UNCHANGED <<file, attempt, faults, reported, pending>>
           /\ UNCHANGED <<announce, loopVars, handlerVars, netVars, cloudVars, nextId>>
<1>1. down \in Seq(Id) /\ down # <<>>
    BY DEF TypeOK, Acknowledge
<1>2. Head(down) \in Elements(down) /\ Head(down) \in Id
    BY <1>1, DownQueue
<1>3. Head(down) \in stored
    BY <1>2 DEF OrderInv
<1>4. UNCHANGED <<announce, loopVars, handlerVars, netVars, cloudVars, nextId>>
    BY DEF Acknowledge
<1>5. CASE SettlesOutcome(Head(down))
    <2>1. attempt.out # NoOutcome /\ attempt.out.id = Head(down) /\ pending' = pending
        BY <1>5 DEF SettlesOutcome, Acknowledge
    <2>2. \/ /\ file' = NoAttempt /\ attempt' = NoAttempt /\ UNCHANGED faults
             /\ reported' = attempt.out.addr
          \/ file' \in {file, NoAttempt} /\ Fault("save") /\ UNCHANGED <<attempt, reported>>
        BY <1>5 DEF Acknowledge, Save
    <2> QED BY <1>2, <1>3, <1>4, <2>1, <2>2
<1>6. CASE ~SettlesOutcome(Head(down))
    BY <1>2, <1>3, <1>4, <1>6 DEF Acknowledge, SettlesPending
<1> QED BY <1>5, <1>6

\* Cloud stores a report it has, an outcome of the open attempt, or an ordinary one.
LEMMA CloudCases ==
    ASSUME TypeOK, OrderInv, SaidInv, CloudStores, NEW h, h = Head(up)
    PROVE  /\ h \in Sent /\ h \in Report /\ stored' = stored \cup {h.id}
           /\ UNCHANGED <<file, attempt, pending, announce, reported, expected, hpc, result, triggered,
                          addr, cause, moved, mpc, seen, faults, nextId>>
           /\ Said' \subseteq Said /\ Sent' \subseteq Sent /\ Current' = Current
           /\ \/ /\ h.id \in stored /\ UNCHANGED <<cloudAddr, outcome, misread, stored>>
              \/ /\ h.id \notin stored /\ h.cmd = Nobody /\ cloudAddr' = h.addr
                 /\ UNCHANGED outcome /\ attempt.out.id # h.id
                 /\ misread' = misread \/ (h.addr # cloudAddr
                                            /\ misread' = misread \cup ({h.cause} \ {Nobody}))
              \/ /\ h.id \notin stored /\ attempt.out # NoOutcome /\ h = OutcomeReport(attempt)
                 /\ outcome' = [outcome EXCEPT ![attempt.cmd] = CloudJudges(h)]
                 /\ cloudAddr' = IF attempt.out.changed THEN attempt.out.addr ELSE cloudAddr
                 /\ attempt \in Attempt /\ UNCHANGED misread
<1>1. h \in Sent /\ h \in Report /\ stored' = stored \cup {h.id} /\ Sent' \subseteq Sent /\ Current' = Current
    BY CloudSays
<1>2. UNCHANGED <<file, attempt, pending, announce, reported, expected, hpc, result, triggered,
                  addr, cause, moved, mpc, seen, faults, nextId>>
    BY DEF CloudStores, monitorVars, loopVars, handlerVars, netVars
<1>3. Said' \subseteq Said /\ h \in Said
    BY <1>1 DEF Said
<1>4. CASE h.id \in stored
    <2>1. UNCHANGED <<cloudAddr, outcome, misread, stored>>
        BY <1>1, <1>4 DEF CloudStores
    <2> QED BY <1>1, <1>2, <1>3, <1>4, <2>1
<1>5. CASE h.id \notin stored /\ h.cmd = Nobody
    <2>1. ~h.unchanged
        BY <1>3, <1>5 DEF SaidInv
    <2>2. attempt.out.id # h.id
        <3> SUFFICES ASSUME attempt.out.id = h.id PROVE FALSE
            OBVIOUS
        <3>1. attempt \in MaybeAttempt /\ attempt.out # NoOutcome
            BY <1>1, Nothings DEF TypeOK, MaybeAttempt, Report
        <3>2. OutcomeReport(attempt) \in Said /\ OutcomeReport(attempt).id = h.id
              /\ OutcomeReport(attempt).cmd \in Command
            BY <3>1, OutcomeTyped DEF Said, Current, OutcomeOf
        <3> QED BY <1>3, <1>5, <3>2, NobodyFresh DEF OrderInv
    <2>3. cloudAddr' = h.addr /\ UNCHANGED outcome
          /\ (misread' = misread \/ (h.addr # cloudAddr /\ misread' = misread \cup ({h.cause} \ {Nobody})))
        BY <1>5, <2>1 DEF CloudStores
    <2> QED BY <1>1, <1>2, <1>3, <1>5, <2>2, <2>3
<1>6. CASE h.id \notin stored /\ h.cmd # Nobody
    <2>1. attempt.out.id = h.id
        BY <1>3, <1>6 DEF SaidInv
    <2>2. attempt \in MaybeAttempt /\ attempt.out # NoOutcome /\ attempt \in Attempt
        BY <1>1, <2>1, Nothings DEF TypeOK, MaybeAttempt, Report
    <2>3. OutcomeReport(attempt) \in Said /\ OutcomeReport(attempt).id = h.id
        BY <2>1, <2>2, OutcomeTyped DEF Said, Current, OutcomeOf
    <2>4. h = OutcomeReport(attempt)
        BY <1>3, <2>3 DEF OrderInv
    <2>5. h.cmd = attempt.cmd /\ h.addr = attempt.out.addr /\ h.unchanged = ~attempt.out.changed
        BY <2>2, <2>4, OutcomeTyped
    <2>6. outcome' = [outcome EXCEPT ![attempt.cmd] = CloudJudges(h)] /\ UNCHANGED misread
        BY <1>6, <2>5 DEF CloudStores
    <2>7. cloudAddr' = IF attempt.out.changed THEN attempt.out.addr ELSE cloudAddr
        BY <1>6, <2>5 DEF CloudStores
    <2> QED BY <1>1, <1>2, <1>3, <1>6, <2>2, <2>4, <2>6, <2>7
<1> QED BY <1>4, <1>5, <1>6

\* Every step keeps what Cloud makes of the reports.
LEMMA SaidKept ==
    ASSUME TypeInv, LinkInv, OrderInv, OrderInv', SaidInv, [Next]_vars
    PROVE  SaidInv'
<1>0. TypeOK
    BY DEF TypeInv
<1>1. CASE Crash
    <2>1. Said' \subseteq OutcomeOf(attempt) /\ UNCHANGED <<stored, cloudAddr>> /\ attempt' = file
        BY <1>0, <1>1, NewProcessSays, FileSays DEF Crash, NewProcess, cloudVars, Said, OutcomeOf
    <2>2. attempt'.out = attempt.out \/ Said' = {}
        BY <1>0, <1>1, <2>1, NewProcessSays DEF Crash, LinkInv, OutcomeOf, Said
    <2> QED BY <2>1, <2>2, SaidAgain DEF Said, Current
<1>2. CASE NotifyControlReady
    <2>1. UNCHANGED <<stored, cloudAddr, attempt>>
        BY <1>2 DEF NotifyControlReady, cloudVars
    <2> QED BY <1>2, <2>1, NotifySays, SaidAgain DEF Said
<1>3. CASE Break
    <2>1. UNCHANGED <<stored, cloudAddr, attempt>>
        BY <1>3 DEF Break, cloudVars, monitorVars
    <2> QED BY <1>3, <2>1, BreakSays, SaidAgain DEF Said
<1>4. CASE Acknowledge
    <2>1. UNCHANGED <<stored, cloudAddr>> /\ Said' \subseteq Said
        BY <1>0, <1>4, AcknowledgeCases, AcknowledgeSays DEF cloudVars, Said
    <2>2. attempt' = attempt \/ attempt.out.id \in stored
        BY <1>0, <1>4, AcknowledgeCases
    <2>3. attempt.out.id \in stored => \A r \in Said' : r.id \notin stored => r.cmd = Nobody
        BY <2>1 DEF SaidInv
    <2> QED BY <2>1, <2>2, <2>3, SaidAgain
<1>5. CASE CloudStores
    <2>1. PICK h : h = Head(up)
        OBVIOUS
    <2>2. h \in Said /\ stored' = stored \cup {h.id} /\ Said' \subseteq Said /\ attempt' = attempt
        BY <1>0, <1>5, <2>1, CloudCases DEF Said
    <2>3. CASE h.id \in stored
        BY <1>0, <1>5, <2>1, <2>2, <2>3, CloudCases DEF SaidInv
    <2>4. CASE h.id \notin stored
        <3>1. \A r \in Said' : r.id \in stored' => r = h
            <4> SUFFICES ASSUME NEW r \in Said', r.id \in stored' PROVE r = h
                OBVIOUS
            <4>1. r.id = h.id
                <5>1. CASE r.id \in stored
                    <6>1. r.id <= h.id
                        BY <2>2, <5>1 DEF OrderInv
                    <6>2. h.id <= r.id
                        BY <2>2 DEF OrderInv
                    <6>3. r.id \in Int /\ h.id \in Int
                        BY <1>0, <2>2, Numbers
                    <6> QED BY <6>1, <6>2, <6>3
                <5> QED BY <2>2, <5>1
            <4> QED BY <2>2, <4>1 DEF OrderInv
        <3>2. ~h.unchanged => cloudAddr' = h.addr
            <4>1. CASE cloudAddr' = h.addr
                BY <4>1
            <4>2. CASE attempt.out # NoOutcome /\ h = OutcomeReport(attempt)
                            /\ cloudAddr' = IF attempt.out.changed THEN attempt.out.addr ELSE cloudAddr
                <5>1. attempt \in MaybeAttempt
                    BY <1>0 DEF TypeOK, MaybeAttempt
                <5>2. h.addr = attempt.out.addr /\ h.unchanged = ~attempt.out.changed
                    BY <4>2, <5>1, OutcomeTyped
                <5> QED BY <4>2, <5>2
            <4> QED BY <1>0, <1>5, <2>1, <2>4, <4>1, <4>2, CloudCases
        <3>3. \A r \in Said' : r.cmd = Nobody => ~r.unchanged
            BY <2>2 DEF SaidInv
        <3>4. \A r \in Said' : r.id \notin stored' /\ r.cmd # Nobody => r.id = attempt'.out.id
            BY <2>2 DEF SaidInv
        <3> QED BY <3>1, <3>2, <3>3, <3>4 DEF SaidInv
    <2> QED BY <2>3, <2>4
<1>6. CASE Connect \/ UNCHANGED vars
           \/ \E a \in Address : NaturalChange(a) \/ \E c \in Command : ProviderChanges(c, a)
    <2>1. UNCHANGED <<up, outgoing, pending, attempt, stored, cloudAddr>>
        BY <1>6 DEF Connect, vars, NaturalChange, ProviderChanges, monitorVars, loopVars, wireVars, cloudVars
    <2>2. Said' = Said
        BY <2>1 DEF Said, Sent, Current, OutcomeOf
    <2> QED BY <2>1, <2>2, SaidAgain
<1>7. ASSUME NEW c \in Command, GraceElapses(c) \/ CloudCreates(c) \/ Handler(c)
      PROVE  SaidInv'
    BY <1>0, <1>7, HandlerSays, SaidAgain
<1> QED BY <1>1, <1>2, <1>3, <1>4, <1>5, <1>6, <1>7, LoopSaid DEF Next

-----------------------------------------------------------------------------
(* The attempt, its file and the handler of its command. *)

\* The file lacks no outcome but one Cloud has, and Cloud knows how the command of an
\* attempt ended exactly when it has stored its outcome.
FileInv ==
    /\ file = attempt \/ file = NoAttempt \/ attempt = NoAttempt
    /\ file = NoAttempt /\ attempt.out # NoOutcome => attempt.out.id \in stored
    /\ attempt.out # NoOutcome /\ ~attempt.out.changed => attempt.out.addr = attempt.addr
    /\ attempt # NoAttempt => (outcome[attempt.cmd] = "none" <=> attempt.out.id \notin stored)
    /\ attempt.out.id \in stored /\ ~attempt.out.changed => outcome[attempt.cmd] = "unchanged"
    /\ attempt = NoAttempt /\ file # NoAttempt => outcome[file.cmd] = "none"

\* A command has no attempt before it is armed, and has one in memory and on disk from
\* before its provider is called until Cloud knows how it ended.
Early == {"new", "offered", "preflight", "arm"}
HandlerInv == \A c \in Command :
    /\ hpc[c] \in Early => /\ attempt.cmd # c /\ file.cmd # c /\ c \notin triggered
                           /\ outcome[c] = "none"
    /\ hpc[c] = "cancel" => c \notin triggered
    /\ hpc[c] = "trigger" \/ c \in triggered =>
           outcome[c] # "none" \/ (attempt.cmd = c /\ file.cmd = c)
    /\ result[c] # "none" => hpc[c] = "done"

TrackInv == FileInv /\ HandlerInv

\* A step that changes none of their state.
LEMMA TrackUnchanged ==
    ASSUME TrackInv, UNCHANGED <<file, attempt, stored, outcome, hpc, triggered, result>>
    PROVE  TrackInv'
BY DEF TrackInv, FileInv, HandlerInv

\* A new process that starts from the file as it was.
LEMMA RestartTracks ==
    ASSUME TypeInv, LinkInv, OrderInv, TrackInv, NewProcess, file' = file
    PROVE  TrackInv'
<1>0. TypeOK
    BY DEF TypeInv
<1>1. attempt' = file /\ UNCHANGED <<stored, outcome, triggered, result>>
      /\ hpc' = [c \in Command |-> IF hpc[c] \in {"new", "offered", "done"} THEN hpc[c]
                                   ELSE "interrupted"]
    BY DEF NewProcess, cloudVars
<1>2. NoOutcome.id \notin stored
    BY <1>0, Nothings DEF TypeOK
<1>3. FileInv'
    <2>1. CASE file = attempt
        BY <1>1, <2>1 DEF TrackInv, FileInv
    <2>2. CASE file = NoAttempt
        BY <1>1, <1>2, <2>2, Nothings DEF TrackInv, FileInv
    <2>3. CASE attempt = NoAttempt /\ file # NoAttempt
        <3>1. file.out = NoOutcome /\ outcome[file.cmd] = "none"
            BY <2>3 DEF LinkInv, TrackInv, FileInv
        <3> QED BY <1>1, <1>2, <2>3, <3>1 DEF FileInv
    <2> QED BY <2>1, <2>2, <2>3 DEF TrackInv, FileInv
<1>4. HandlerInv'
    <2> SUFFICES ASSUME NEW c \in Command
                 PROVE  /\ hpc'[c] \in Early => /\ attempt'.cmd # c /\ file'.cmd # c
                                                /\ c \notin triggered' /\ outcome'[c] = "none"
                        /\ hpc'[c] = "cancel" => c \notin triggered'
                        /\ hpc'[c] = "trigger" \/ c \in triggered' =>
                               outcome'[c] # "none" \/ (attempt'.cmd = c /\ file'.cmd = c)
                        /\ result'[c] # "none" => hpc'[c] = "done"
        BY DEF HandlerInv
    <2>1. (hpc'[c] = hpc[c] /\ hpc[c] \in {"new", "offered", "done"}) \/ hpc'[c] = "interrupted"
        BY <1>1
    <2>2. hpc[c] = "done" => hpc'[c] = "done"
        BY <1>1
    <2> QED BY <1>1, <2>1, <2>2 DEF TrackInv, HandlerInv, Early
<1> QED BY <1>3, <1>4 DEF TrackInv

\* Settling keeps the attempt of its command, in memory and on disk.
LEMMA SettleTracks ==
    ASSUME TypeInv, LinkInv, OrderInv, TrackInv, SettleAttempt
    PROVE  TrackInv'
<1>0. TypeOK
    BY DEF TypeInv
<1> DEFINE next == Settled(attempt, nextId)
<1>1. CASE NewProcess /\ file' = file
    BY <1>1, RestartTracks
<1>2. CASE file' = next /\ attempt' = next
    <2>1. attempt \in Attempt /\ attempt.out = NoOutcome /\ next \in Attempt
          /\ next.cmd = attempt.cmd /\ next.addr = attempt.addr
          /\ (next.out # NoOutcome => next.out.id = nextId /\ next.out.addr = seen.addr
                                      /\ next.out.changed = (seen.addr # attempt.addr))
        BY SettleSays, SettledTyped
    <2>2. UNCHANGED <<stored, outcome, triggered, result>>
        BY SettleSays DEF NewProcess, handlerVars, cloudVars
    <2>3. nextId \notin stored /\ NoOutcome.id \notin stored
        BY <1>0, Numbers, Nothings DEF OrderInv, TypeOK
    <2>4. outcome[attempt.cmd] = "none" /\ attempt # NoAttempt
        BY <2>1, <2>3, Nothings DEF TrackInv, FileInv
    <2>5. next.out.id \notin stored
        BY <2>1, <2>3
    <2>6. \A c \in Command : \/ hpc'[c] = hpc[c]
                             \/ hpc'[c] = "interrupted" /\ hpc[c] \notin {"new", "offered", "done"}
        <3>1. hpc \in [Command -> {"new", "offered", "preflight", "arm", "trigger", "provider",
                                   "cancel", "interrupted", "done"}]
            BY <1>0 DEF TypeOK
        <3>2. hpc' = hpc \/ NewProcess
            BY SettleSays DEF handlerVars
        <3> QED BY <3>1, <3>2 DEF NewProcess
    <2> HIDE DEF next
    <2>7. FileInv'
        BY <1>2, <2>1, <2>2, <2>4, <2>5, Nothings DEF FileInv
    <2>8. HandlerInv'
        <3> SUFFICES ASSUME NEW c \in Command
                     PROVE  /\ hpc'[c] \in Early => /\ attempt'.cmd # c /\ file'.cmd # c
                                                    /\ c \notin triggered' /\ outcome'[c] = "none"
                            /\ hpc'[c] = "cancel" => c \notin triggered'
                            /\ hpc'[c] = "trigger" \/ c \in triggered' =>
                                   outcome'[c] # "none" \/ (attempt'.cmd = c /\ file'.cmd = c)
                            /\ result'[c] # "none" => hpc'[c] = "done"
            BY DEF HandlerInv
        <3> QED BY <1>2, <2>1, <2>2, <2>6 DEF TrackInv, HandlerInv, Early
    <2> QED BY <2>7, <2>8 DEF TrackInv
<1>3. \/ NewProcess /\ file' = file
      \/ file' = next /\ attempt' = next
    BY SettleSays, NewProcessSays
<1> QED BY <1>1, <1>2, <1>3

\* A handler that only moves on, to a place where its command need not be tracked
\* or is tracked already.
LEMMA MoveTracks ==
    ASSUME TypeOK, TrackInv, NEW c \in Command, NEW p, NEW r,
           UNCHANGED <<file, attempt, stored, outcome>>,
           hpc' = [hpc EXCEPT ![c] = p],
           result' = result \/ (result' = [result EXCEPT ![c] = r] /\ p = "done"),
           result' = result => hpc[c] # "done",
           triggered' \subseteq triggered \/ (triggered' = triggered \cup {c} /\ hpc[c] = "trigger"),
           p \in Early => hpc[c] \in Early,
           p = "cancel" => c \notin triggered',
           p # "trigger"
    PROVE  TrackInv'
<1>1. DOMAIN hpc = Command /\ DOMAIN result = Command
    BY DEF TypeOK
<1>2. FileInv'
    BY DEF TrackInv, FileInv
<1>3. HandlerInv'
    <2> SUFFICES ASSUME NEW d \in Command
                 PROVE  /\ hpc'[d] \in Early => /\ attempt'.cmd # d /\ file'.cmd # d
                                                /\ d \notin triggered' /\ outcome'[d] = "none"
                        /\ hpc'[d] = "cancel" => d \notin triggered'
                        /\ hpc'[d] = "trigger" \/ d \in triggered' =>
                               outcome'[d] # "none" \/ (attempt'.cmd = d /\ file'.cmd = d)
                        /\ result'[d] # "none" => hpc'[d] = "done"
        BY DEF HandlerInv
    <2>1. CASE d # c
        <3>1. hpc'[d] = hpc[d] /\ result'[d] = result[d] /\ (d \in triggered' => d \in triggered)
            BY <1>1, <2>1
        <3> QED BY <3>1 DEF TrackInv, HandlerInv
    <2>2. CASE d = c
        <3>1. hpc'[c] = p
            BY <1>1
        <3>2. hpc[c] \in Early => c \notin triggered'
            BY DEF TrackInv, HandlerInv, Early
        <3>3. c \in triggered' => c \in triggered \/ hpc[c] = "trigger"
            OBVIOUS
        <3>4. result'[c] # "none" => p = "done"
            <4>1. CASE result' = result
                BY <4>1 DEF TrackInv, HandlerInv
            <4>2. CASE p = "done"
                BY <4>2
            <4> QED BY <4>1, <4>2
        <3> QED BY <2>2, <3>1, <3>2, <3>3, <3>4 DEF TrackInv, HandlerInv
    <2> QED BY <2>1, <2>2
<1> QED BY <1>2, <1>3 DEF TrackInv

\* Arming writes the attempt of a command that has none, and no other command is
\* waiting for its own.
LEMMA ArmTracks ==
    ASSUME TypeInv, TrackInv, NEW c \in Command, ArmChange(c)
    PROVE  TrackInv'
<1>0. TypeOK
    BY DEF TypeInv
<1>1. UNCHANGED <<stored, outcome, triggered>> /\ hpc[c] = "arm"
    BY DEF ArmChange, handlerUnchanged, cloudVars
<1>2. attempt.cmd # c /\ file.cmd # c /\ c \notin triggered /\ outcome[c] = "none"
    BY <1>1 DEF TrackInv, HandlerInv, Early
<1>3. DOMAIN hpc = Command /\ DOMAIN result = Command
    BY <1>0 DEF TypeOK
<1>4. NoOutcome.id \notin stored /\ NoAttempt.cmd = Nobody /\ c # Nobody
    BY <1>0, Nothings, NobodyFresh DEF TypeOK
<1>5. Armable(c) => attempt = NoAttempt
    BY DEF Armable
<1>6. attempt = NoAttempt => \A d \in Command : d \in triggered \/ hpc[d] = "trigger" => outcome[d] # "none"
    BY <1>4, NobodyFresh DEF TrackInv, HandlerInv
<1>7. CASE /\ Armable(c) /\ file' = Opened(c) /\ attempt' = Opened(c) /\ UNCHANGED result
           /\ hpc' = [hpc EXCEPT ![c] = "trigger"]
    <2>1. PICK o : o = Opened(c)
        OBVIOUS
    <2>2. o.cmd = c /\ o.out = NoOutcome /\ o # NoAttempt
        BY <2>1, OpenedOpen
    <2>3. FileInv'
        BY <1>1, <1>2, <1>4, <1>7, <2>1, <2>2 DEF FileInv
    <2>4. HandlerInv'
        <3> SUFFICES ASSUME NEW d \in Command
                     PROVE  /\ hpc'[d] \in Early => /\ attempt'.cmd # d /\ file'.cmd # d
                                                    /\ d \notin triggered' /\ outcome'[d] = "none"
                            /\ hpc'[d] = "cancel" => d \notin triggered'
                            /\ hpc'[d] = "trigger" \/ d \in triggered' =>
                                   outcome'[d] # "none" \/ (attempt'.cmd = d /\ file'.cmd = d)
                            /\ result'[d] # "none" => hpc'[d] = "done"
            BY DEF HandlerInv
        <3>1. CASE d = c
            <4>1. hpc'[c] = "trigger" /\ result[c] = "none"
                BY <1>1, <1>3, <1>7 DEF TrackInv, HandlerInv
            <4> QED BY <1>7, <2>1, <2>2, <3>1, <4>1 DEF Early
        <3>2. CASE d # c
            <4>1. hpc'[d] = hpc[d]
                BY <1>3, <1>7, <3>2
            <4> QED BY <1>1, <1>5, <1>6, <1>7, <2>1, <2>2, <3>2, <4>1 DEF TrackInv, HandlerInv
        <3> QED BY <3>1, <3>2
    <2> QED BY <2>3, <2>4 DEF TrackInv
<1>8. CASE /\ file' = file \/ (Armable(c) /\ file' = Opened(c))
           /\ UNCHANGED attempt /\ Return(c, "failed")
    <2>1. PICK o : o = Opened(c)
        OBVIOUS
    <2>2. o.cmd = c /\ o.out = NoOutcome /\ o # NoAttempt
        BY <2>1, OpenedOpen
    <2>3. FileInv'
        <3>1. CASE file' = file
            BY <1>1, <1>8, <3>1 DEF TrackInv, FileInv
        <3>2. CASE Armable(c) /\ file' = o
            BY <1>1, <1>2, <1>4, <1>5, <1>8, <2>2, <3>2, Nothings DEF TrackInv, FileInv
        <3> QED BY <1>8, <2>1, <3>1, <3>2
    <2>4. HandlerInv'
        <3> SUFFICES ASSUME NEW d \in Command
                     PROVE  /\ hpc'[d] \in Early => /\ attempt'.cmd # d /\ file'.cmd # d
                                                    /\ d \notin triggered' /\ outcome'[d] = "none"
                            /\ hpc'[d] = "cancel" => d \notin triggered'
                            /\ hpc'[d] = "trigger" \/ d \in triggered' =>
                                   outcome'[d] # "none" \/ (attempt'.cmd = d /\ file'.cmd = d)
                            /\ result'[d] # "none" => hpc'[d] = "done"
            BY DEF HandlerInv
        <3>1. CASE d = c
            <4>1. hpc'[c] = "done"
                BY <1>3, <1>8 DEF Return, Goto
            <4> QED BY <1>1, <1>2, <3>1, <4>1 DEF Early
        <3>2. CASE d # c
            <4>1. hpc'[d] = hpc[d] /\ result'[d] = result[d]
                BY <1>3, <1>8, <3>2 DEF Return, Goto
            <4>2. CASE file' = file
                BY <1>1, <1>8, <4>1, <4>2 DEF TrackInv, HandlerInv
            <4>3. CASE Armable(c) /\ file' = o
                BY <1>1, <1>5, <1>6, <1>8, <2>2, <3>2, <4>1, <4>3 DEF TrackInv, HandlerInv
            <4> QED BY <1>8, <2>1, <4>2, <4>3
        <3> QED BY <3>1, <3>2
    <2> QED BY <2>3, <2>4 DEF TrackInv
<1> QED BY <1>0, <1>2, <1>7, <1>8, ArmCases

\* Cancelling ends the attempt of a command whose provider failed for certain.
LEMMA CancelTracks ==
    ASSUME TypeInv, TrackInv, NEW c \in Command, CancelChange(c)
    PROVE  TrackInv'
<1>0. TypeOK
    BY DEF TypeInv
<1>1. UNCHANGED <<stored, outcome, triggered>> /\ hpc[c] = "cancel" /\ c \notin triggered
    BY DEF CancelChange, handlerUnchanged, cloudVars, TrackInv, HandlerInv
<1>2. DOMAIN hpc = Command /\ DOMAIN result = Command
    BY <1>0 DEF TypeOK
<1>3. PICK r : Return(c, r)
    BY CancelCases
<1>4. /\ file' = file \/ file' = NoAttempt
      /\ attempt' = attempt \/ (attempt' = NoAttempt /\ file' = NoAttempt)
      /\ file' # file \/ attempt' # attempt => attempt.cmd = c /\ attempt.out = NoOutcome
    BY CancelCases DEF Cancellable
<1>5. NoOutcome.id \notin stored /\ NoAttempt.cmd = Nobody /\ NoAttempt.out = NoOutcome
      /\ Nobody \notin Command /\ NoOutcome.id = 0 /\ NoOutcome.changed = FALSE
    BY <1>0, Nothings, NobodyFresh DEF TypeOK
<1>6. FileInv'
    <2>1. CASE UNCHANGED <<file, attempt>>
        BY <1>1, <2>1 DEF TrackInv, FileInv
    <2>2. CASE attempt' = attempt /\ file' = NoAttempt /\ attempt.out = NoOutcome
        BY <1>1, <1>5, <2>2 DEF TrackInv, FileInv
    <2>3. CASE attempt' = NoAttempt /\ file' = NoAttempt
        BY <1>1, <1>5, <2>3 DEF FileInv
    <2> QED BY <1>4, <2>1, <2>2, <2>3
<1>7. HandlerInv'
    <2> SUFFICES ASSUME NEW d \in Command
                 PROVE  /\ hpc'[d] \in Early => /\ attempt'.cmd # d /\ file'.cmd # d
                                                /\ d \notin triggered' /\ outcome'[d] = "none"
                        /\ hpc'[d] = "cancel" => d \notin triggered'
                        /\ hpc'[d] = "trigger" \/ d \in triggered' =>
                               outcome'[d] # "none" \/ (attempt'.cmd = d /\ file'.cmd = d)
                        /\ result'[d] # "none" => hpc'[d] = "done"
        BY DEF HandlerInv
    <2>1. CASE d = c
        <3>1. hpc'[c] = "done"
            BY <1>2, <1>3 DEF Return, Goto
        <3> QED BY <1>1, <2>1, <3>1 DEF Early
    <2>2. CASE d # c
        <3>1. hpc'[d] = hpc[d] /\ result'[d] = result[d]
            BY <1>2, <1>3, <2>2 DEF Return, Goto
        <3>2. CASE UNCHANGED <<file, attempt>>
            BY <1>1, <3>1, <3>2 DEF TrackInv, HandlerInv
        <3>3. CASE attempt.cmd = c /\ (attempt' = attempt \/ attempt' = NoAttempt)
                                   /\ (file' = file \/ file' = NoAttempt)
            BY <1>1, <1>5, <2>2, <3>1, <3>3 DEF TrackInv, HandlerInv
        <3> QED BY <1>4, <3>2, <3>3
    <2> QED BY <2>1, <2>2
<1> QED BY <1>6, <1>7 DEF TrackInv

\* Cloud stores how a command ended when it stores the outcome of its attempt.
LEMMA CloudTracks ==
    ASSUME TypeInv, OrderInv, SaidInv, TrackInv, CloudStores
    PROVE  TrackInv'
<1>0. TypeOK
    BY DEF TypeInv
<1>1. PICK h : h = Head(up)
    OBVIOUS
<1>2. UNCHANGED <<file, attempt, hpc, triggered, result>> /\ stored' = stored \cup {h.id}
    BY <1>0, <1>1, CloudCases
<1>3. CASE UNCHANGED <<outcome, stored>>
    BY <1>2, <1>3, TrackUnchanged
<1>4. CASE UNCHANGED outcome /\ attempt.out.id # h.id
    <2>1. attempt'.out.id \in stored' <=> attempt.out.id \in stored
        BY <1>2, <1>4
    <2>2. FileInv'
        BY <1>2, <1>4, <2>1 DEF TrackInv, FileInv
    <2>3. HandlerInv'
        BY <1>2, <1>4 DEF TrackInv, HandlerInv
    <2> QED BY <2>2, <2>3 DEF TrackInv
<1>5. CASE /\ attempt.out # NoOutcome /\ h = OutcomeReport(attempt) /\ attempt \in Attempt
           /\ outcome' = [outcome EXCEPT ![attempt.cmd] = CloudJudges(h)]
    <2>1. h.id = attempt.out.id /\ h.unchanged = ~attempt.out.changed
        BY <1>5, OutcomeTyped DEF MaybeAttempt
    <2>2. attempt.cmd \in Command /\ attempt # NoAttempt
        BY <1>5, Nothings DEF Attempt
    <2>3. outcome \in [Command -> {"none", "changed", "unchanged", "mismatched"}]
        BY <1>0 DEF TypeOK
    <2>4. outcome'[attempt.cmd] # "none" /\ (~attempt.out.changed => outcome'[attempt.cmd] = "unchanged")
        BY <1>5, <2>1, <2>2, <2>3 DEF CloudJudges
    <2>5. \A d \in Command : d # attempt.cmd => outcome'[d] = outcome[d]
        BY <1>5, <2>3
    <2>6. FileInv'
        <3>1. attempt'.out.id \in stored'
            BY <1>2, <2>1
        <3> QED BY <1>2, <2>2, <2>4, <3>1 DEF TrackInv, FileInv
    <2>7. HandlerInv'
        BY <1>2, <2>4, <2>5 DEF TrackInv, HandlerInv
    <2> QED BY <2>6, <2>7 DEF TrackInv
<1> QED BY <1>0, <1>1, <1>3, <1>4, <1>5, CloudCases

\* An attempt ends in memory and on disk when Cloud has its outcome.
LEMMA AcknowledgeTracks ==
    ASSUME TypeInv, OrderInv, TrackInv, Acknowledge
    PROVE  TrackInv'
<1>0. TypeOK
    BY DEF TypeInv
<1>1. UNCHANGED <<stored, outcome, hpc, triggered, result>>
    BY DEF Acknowledge, handlerVars, cloudVars
<1>2. CASE UNCHANGED <<file, attempt>>
    BY <1>1, <1>2, TrackUnchanged
<1>3. CASE /\ attempt.out # NoOutcome /\ attempt.out.id \in stored
           /\ file' \in {file, NoAttempt} /\ (attempt' = attempt \/ (attempt' = NoAttempt /\ file' = NoAttempt))
    <2>1. NoOutcome.id \notin stored /\ NoAttempt.cmd = Nobody /\ NoAttempt.out = NoOutcome
          /\ Nobody \notin Command /\ NoOutcome.id = 0 /\ NoOutcome.changed = FALSE
        BY <1>0, Nothings, NobodyFresh DEF TypeOK
    <2>2. attempt # NoAttempt /\ outcome[attempt.cmd] # "none"
        BY <1>3, <2>1 DEF TrackInv, FileInv
    <2>3. FileInv'
        <3>1. CASE attempt' = attempt /\ file' = file
            BY <1>1, <3>1 DEF TrackInv, FileInv
        <3>2. CASE attempt' = attempt /\ file' = NoAttempt
            BY <1>1, <1>3, <2>2, <3>2 DEF TrackInv, FileInv
        <3>3. CASE attempt' = NoAttempt /\ file' = NoAttempt
            BY <1>1, <2>1, <3>3 DEF FileInv
        <3> QED BY <1>3, <3>1, <3>2, <3>3
    <2>4. HandlerInv'
        BY <1>1, <1>3, <2>1, <2>2 DEF TrackInv, HandlerInv
    <2> QED BY <2>3, <2>4 DEF TrackInv
<1> QED BY <1>0, <1>2, <1>3, AcknowledgeCases

\* Every step keeps the attempts tracked.
LEMMA TrackKept ==
    ASSUME TypeInv, LinkInv, OrderInv, SaidInv, TrackInv, [Next]_vars
    PROVE  TrackInv'
<1>0. TypeOK
    BY DEF TypeInv
<1>1. CASE Crash
    BY <1>1, RestartTracks DEF Crash
<1>2. CASE SettleAttempt
    BY <1>2, SettleTracks
<1>3. CASE \/ Step \/ Observe \/ WaitForGrace \/ Observed \/ Publish \/ Connect \/ NotifyControlReady
           \/ Break \/ UNCHANGED vars
    <2>1. UNCHANGED <<file, attempt, stored, outcome, hpc, triggered, result>>
        BY <1>3 DEF Step, Observe, WaitForGrace, Observed, Publish, Connect, NotifyControlReady, Break,
                    vars, monitorVars, handlerVars, cloudVars, loopUnchanged
    <2> QED BY <2>1, TrackUnchanged
<1>4. CASE Acknowledge
    BY <1>4, AcknowledgeTracks
<1>5. CASE CloudStores
    BY <1>5, CloudTracks
<1>6. CASE \/ \E a \in Address : NaturalChange(a) \/ \E c \in Command : ProviderChanges(c, a)
           \/ \E c \in Command : GraceElapses(c)
    <2>1. UNCHANGED <<file, attempt, stored, outcome, hpc, triggered, result>>
        BY <1>6 DEF NaturalChange, ProviderChanges, GraceElapses, monitorVars, handlerVars, cloudVars
    <2> QED BY <2>1, TrackUnchanged
<1>7. ASSUME NEW c \in Command, CloudCreates(c) \/ Handler(c)
      PROVE  TrackInv'
    <2>1. CASE ArmChange(c)
        BY <2>1, ArmTracks
    <2>2. CASE CancelChange(c)
        BY <2>2, CancelTracks
    <2>3. CASE CloudCreates(c) \/ Accept(c) \/ Preflight(c) \/ Trigger(c) \/ ProviderReturns(c) \/ Recover(c)
        <3>1. UNCHANGED <<file, attempt, stored, outcome>>
            BY <2>3 DEF CloudCreates, Accept, Preflight, Trigger, ProviderReturns, Recover,
                        handlerUnchanged, cloudVars
        <3>2. CASE CloudCreates(c)
            BY <1>0, <3>1, <3>2, MoveTracks DEF CloudCreates, Goto, Early
        <3>3. CASE Accept(c)
            BY <1>0, <3>1, <3>3, MoveTracks DEF Accept, Goto, Early
        <3>4. CASE Preflight(c) /\ Return(c, "failed")
            BY <1>0, <3>1, <3>4, MoveTracks DEF Preflight, Return, Goto, Early
        <3>5. CASE Preflight(c) /\ Goto(c, "arm") /\ UNCHANGED result
            BY <1>0, <3>1, <3>5, MoveTracks DEF Preflight, Goto, Early
        <3>6. CASE Trigger(c)
            BY <1>0, <3>1, <3>6, MoveTracks DEF Trigger, Goto, Early
        <3>7. CASE ProviderReturns(c)
            <4>1. triggered' = IF hpc'[c] = "cancel" THEN triggered \ {c} ELSE triggered
                BY <3>7 DEF ProviderReturns
            <4>2. hpc[c] = "provider" /\ c \in DOMAIN hpc
                BY <1>0, <3>7 DEF ProviderReturns, TypeOK
            <4>3. CASE Goto(c, "cancel") /\ UNCHANGED result
                <5>1. hpc'[c] = "cancel"
                    BY <4>2, <4>3 DEF Goto
                <5>2. c \notin triggered' /\ triggered' \subseteq triggered
                    BY <4>1, <5>1
                <5> QED BY <1>0, <3>1, <4>2, <4>3, <5>2, MoveTracks DEF Goto, Early
            <4>4. ASSUME NEW r, Return(c, r) PROVE TrackInv'
                <5>1. triggered' \subseteq triggered
                    BY <4>1
                <5> QED BY <1>0, <3>1, <4>2, <4>4, <5>1, MoveTracks DEF Return, Goto, Early
            <4> QED BY <3>7, <4>3, <4>4 DEF ProviderReturns
        <3>8. CASE Recover(c)
            BY <1>0, <3>1, <3>8, MoveTracks DEF Recover, Return, Goto, Early
        <3> QED BY <2>3, <3>2, <3>3, <3>4, <3>5, <3>6, <3>7, <3>8 DEF Preflight
    <2> QED BY <1>7, <2>1, <2>2, <2>3 DEF Handler
<1> QED BY <1>1, <1>2, <1>3, <1>4, <1>5, <1>6, <1>7 DEF Next, Loop

-----------------------------------------------------------------------------
(* What Cloud holds while nothing is owed. *)

\* While an attempt is open Cloud has everything that was sent before it, so that the
\* address both agreed on stays until the outcome; without one, Cloud has everything
\* once nothing is owed to it.
StoredInv ==
    /\ ~pending.unchanged
    /\ attempt # NoAttempt => \A r \in Sent : r.id \notin stored => r.id = attempt.out.id
    /\ attempt = NoAttempt /\ ~announce /\ pending = NoReport =>
           cloudAddr = reported /\ \A r \in Sent : r.id \in stored
    /\ attempt # NoAttempt /\ ~announce =>
           /\ reported = attempt.addr
           /\ cloudAddr = reported \/ (attempt.out.changed /\ attempt.out.id \in stored)

\* A step that sends at most what is already said.
LEMMA StoredAgain ==
    ASSUME TypeOK, LinkInv, StoredInv, Sent' \subseteq Said,
           UNCHANGED <<attempt, announce, pending, reported, stored, cloudAddr>>
    PROVE  StoredInv'
<1>1. attempt # NoAttempt => \A r \in Current : r.id = attempt.out.id
    <2> SUFFICES ASSUME attempt # NoAttempt, NEW r \in Current PROVE r.id = attempt.out.id
        OBVIOUS
    <2>1. r \in OutcomeOf(attempt) /\ attempt \in MaybeAttempt
        BY DEF LinkInv, Current, Own, TypeOK, MaybeAttempt
    <2>2. attempt.out # NoOutcome /\ r = OutcomeReport(attempt)
        BY <2>1 DEF OutcomeOf
    <2> QED BY <2>1, <2>2, OutcomeTyped
<1>2. attempt = NoAttempt /\ pending = NoReport => Current = {}
    BY Nothings DEF Current, Own, OutcomeOf
<1> QED BY <1>1, <1>2 DEF StoredInv, Said

\* While an attempt has no outcome, nothing is on its way.
LEMMA OpenIsQuiet ==
    ASSUME TypeOK, StoredInv, attempt # NoAttempt, attempt.out = NoOutcome
    PROVE  \A r \in Sent : r.id \in stored
<1>1. \A r \in Sent : r.id \in Id
    BY SaidTyped DEF Report
<1> QED BY <1>1, Nothings DEF StoredInv

\* What Cloud stores is the outcome of the open attempt, or an ordinary report while
\* there is none.
LEMMA CloudStored ==
    ASSUME TypeInv, OrderInv, LinkInv, SaidInv, StoredInv, CloudStores
    PROVE  StoredInv'
<1>0. TypeOK
    BY DEF TypeInv
<1>1. PICK h : h = Head(up)
    OBVIOUS
<1>2. /\ UNCHANGED <<attempt, pending, announce, reported>> /\ stored' = stored \cup {h.id}
      /\ Sent' \subseteq Sent /\ h \in Sent
    BY <1>0, <1>1, CloudCases
<1>3. CASE UNCHANGED <<cloudAddr, stored>>
    BY <1>0, <1>2, <1>3, StoredAgain DEF Said
<1>4. CASE h.id \notin stored /\ attempt.out.id # h.id
    <2>1. attempt = NoAttempt
        BY <1>2, <1>4 DEF StoredInv
    <2>2. announce \/ pending # NoReport
        BY <1>2, <1>4, <2>1 DEF StoredInv
    <2> QED BY <1>2, <2>1, <2>2 DEF StoredInv
<1>5. CASE /\ attempt.out # NoOutcome /\ h = OutcomeReport(attempt) /\ attempt \in Attempt
           /\ cloudAddr' = IF attempt.out.changed THEN attempt.out.addr ELSE cloudAddr
    <2>1. h.id = attempt.out.id
        BY <1>5, OutcomeTyped DEF MaybeAttempt
    <2>2. attempt # NoAttempt
        BY <1>5, Nothings
    <2>3. CASE attempt.out.changed
        BY <1>2, <2>1, <2>2, <2>3 DEF StoredInv
    <2>4. CASE ~attempt.out.changed
        BY <1>2, <1>5, <2>1, <2>2, <2>4 DEF StoredInv
    <2> QED BY <2>3, <2>4
<1> QED BY <1>0, <1>1, <1>3, <1>4, <1>5, CloudCases

\* An acknowledgement of what is current says that Cloud has everything.
LEMMA AcknowledgeStored ==
    ASSUME TypeInv, OrderInv, LinkInv, SaidInv, TrackInv, StoredInv, Acknowledge
    PROVE  StoredInv'
<1>0. TypeOK
    BY DEF TypeInv
<1>1. UNCHANGED <<announce, stored, cloudAddr>> /\ Sent' \subseteq Sent
    BY <1>0, AcknowledgeSays DEF Acknowledge, cloudVars
<1>2. \A s \in Current : s.id \in stored => \A r \in Sent : r.id \in stored
    <2> SUFFICES ASSUME NEW s \in Current, s.id \in stored, NEW r \in Sent PROVE r.id \in stored
        OBVIOUS
    <2>1. r.id <= s.id /\ s.id <= r.id
        BY DEF OrderInv, Said
    <2>2. r.id \in Int /\ s.id \in Int
        BY <1>0, Numbers DEF Said
    <2> QED BY <2>1, <2>2
<1>3. CASE UNCHANGED <<attempt, reported, pending>>
    BY <1>0, <1>1, <1>3, StoredAgain DEF Said
<1>4. CASE /\ attempt.out # NoOutcome /\ attempt.out.id \in stored
           /\ attempt' = NoAttempt /\ reported' = attempt.out.addr /\ pending' = pending
    <2>1. attempt \in MaybeAttempt
        BY <1>0 DEF TypeOK, MaybeAttempt
    <2>2. attempt # NoAttempt
        BY <1>4, <2>1, Nothings
    <2>3. PICK o : o = OutcomeReport(attempt)
        OBVIOUS
    <2>4. o \in Current /\ o \in Said /\ o.id \in stored
        BY <1>4, <2>1, <2>3, OutcomeTyped DEF Current, Said, OutcomeOf
    <2>5. \A r \in Sent : r.id \in stored
        BY <1>2, <2>4
    <2>6. CASE attempt.out.changed
        <3>1. ~o.unchanged /\ o.addr = attempt.out.addr
            BY <1>4, <2>1, <2>3, <2>6, OutcomeTyped
        <3>2. cloudAddr = attempt.out.addr
            BY <2>4, <3>1 DEF SaidInv
        <3> QED BY <1>1, <1>4, <2>5, <3>2 DEF StoredInv
    <2>7. CASE ~attempt.out.changed
        <3>1. attempt.out.addr = attempt.addr
            BY <1>4, <2>7 DEF TrackInv, FileInv
        <3>2. ~announce => cloudAddr = attempt.addr
            BY <2>2, <2>7 DEF StoredInv
        <3> QED BY <1>1, <1>4, <2>5, <3>1, <3>2 DEF StoredInv
    <2> QED BY <2>6, <2>7
<1>5. CASE /\ pending.id \in stored /\ reported' = pending.addr /\ pending' = NoReport
           /\ UNCHANGED attempt
    <2>1. pending \in MaybeReport /\ pending # NoReport
        BY <1>0, <1>5, Nothings DEF TypeOK, MaybeReport
    <2>2. pending \in Current /\ pending \in Said
        BY <2>1 DEF Current, Said, Own
    <2>3. \A r \in Sent : r.id \in stored
        BY <1>2, <1>5, <2>2
    <2>4. cloudAddr = pending.addr
        BY <1>5, <2>2 DEF SaidInv, StoredInv
    <2>5. attempt = NoAttempt
        BY <2>1 DEF LinkInv
    <2>6. ~pending'.unchanged
        BY <1>5 DEF NoReport
    <2> QED BY <1>1, <1>5, <2>3, <2>4, <2>5, <2>6 DEF StoredInv
<1> QED BY <1>0, <1>3, <1>4, <1>5, AcknowledgeCases

\* Every step keeps what Cloud holds.
LEMMA StoredKept ==
    ASSUME TypeInv, LinkInv, OrderInv, SaidInv, TrackInv, StoredInv, [Next]_vars
    PROVE  StoredInv'
<1>0. TypeOK /\ attempt \in MaybeAttempt
    BY DEF TypeInv, TypeOK, MaybeAttempt
<1>1. CASE NewProcess
    <2>1. announce' = TRUE /\ pending' = NoReport /\ Sent' = {}
        BY <1>1, NewProcessSays DEF NewProcess
    <2>2. ~pending'.unchanged
        BY <2>1 DEF NoReport
    <2> QED BY <2>1, <2>2 DEF StoredInv
<1>2. CASE SettleAttempt /\ ~NewProcess
    <2>1. /\ attempt \in Attempt /\ attempt.out = NoOutcome
          /\ attempt' = Settled(attempt, nextId) /\ attempt'.addr = attempt.addr /\ attempt' \in Attempt
          /\ UNCHANGED <<reported, pending, announce, up, stored, cloudAddr>>
          /\ outgoing = NoReport
          /\ (outgoing' = outgoing \/ (attempt'.out # NoOutcome /\ outgoing' = OutcomeReport(attempt')))
        BY <1>2, SettleSays, SettledTyped DEF cloudVars
    <2>2. attempt # NoAttempt /\ attempt' # NoAttempt
        BY <2>1, Nothings
    <2>3. \A r \in Sent : r.id \in stored
        BY <1>0, <2>1, <2>2, OpenIsQuiet
    <2>4. cloudAddr = reported \/ announce
        <3>1. attempt.out.id \notin stored
            BY <1>0, <2>1, Nothings DEF TypeOK
        <3> QED BY <2>2, <3>1 DEF StoredInv
    <2>5. \A r \in Sent' : r \in Sent \/ r.id = attempt'.out.id
        <3>1. CASE outgoing' = outgoing
            BY <2>1, <3>1 DEF Sent
        <3>2. CASE attempt'.out # NoOutcome /\ outgoing' = OutcomeReport(attempt')
            <4>1. outgoing'.id = attempt'.out.id
                BY <2>1, <3>2, OutcomeTyped DEF MaybeAttempt
            <4> QED BY <2>1, <4>1 DEF Sent, Own
        <3> QED BY <2>1, <3>1, <3>2
    <2> QED BY <2>1, <2>2, <2>3, <2>4, <2>5 DEF StoredInv
<1>3. CASE Step \/ Observe \/ WaitForGrace \/ Publish \/ Connect \/ Break \/ UNCHANGED vars
           \/ \E a \in Address : NaturalChange(a) \/ \E c \in Command : ProviderChanges(c, a)
    <2>1. UNCHANGED <<attempt, announce, pending, reported, stored, cloudAddr>>
        BY <1>3 DEF Step, Observe, WaitForGrace, Publish, Connect, Break, NaturalChange, ProviderChanges,
                    vars, monitorVars, cloudVars, loopUnchanged
    <2>2. CASE Step
        BY <1>0, <2>1, <2>2, StepSays, StoredAgain DEF Sent, Said
    <2>3. CASE Publish
        BY <1>0, <2>1, <2>3, PublishSays, StoredAgain DEF Said
    <2>4. CASE Break
        BY <1>0, <2>1, <2>4, BreakSays, StoredAgain DEF Said
    <2>5. CASE UNCHANGED <<up, outgoing>>
        <3>1. Sent' = Sent
            BY <2>5 DEF Sent
        <3> QED BY <1>0, <2>1, <3>1, StoredAgain DEF Said
    <2> QED BY <1>3, <2>2, <2>3, <2>4, <2>5
            DEF Observe, WaitForGrace, Connect, NaturalChange, ProviderChanges, vars, loopVars, wireVars
<1>4. CASE Observed
    <2>1. attempt = NoAttempt /\ attempt' = attempt /\ UNCHANGED <<reported, stored, cloudAddr>>
        BY <1>4 DEF Observed, Ordinary, loopUnchanged, cloudVars
    <2>2. CASE UNCHANGED <<announce, pending>> /\ Sent' = Sent
        BY <1>0, <2>1, <2>2, StoredAgain DEF Said
    <2>3. CASE pending' # NoReport /\ ~pending'.unchanged
        BY <2>1, <2>3 DEF StoredInv
    <2> QED BY <1>4, <2>2, <2>3, ObservedSays
<1>5. CASE NotifyControlReady
    <2>1. announce' = TRUE /\ pending' = NoReport /\ Sent' = Sent /\ UNCHANGED <<attempt, stored>>
        BY <1>5, NotifySays DEF NotifyControlReady, cloudVars
    <2>2. ~pending'.unchanged
        BY <2>1 DEF NoReport
    <2> QED BY <2>1, <2>2 DEF StoredInv
<1>6. ASSUME NEW c \in Command, GraceElapses(c) \/ CloudCreates(c) \/ Handler(c)
      PROVE  StoredInv'
    <2>1. /\ UNCHANGED <<pending, announce, reported, stored, cloudAddr>>
          /\ attempt'.out = attempt.out /\ Sent' = Sent
        BY <1>0, <1>6, HandlerSays
    <2>2. CASE attempt' = attempt
        BY <1>0, <2>1, <2>2, StoredAgain DEF Said
    <2>3. CASE Armable(c) /\ attempt' = Opened(c)
        <3>1. attempt' # NoAttempt /\ attempt'.addr = expected[c]
            BY <2>3, OpenedOpen
        <3>2. /\ attempt = NoAttempt /\ pending = NoReport /\ ~announce /\ reported = expected[c]
            BY <2>3 DEF Armable, AddressSettled
        <3> QED BY <2>1, <3>1, <3>2 DEF StoredInv
    <2>4. CASE Cancellable(c) /\ attempt' = NoAttempt
        <3>1. attempt.cmd = c /\ attempt.out = NoOutcome /\ attempt # NoAttempt
            BY <2>4, Nothings, NobodyFresh DEF Cancellable
        <3>2. \A r \in Sent : r.id \in stored
            BY <1>0, <3>1, OpenIsQuiet
        <3>3. attempt.out.id \notin stored
            BY <1>0, <3>1, Nothings DEF TypeOK
        <3> QED BY <2>1, <2>4, <3>1, <3>2, <3>3 DEF StoredInv
    <2>5. CASE ArmChange(c)
        BY <1>0, <2>2, <2>3, <2>5, ArmCases
    <2>6. CASE CancelChange(c)
        BY <2>2, <2>4, <2>6, CancelCases
    <2>7. CASE GraceElapses(c) \/ CloudCreates(c) \/ Accept(c) \/ Preflight(c) \/ Trigger(c)
               \/ ProviderReturns(c) \/ Recover(c)
        BY <2>2, <2>7 DEF GraceElapses, CloudCreates, Accept, Preflight, Trigger, ProviderReturns, Recover,
                          monitorVars
    <2> QED BY <1>6, <2>5, <2>6, <2>7 DEF Handler
<1> QED BY <1>1, <1>2, <1>3, <1>4, <1>5, <1>6, CloudStored, AcknowledgeStored DEF Next, Loop, Crash

-----------------------------------------------------------------------------
(* What holds as long as no save fails. *)

CountInv == faults \in [FaultKind -> Nat]

\* A fault is counted.
LEMMA FaultCounts ==
    ASSUME CountInv, NEW k \in FaultKind, Fault(k)
    PROVE  CountInv' /\ faults'[k] # 0 /\ \A j \in FaultKind : faults'[j] = 0 => faults[j] = 0
BY DEF CountInv, Fault

\* The count of a fault never goes back.
LEMMA FaultsKept ==
    ASSUME TypeInv, OrderInv, CountInv, [Next]_vars
    PROVE  CountInv' /\ \A j \in FaultKind : faults'[j] = 0 => faults[j] = 0
<1>0. TypeOK
    BY DEF TypeInv
<1>1. CASE UNCHANGED faults
    BY <1>1 DEF CountInv
<1>2. CASE Fault("natural") \/ Fault("break") \/ Fault("crash") \/ Fault("save")
    BY <1>2, FaultCounts DEF FaultKind
<1>3. CASE Crash \/ Break \/ \E a \in Address : NaturalChange(a)
    BY <1>2, <1>3 DEF Crash, Break, NaturalChange
<1>4. CASE SettleAttempt
    BY <1>1, <1>2, <1>4, SettleSays
<1>5. CASE Acknowledge
    BY <1>0, <1>1, <1>2, <1>5, AcknowledgeCases
<1>6. ASSUME NEW c \in Command, ArmChange(c)
      PROVE  UNCHANGED faults \/ Fault("save")
    BY <1>0, <1>6, ArmCases
<1>7. ASSUME NEW c \in Command, CancelChange(c)
      PROVE  UNCHANGED faults \/ Fault("save")
    BY <1>7, CancelCases
<1>8. CASE \/ Connect \/ NotifyControlReady \/ CloudStores \/ UNCHANGED vars
           \/ Step \/ Observe \/ WaitForGrace \/ Observed \/ Publish
           \/ \E a \in Address, c \in Command : ProviderChanges(c, a)
           \/ \E c \in Command : GraceElapses(c) \/ CloudCreates(c) \/ Accept(c) \/ Preflight(c)
                                 \/ Trigger(c) \/ ProviderReturns(c) \/ Recover(c)
    <2>1. UNCHANGED faults
        BY <1>8 DEF Connect, NotifyControlReady, CloudStores, vars, Step, Observe, WaitForGrace, Observed,
                    Publish, ProviderChanges, GraceElapses, CloudCreates, Accept, Preflight, Trigger,
                    ProviderReturns, Recover
    <2> QED BY <1>1, <2>1
<1> QED BY <1>1, <1>2, <1>3, <1>4, <1>5, <1>6, <1>7, <1>8 DEF Next, Loop, Handler

\* The file is what the node knows, Cloud holds the address an open attempt began with,
\* and a command that failed has no attempt.
SavedInv ==
    /\ file = attempt
    /\ attempt # NoAttempt => attempt.addr = expected[attempt.cmd]
    /\ attempt # NoAttempt => cloudAddr = attempt.addr \/ attempt.out.id \in stored
    /\ \A c \in Command : /\ result[c] = "failed" => outcome[c] = "none" /\ attempt.cmd # c
                          /\ outcome[c] # "mismatched"
SaveInv == faults["save"] = 0 => SavedInv

\* The handler of a command ends in failure only when the command has no attempt.
LEMMA HandlerSaved ==
    ASSUME TypeInv, TrackInv, StoredInv, SavedInv, CountInv, faults'["save"] = 0,
           NEW c \in Command, GraceElapses(c) \/ CloudCreates(c) \/ Handler(c)
    PROVE  SavedInv'
<1>0. TypeOK /\ DOMAIN result = Command /\ DOMAIN expected = Command
    BY DEF TypeInv, TypeOK
<1>1. UNCHANGED <<stored, cloudAddr, outcome>>
    BY <1>0, HandlerSays
<1>2. ~Fault("save")
    BY FaultCounts DEF FaultKind
<1>3. hpc[c] \in Early => attempt.cmd # c /\ outcome[c] = "none" /\ result[c] = "none"
    BY DEF TrackInv, HandlerInv, Early
<1>4. CASE GraceElapses(c) \/ Accept(c) \/ Trigger(c)
    <2>1. UNCHANGED <<file, attempt, expected, result>>
        BY <1>4 DEF GraceElapses, Accept, Trigger, monitorVars, handlerVars
    <2> QED BY <1>1, <2>1 DEF SavedInv
<1>5. CASE CloudCreates(c)
    <2>1. UNCHANGED <<file, attempt, result>> /\ attempt.cmd # c
          /\ expected' = [expected EXCEPT ![c] = cloudAddr]
        BY <1>3, <1>5 DEF CloudCreates, Early
    <2>2. attempt # NoAttempt => attempt.cmd \in Command
        BY <1>0 DEF TypeOK, Attempt
    <2>3. attempt # NoAttempt => expected'[attempt.cmd] = expected[attempt.cmd]
        BY <1>0, <2>1, <2>2
    <2> QED BY <1>1, <2>1, <2>3 DEF SavedInv
<1>6. CASE UNCHANGED <<file, attempt, expected>> /\ hpc[c] \in Early /\ Return(c, "failed")
    <2>1. \A d \in Command : d # c => result'[d] = result[d]
        BY <1>0, <1>6 DEF Return
    <2> QED BY <1>1, <1>3, <1>6, <2>1 DEF SavedInv
<1>7. ASSUME UNCHANGED <<file, attempt, expected>>, NEW r, r # "failed", Return(c, r)
      PROVE  SavedInv'
    <2>1. \A d \in Command : d # c => result'[d] = result[d]
        BY <1>0, <1>7 DEF Return
    <2>2. result'[c] = r
        BY <1>0, <1>7 DEF Return
    <2> QED BY <1>1, <1>7, <2>1, <2>2 DEF SavedInv
<1>8. CASE UNCHANGED <<file, attempt, expected, result>>
    BY <1>1, <1>8 DEF SavedInv
<1>9. CASE Armable(c) /\ file' = Opened(c) /\ attempt' = Opened(c) /\ UNCHANGED <<expected, result>>
           /\ hpc[c] = "arm"
    <2>1. attempt' # NoAttempt /\ attempt'.addr = expected[c] /\ attempt'.cmd = c
        BY <1>9, OpenedOpen
    <2>2. cloudAddr = expected[c]
        BY <1>9 DEF Armable, AddressSettled, StoredInv
    <2>3. result[c] = "none"
        BY <1>3, <1>9 DEF Early
    <2> QED BY <1>1, <1>9, <2>1, <2>2, <2>3 DEF SavedInv
<1>10. CASE Cancellable(c) /\ file' = NoAttempt /\ attempt' = NoAttempt /\ UNCHANGED expected
            /\ Return(c, "failed")
    <2>1. attempt.cmd = c /\ attempt.out = NoOutcome /\ attempt # NoAttempt
        BY <1>10, Nothings, NobodyFresh DEF Cancellable
    <2>2. outcome[c] = "none"
        BY <1>0, <2>1, Nothings DEF TypeOK, TrackInv, FileInv
    <2>3. \A d \in Command : d # c => result'[d] = result[d]
        BY <1>0, <1>10 DEF Return
    <2>4. \A d \in Command : attempt'.cmd # d
        BY <1>10, Nothings, NobodyFresh
    <2> QED BY <1>1, <1>10, <2>2, <2>3, <2>4 DEF SavedInv
<1>11. CASE ArmChange(c)
    BY <1>0, <1>2, <1>6, <1>8, <1>9, <1>11, ArmCases DEF Early
<1>12. CASE CancelChange(c)
    BY <1>2, <1>7, <1>10, <1>12, CancelCases
<1>13. CASE Preflight(c)
    BY <1>6, <1>8, <1>13 DEF Preflight, Early
<1>14. CASE ProviderReturns(c) \/ Recover(c)
    BY <1>7, <1>8, <1>14 DEF ProviderReturns, Recover
<1> QED BY <1>4, <1>5, <1>11, <1>12, <1>13, <1>14 DEF Handler

\* Cloud judges an outcome by the address the attempt began with.
LEMMA CloudSaved ==
    ASSUME TypeInv, OrderInv, LinkInv, SaidInv, TrackInv, StoredInv, SavedInv, CloudStores
    PROVE  SavedInv'
<1>0. TypeOK
    BY DEF TypeInv
<1>1. PICK h : h = Head(up)
    OBVIOUS
<1>2. /\ UNCHANGED <<file, attempt, expected, result>> /\ stored' = stored \cup {h.id} /\ h \in Sent
    BY <1>0, <1>1, CloudCases
<1>3. CASE UNCHANGED <<cloudAddr, outcome, stored>>
    BY <1>2, <1>3 DEF SavedInv
<1>4. CASE h.id \notin stored /\ attempt.out.id # h.id /\ UNCHANGED outcome
    <2>1. attempt = NoAttempt
        BY <1>2, <1>4 DEF StoredInv
    <2> QED BY <1>2, <1>4, <2>1 DEF SavedInv
<1>5. CASE /\ h.id \notin stored /\ attempt.out # NoOutcome /\ h = OutcomeReport(attempt)
           /\ attempt \in Attempt /\ outcome' = [outcome EXCEPT ![attempt.cmd] = CloudJudges(h)]
    <2>1. h.id = attempt.out.id /\ h.cmd = attempt.cmd
        BY <1>5, OutcomeTyped DEF MaybeAttempt
    <2>2. attempt.cmd \in Command /\ attempt # NoAttempt
        BY <1>5, Nothings DEF Attempt
    <2>3. expected[h.cmd] = cloudAddr
        BY <1>5, <2>1, <2>2 DEF SavedInv
    <2>4. CloudJudges(h) # "mismatched"
        BY <2>3 DEF CloudJudges
    <2>5. DOMAIN outcome = Command
        BY <1>0 DEF TypeOK
    <2>6. \A d \in Command : d # attempt.cmd => outcome'[d] = outcome[d]
        BY <1>5, <2>5
    <2>7. outcome'[attempt.cmd] = CloudJudges(h)
        BY <1>5, <2>2, <2>5
    <2>8. attempt.out.id \in stored'
        BY <1>2, <2>1
    <2> QED BY <1>2, <2>2, <2>4, <2>6, <2>7, <2>8 DEF SavedInv
<1> QED BY <1>0, <1>1, <1>3, <1>4, <1>5, CloudCases

\* Every step keeps it, unless a save fails.
LEMMA SaveKept ==
    ASSUME TypeInv, LinkInv, OrderInv, SaidInv, TrackInv, StoredInv, CountInv, SaveInv, [Next]_vars
    PROVE  SaveInv'
<1> SUFFICES ASSUME faults'["save"] = 0 PROVE SavedInv'
    BY DEF SaveInv
<1>0. TypeOK /\ SavedInv
    BY FaultsKept DEF SaveInv, FaultKind, TypeInv
<1>1. ~Fault("save")
    BY FaultCounts DEF FaultKind
<1>2. CASE Crash
    <2>1. UNCHANGED <<file, expected, result, stored, cloudAddr, outcome>> /\ attempt' = file
        BY <1>2 DEF Crash, NewProcess, cloudVars
    <2> QED BY <1>0, <2>1 DEF SavedInv
<1>3. CASE SettleAttempt
    <2>1. /\ attempt \in Attempt /\ attempt.out = NoOutcome
          /\ attempt' = Settled(attempt, nextId) /\ file' = attempt'
          /\ attempt'.addr = attempt.addr /\ attempt'.cmd = attempt.cmd
          /\ UNCHANGED <<expected, result, stored, cloudAddr, outcome>>
        BY <1>1, <1>3, SettleSays, SettledTyped DEF cloudVars, handlerVars
    <2>2. attempt # NoAttempt /\ cloudAddr = attempt.addr
        BY <1>0, <2>1, Nothings DEF SavedInv, TypeOK
    <2> QED BY <1>0, <2>1, <2>2 DEF SavedInv
<1>4. CASE Acknowledge
    <2>1. UNCHANGED <<expected, result, stored, cloudAddr, outcome>>
        BY <1>4 DEF Acknowledge, handlerVars, cloudVars
    <2>2. CASE UNCHANGED <<file, attempt>>
        BY <1>0, <2>1, <2>2 DEF SavedInv
    <2>3. CASE file' = NoAttempt /\ attempt' = NoAttempt
        <3>1. \A c \in Command : attempt'.cmd # c
            BY <2>3, Nothings, NobodyFresh
        <3> QED BY <1>0, <2>1, <2>3, <3>1 DEF SavedInv
    <2> QED BY <1>0, <1>1, <1>4, <2>2, <2>3, AcknowledgeCases
<1>5. CASE CloudStores
    BY <1>0, <1>5, CloudSaved
<1>6. CASE \/ Connect \/ NotifyControlReady \/ Break \/ UNCHANGED vars
           \/ Step \/ Observe \/ WaitForGrace \/ Observed \/ Publish
           \/ \E a \in Address : NaturalChange(a) \/ \E c \in Command : ProviderChanges(c, a)
    <2>1. UNCHANGED <<file, attempt, expected, result, stored, cloudAddr, outcome>>
        BY <1>6 DEF Connect, NotifyControlReady, Break, vars, Step, Observe, WaitForGrace, Observed, Publish,
                    NaturalChange, ProviderChanges, monitorVars, handlerVars, cloudVars, loopUnchanged
    <2> QED BY <1>0, <2>1 DEF SavedInv
<1>7. ASSUME NEW c \in Command, GraceElapses(c) \/ CloudCreates(c) \/ Handler(c)
      PROVE  SavedInv'
    BY <1>0, <1>7, HandlerSaved
<1> QED BY <1>2, <1>3, <1>4, <1>5, <1>6, <1>7 DEF Next, Loop

-----------------------------------------------------------------------------
(* Who changed the address, on a node where only providers do. *)

\* Cloud holds the address, or none and nobody has changed it.
Known == cloudAddr = addr \/ (cause = Nobody /\ cloudAddr = Nobody)

\* As long as no natural change happened and no command was told unchanged.
OnlyProviders == faults["natural"] = 0 /\ \A c \in Command : outcome[c] # "unchanged"

\* Cloud knows the address until the provider of the open attempt changes it; the change
\* is then the attempt's, since what is observed and reported is the address of now.
CausedInv ==
    /\ misread = {}
    /\ attempt.out = NoOutcome /\ attempt.cmd \notin moved => Known
    /\ attempt = NoAttempt => \A r \in Said : r.id \notin stored => r.addr = addr /\ r.cause = cause
    /\ attempt.out = NoOutcome /\ attempt.cmd \notin moved =>
           (attempt.cmd \in triggered \/ (attempt # NoAttempt /\ hpc[attempt.cmd] = "trigger")
               => attempt.addr = addr)
    /\ attempt.out.changed => attempt.out.addr = addr
    /\ mpc = "settle" => \/ seen.addr = addr /\ seen.cause = cause
                         \/ attempt.cmd \in moved /\ seen.addr = attempt.addr
CauseInv == OnlyProviders => CausedInv

\* A step that changes neither the address nor the attempt and says no more.
LEMMA CausedAgain ==
    ASSUME CausedInv, Said' \subseteq Said,
           UNCHANGED <<misread, attempt, moved, cloudAddr, addr, cause, stored>>,
           attempt.cmd \in triggered' => \/ attempt.cmd \in triggered
                                         \/ attempt # NoAttempt /\ hpc[attempt.cmd] = "trigger",
           attempt # NoAttempt /\ hpc'[attempt.cmd] = "trigger" => hpc[attempt.cmd] = "trigger",
           mpc' # "settle" \/ UNCHANGED <<mpc, seen>>
    PROVE  CausedInv'
BY DEF CausedInv, Known

\* What an unchanged outcome or a natural change has made of a node stays.
LEMMA ProvidersOnly ==
    ASSUME TypeInv, OrderInv, SaidInv, TrackInv, CountInv, [Next]_vars, OnlyProviders'
    PROVE  OnlyProviders
<1>0. TypeOK
    BY DEF TypeInv
<1>1. faults["natural"] = 0
    BY FaultsKept DEF OnlyProviders, FaultKind
<1>2. CASE UNCHANGED outcome
    BY <1>1, <1>2 DEF OnlyProviders
<1>3. CASE CloudStores /\ ~UNCHANGED outcome
    <2>1. PICK h : h = Head(up)
        OBVIOUS
    <2>2. /\ h.id \notin stored /\ attempt.out # NoOutcome /\ h = OutcomeReport(attempt)
          /\ attempt \in Attempt /\ outcome' = [outcome EXCEPT ![attempt.cmd] = CloudJudges(h)]
        BY <1>0, <1>3, <2>1, CloudCases
    <2>3. attempt # NoAttempt /\ attempt.out.id \notin stored
        BY <2>2, Nothings, OutcomeTyped DEF MaybeAttempt
    <2>4. outcome[attempt.cmd] = "none"
        BY <2>3 DEF TrackInv, FileInv
    <2>5. \A d \in Command : d # attempt.cmd => outcome'[d] = outcome[d]
        BY <1>0, <2>2 DEF TypeOK
    <2> QED BY <1>1, <2>4, <2>5 DEF OnlyProviders
<1>4. CASE Crash \/ (SettleAttempt /\ NewProcess)
    BY <1>2, <1>4 DEF Crash, NewProcess, cloudVars
<1>5. CASE SettleAttempt /\ ~NewProcess
    BY <1>2, <1>5, SettleSays DEF cloudVars
<1>6. CASE \/ Connect \/ NotifyControlReady \/ Break \/ Acknowledge \/ UNCHANGED vars
           \/ Step \/ Observe \/ WaitForGrace \/ Observed \/ Publish
           \/ \E a \in Address : NaturalChange(a) \/ \E c \in Command : ProviderChanges(c, a)
    <2>1. UNCHANGED outcome
        BY <1>6 DEF Connect, NotifyControlReady, Break, Acknowledge, vars, Step, Observe, WaitForGrace,
                    Observed, Publish, NaturalChange, ProviderChanges, cloudVars, loopUnchanged
    <2> QED BY <1>2, <2>1
<1>7. CASE \E c \in Command : GraceElapses(c) \/ CloudCreates(c) \/ Handler(c)
    BY <1>0, <1>2, <1>7, HandlerSays
<1> QED BY <1>2, <1>3, <1>4, <1>5, <1>6, <1>7 DEF Next, Loop

\* A command that is tracked nowhere was not moved, unless Cloud knows how it ended.
LEMMA MovedIsTracked ==
    ASSUME TypeOK, TrackInv, NEW c \in moved, outcome[c] = "none"
    PROVE  attempt.cmd = c /\ file.cmd = c
BY DEF TypeOK, TrackInv, HandlerInv

\* Cloud knows the address once it has stored the outcome of an attempt.
LEMMA SettledIsKnown ==
    ASSUME TypeOK, SaidInv, TrackInv, OnlyProviders, CausedInv, attempt.out # NoOutcome,
           attempt.out.id \in stored
    PROVE  attempt.out.changed /\ cloudAddr = addr
<1>1. attempt \in MaybeAttempt /\ attempt \in Attempt /\ attempt.cmd \in Command
    BY Nothings DEF TypeOK, MaybeAttempt, Attempt
<1>2. attempt.out.changed
    BY <1>1 DEF TrackInv, FileInv, OnlyProviders
<1>3. PICK o : o = OutcomeReport(attempt)
    OBVIOUS
<1>4. o \in Said /\ o.id \in stored /\ ~o.unchanged /\ o.addr = attempt.out.addr
    BY <1>1, <1>2, <1>3, OutcomeTyped DEF Said, Current, OutcomeOf
<1> QED BY <1>2, <1>4 DEF SaidInv, CausedInv

\* A new process that starts from the file as it was.
LEMMA RestartCaused ==
    ASSUME TypeInv, LinkInv, SaidInv, TrackInv, OnlyProviders, CausedInv, NewProcess, file' = file
    PROVE  CausedInv'
<1>0. TypeOK
    BY DEF TypeInv
<1>1. /\ attempt' = file /\ mpc' = "step"
      /\ UNCHANGED <<triggered, addr, cause, moved, cloudAddr, outcome, stored, misread>>
      /\ \A c \in Command : hpc'[c] # "trigger"
    BY DEF NewProcess, cloudVars, netVars
<1>2. Said' = OutcomeOf(file)
    BY NewProcessSays, EmptyQueue DEF Said
<1>3. file \in MaybeAttempt /\ attempt \in MaybeAttempt
    BY <1>0 DEF TypeOK, MaybeAttempt
<1>4. Nobody \notin moved /\ Nobody \notin triggered /\ moved \subseteq triggered
    BY <1>0, NobodyFresh DEF TypeOK
<1>5. file # NoAttempt => file.cmd \in Command
    BY <1>3, Nothings DEF Attempt
<1>6. CASE file = attempt /\ file # NoAttempt
    BY <1>1, <1>5, <1>6 DEF CausedInv, Known
<1>7. CASE file = NoAttempt
    <2>1. Said' = {} /\ file.out = NoOutcome /\ file.cmd = Nobody /\ ~file.out.changed
        BY <1>2, <1>7, Nothings DEF OutcomeOf
    <2>2. Known
        <3>1. CASE attempt.out # NoOutcome
            <4>1. attempt.out.id \in stored
                BY <1>7, <3>1 DEF TrackInv, FileInv
            <4> QED BY <1>0, <3>1, <4>1, SettledIsKnown DEF Known
        <3>2. CASE attempt.out = NoOutcome
            <4>1. attempt.cmd \notin moved
                <5> SUFFICES ASSUME attempt.cmd \in moved PROVE FALSE
                    OBVIOUS
                <5>1. attempt # NoAttempt
                    BY <1>4, Nothings
                <5>2. outcome[attempt.cmd] = "none"
                    BY <1>0, <3>2, <5>1, Nothings DEF TypeOK, TrackInv, FileInv
                <5>3. file.cmd = attempt.cmd
                    BY <1>0, <5>2, MovedIsTracked
                <5> QED BY <1>4, <2>1, <5>3
            <4> QED BY <3>2, <4>1 DEF CausedInv
        <3> QED BY <3>1, <3>2
    <2> QED BY <1>1, <1>4, <1>7, <2>1, <2>2 DEF CausedInv, Known
<1>8. CASE attempt = NoAttempt /\ file # NoAttempt
    <2>1. file.out = NoOutcome /\ outcome[file.cmd] = "none" /\ ~file.out.changed
        BY <1>8, Nothings DEF LinkInv, TrackInv, FileInv
    <2>2. attempt.cmd = Nobody /\ attempt.out = NoOutcome
        BY <1>8, Nothings
    <2>3. file.cmd \notin triggered /\ file.cmd \notin moved
        BY <1>4, <1>5, <1>8, <2>1, <2>2, NobodyFresh DEF TrackInv, HandlerInv
    <2>4. Known
        BY <1>4, <2>2 DEF CausedInv
    <2> QED BY <1>1, <1>5, <1>8, <2>1, <2>3, <2>4 DEF CausedInv, Known
<1> QED BY <1>6, <1>7, <1>8 DEF TrackInv, FileInv

\* A new address settles the attempt of the command that caused it.
LEMMA SettleCaused ==
    ASSUME TypeInv, LinkInv, OrderInv, SaidInv, TrackInv, OnlyProviders, CausedInv, SettleAttempt
    PROVE  CausedInv'
<1>0. TypeOK
    BY DEF TypeInv
<1> DEFINE next == Settled(attempt, nextId)
<1>1. CASE NewProcess /\ file' = file
    BY <1>1, RestartCaused
<1>2. CASE attempt' = next
    <2>1. attempt \in Attempt /\ attempt.out = NoOutcome /\ next \in Attempt
          /\ next.cmd = attempt.cmd /\ next.addr = attempt.addr
          /\ (next.out # NoOutcome => next.out.addr = seen.addr
                                      /\ next.out.changed = (seen.addr # attempt.addr))
        BY SettleSays, SettledTyped
    <2>2. /\ UNCHANGED <<triggered, addr, cause, moved, cloudAddr, stored, misread>> /\ mpc' # "settle"
        BY SettleSays DEF NewProcess, handlerVars, netVars, cloudVars
    <2>3. attempt # NoAttempt /\ next # NoAttempt /\ attempt.cmd \in Command
        BY <2>1, Nothings DEF Attempt
    <2>4. hpc'[attempt.cmd] = "trigger" => hpc[attempt.cmd] = "trigger"
        BY <2>3, SettleSays DEF NewProcess, handlerVars
    <2>5. mpc = "settle"
        BY DEF SettleAttempt
    <2>6. next.out.changed => next.out.addr = addr
        BY <2>1, <2>5, Nothings DEF CausedInv
    <2>7. next.out = NoOutcome => attempt.out = NoOutcome
        BY <2>1
    <2> HIDE DEF next
    <2> QED BY <1>2, <2>1, <2>2, <2>3, <2>4, <2>6 DEF CausedInv, Known
<1>3. \/ NewProcess /\ file' = file
      \/ attempt' = next
    BY SettleSays, NewProcessSays
<1> QED BY <1>1, <1>2, <1>3

\* What Cloud stores without a command is no change, or nobody's.
LEMMA CloudCaused ==
    ASSUME TypeInv, OrderInv, LinkInv, SaidInv, StoredInv, CausedInv, CloudStores
    PROVE  CausedInv'
<1>0. TypeOK
    BY DEF TypeInv
<1>1. PICK h : h = Head(up)
    OBVIOUS
<1>2. /\ UNCHANGED <<attempt, hpc, triggered, addr, cause, moved, mpc, seen>> /\ Said' \subseteq Said
      /\ stored' = stored \cup {h.id} /\ h \in Sent
    BY <1>0, <1>1, CloudCases
<1>3. CASE UNCHANGED <<cloudAddr, misread, stored>>
    BY <1>2, <1>3, CausedAgain
<1>4. CASE /\ h.id \notin stored /\ attempt.out.id # h.id /\ cloudAddr' = h.addr
           /\ misread' = misread \/ (h.addr # cloudAddr /\ misread' = misread \cup ({h.cause} \ {Nobody}))
    <2>1. attempt = NoAttempt
        BY <1>2, <1>4 DEF StoredInv
    <2>2. h.addr = addr /\ h.cause = cause
        BY <1>2, <1>4, <2>1 DEF CausedInv, Said
    <2>3. attempt.out = NoOutcome /\ attempt.cmd = Nobody /\ Nobody \notin moved
        BY <1>0, <2>1, Nothings, NobodyFresh DEF TypeOK
    <2>4. h.addr # cloudAddr => cause = Nobody
        BY <2>2, <2>3 DEF CausedInv, Known
    <2>5. misread' = {}
        BY <1>4, <2>2, <2>4 DEF CausedInv
    <2>6. Known'
        BY <1>2, <1>4, <2>2 DEF Known
    <2> QED BY <1>2, <2>3, <2>5, <2>6 DEF CausedInv
<1>5. CASE attempt.out # NoOutcome /\ attempt \in Attempt /\ UNCHANGED misread
    <2>1. attempt # NoAttempt
        BY <1>5, Nothings
    <2> QED BY <1>2, <1>5, <2>1 DEF CausedInv
<1> QED BY <1>0, <1>1, <1>3, <1>4, <1>5, CloudCases

\* Once an attempt is acknowledged Cloud knows the address it ended with.
LEMMA AcknowledgeCaused ==
    ASSUME TypeInv, OrderInv, LinkInv, SaidInv, TrackInv, OnlyProviders, CausedInv, Acknowledge
    PROVE  CausedInv'
<1>0. TypeOK
    BY DEF TypeInv
<1>1. /\ UNCHANGED <<stored, cloudAddr, misread, hpc, triggered, addr, cause, moved, mpc, seen>>
      /\ Sent' \subseteq Sent /\ Said' \subseteq Said
    BY <1>0, AcknowledgeSays DEF Acknowledge, cloudVars, handlerVars, netVars, loopVars, Said
<1>2. CASE UNCHANGED attempt
    BY <1>1, <1>2, CausedAgain
<1>3. CASE attempt.out # NoOutcome /\ attempt.out.id \in stored /\ attempt' = NoAttempt
    <2>1. attempt \in MaybeAttempt /\ attempt # NoAttempt
        BY <1>0, <1>3, Nothings DEF TypeOK, MaybeAttempt
    <2>2. PICK o : o = OutcomeReport(attempt)
        OBVIOUS
    <2>3. o \in Current /\ o.id \in stored
        BY <1>3, <2>1, <2>2, OutcomeTyped DEF Current, OutcomeOf
    <2>4. \A r \in Said' : r.id \in stored
        <3> SUFFICES ASSUME NEW r \in Said' PROVE r.id \in stored
            OBVIOUS
        <3>1. CASE r \in Sent
            <4>1. r.id <= o.id /\ o.id <= r.id
                BY <2>3, <3>1 DEF OrderInv, Said
            <4>2. r.id \in Int /\ o.id \in Int
                BY <1>0, <2>3, <3>1, Numbers DEF Said
            <4> QED BY <2>3, <4>1, <4>2
        <3>2. CASE r \in Current
            BY <2>3, <3>2, CurrentIsOne
        <3> QED BY <1>1, <3>1, <3>2 DEF Said
    <2>5. cloudAddr = addr
        BY <1>0, <1>3, SettledIsKnown
    <2>6. mpc # "settle"
        BY <1>3 DEF TypeInv, LoopInv
    <2>7. attempt'.cmd \notin triggered /\ ~attempt'.out.changed
        BY <1>0, <1>3, Nothings, NobodyFresh DEF TypeOK
    <2> QED BY <1>1, <1>3, <2>4, <2>5, <2>6, <2>7 DEF CausedInv, Known
<1> QED BY <1>0, <1>2, <1>3, AcknowledgeCases

\* A command is armed with the address the node has, and one whose provider failed for
\* certain leaves it so.
LEMMA HandlerCaused ==
    ASSUME TypeInv, LinkInv, TrackInv, StoredInv, CausedInv,
           NEW c \in Command, GraceElapses(c) \/ CloudCreates(c) \/ Handler(c)
    PROVE  CausedInv'
<1>0. TypeOK /\ DOMAIN hpc = Command /\ moved \subseteq triggered /\ Nobody \notin moved
    BY NobodyFresh DEF TypeInv, TypeOK
<1>1. /\ UNCHANGED <<stored, cloudAddr, misread, addr, cause, moved, mpc, seen>>
      /\ Said' = Said /\ Sent' = Sent /\ Current' = Current
    <2>1. UNCHANGED <<misread, addr, cause, moved, mpc, seen>>
        BY DEF GraceElapses, CloudCreates, Handler, Accept, Preflight, ArmChange, Trigger, ProviderReturns,
               CancelChange, Recover, handlerUnchanged, loopVars, netVars, cloudVars
    <2> QED BY <1>0, <2>1, HandlerSays
<1>2. attempt # NoAttempt => attempt.cmd \in Command
    BY <1>0 DEF TypeOK, Attempt
<1>3. ASSUME attempt' = attempt, NEW p, p # "trigger", hpc' = [hpc EXCEPT ![c] = p], triggered' \subseteq triggered
      PROVE  CausedInv'
    <2>1. attempt # NoAttempt /\ hpc'[attempt.cmd] = "trigger" => hpc[attempt.cmd] = "trigger"
        BY <1>0, <1>2, <1>3
    <2> QED BY <1>1, <1>3, <2>1, CausedAgain
<1>4. CASE GraceElapses(c)
    BY <1>1, <1>4, CausedAgain DEF GraceElapses, monitorVars, handlerVars
<1>5. CASE CloudCreates(c) \/ Accept(c) \/ Preflight(c) \/ Recover(c)
    BY <1>3, <1>5 DEF CloudCreates, Accept, Preflight, Recover, Return, Goto
<1>6. CASE ProviderReturns(c)
    <2>1. triggered' \subseteq triggered /\ attempt' = attempt
        BY <1>6 DEF ProviderReturns
    <2> QED BY <1>3, <1>6, <2>1 DEF ProviderReturns, Return, Goto
<1>7. CASE Trigger(c)
    <2>1. /\ attempt' = attempt /\ triggered' = triggered \cup {c} /\ hpc[c] = "trigger"
          /\ hpc' = [hpc EXCEPT ![c] = "provider"]
        BY <1>7 DEF Trigger, Goto
    <2>2. attempt # NoAttempt /\ hpc'[attempt.cmd] = "trigger" => hpc[attempt.cmd] = "trigger"
        BY <1>0, <1>2, <2>1
    <2>3. attempt = NoAttempt => attempt.cmd # c
        BY Nothings, NobodyFresh
    <2> QED BY <1>1, <2>1, <2>2, <2>3, CausedAgain
<1>8. CASE Armable(c) /\ attempt' = Opened(c) /\ hpc[c] = "arm" /\ UNCHANGED triggered
    <2>1. /\ attempt'.cmd = c /\ attempt'.addr = expected[c] /\ attempt' # NoAttempt
          /\ attempt'.out = NoOutcome /\ ~attempt'.out.changed
        BY <1>8, OpenedOpen, Nothings
    <2>2. c \notin triggered /\ c \notin moved
        BY <1>0, <1>8 DEF TrackInv, HandlerInv, Early
    <2>3. /\ attempt = NoAttempt /\ attempt.cmd = Nobody /\ attempt.out = NoOutcome
          /\ cloudAddr = expected[c] /\ cloudAddr # Nobody
        BY <1>8, Nothings DEF Armable, AddressSettled, StoredInv
    <2>4. cloudAddr = addr
        BY <1>0, <2>3 DEF CausedInv, Known
    <2> QED BY <1>0, <1>1, <2>1, <2>2, <2>3, <2>4 DEF CausedInv, Known
<1>9. CASE Cancellable(c) /\ attempt' = NoAttempt /\ hpc[c] = "cancel" /\ UNCHANGED triggered
    <2>1. attempt.cmd = c /\ attempt.out = NoOutcome /\ attempt # NoAttempt
        BY <1>9, Nothings, NobodyFresh DEF Cancellable
    <2>2. c \notin moved
        BY <1>0, <1>9 DEF TrackInv, HandlerInv
    <2>3. Known
        BY <2>1, <2>2 DEF CausedInv
    <2>4. \A r \in Said : r.id \in stored
        <3>1. Current = {}
            BY <2>1 DEF LinkInv, Current, Own, OutcomeOf
        <3> QED BY <1>0, <2>1, <3>1, OpenIsQuiet DEF Said
    <2>5. attempt'.cmd \notin triggered /\ ~attempt'.out.changed
        BY <1>0, <1>9, Nothings, NobodyFresh DEF TypeOK
    <2> QED BY <1>1, <1>9, <2>1, <2>2, <2>3, <2>4, <2>5 DEF CausedInv, Known
<1>10. CASE ArmChange(c)
    <2>1. UNCHANGED triggered /\ hpc[c] = "arm" /\ attempt.cmd # c
        BY <1>10 DEF ArmChange, TrackInv, HandlerInv, Early
    <2>2. CASE attempt' = attempt /\ Return(c, "failed")
        BY <1>3, <2>1, <2>2 DEF Return, Goto
    <2> QED BY <1>0, <1>8, <1>10, <2>1, <2>2, ArmCases
<1>11. CASE CancelChange(c)
    <2>1. UNCHANGED triggered /\ hpc[c] = "cancel"
        BY <1>11 DEF CancelChange
    <2>2. ASSUME attempt' = attempt, NEW r, Return(c, r) PROVE CausedInv'
        BY <1>3, <2>1, <2>2 DEF Return, Goto
    <2> QED BY <1>9, <1>11, <2>1, <2>2, CancelCases
<1> QED BY <1>4, <1>5, <1>6, <1>7, <1>10, <1>11 DEF Handler

\* Every step keeps it.
LEMMA CauseKept ==
    ASSUME TypeInv, LinkInv, OrderInv, SaidInv, TrackInv, StoredInv, CountInv, CauseInv, [Next]_vars
    PROVE  CauseInv'
<1> SUFFICES ASSUME OnlyProviders' PROVE CausedInv'
    BY DEF CauseInv
<1>0. TypeOK /\ OnlyProviders /\ CausedInv
    BY ProvidersOnly DEF CauseInv, TypeInv
<1>1. ~Fault("natural")
    BY FaultCounts DEF FaultKind, OnlyProviders
<1>2. CASE Crash
    BY <1>0, <1>2, RestartCaused DEF Crash
<1>3. CASE SettleAttempt
    BY <1>0, <1>3, SettleCaused
<1>4. CASE CloudStores
    BY <1>0, <1>4, CloudCaused
<1>5. CASE Acknowledge
    BY <1>0, <1>5, AcknowledgeCaused
<1>6. ASSUME NEW c \in Command, GraceElapses(c) \/ CloudCreates(c) \/ Handler(c)
      PROVE  CausedInv'
    BY <1>0, <1>6, HandlerCaused
<1>7. ASSUME NEW c \in Command, NEW a \in Address, ProviderChanges(c, a)
      PROVE  CausedInv'
    <2>1. /\ c \in triggered \ moved /\ outcome[c] = "none" /\ attempt.out = NoOutcome
          /\ cause' = c /\ moved' = moved \cup {c}
          /\ UNCHANGED <<attempt, misread, mpc, seen, triggered, hpc>>
        BY <1>7 DEF ProviderChanges, monitorVars, loopVars, handlerVars, cloudVars
    <2>2. attempt.cmd = c
        BY <2>1 DEF TrackInv, HandlerInv
    <2>3. attempt # NoAttempt /\ ~attempt.out.changed
        BY <2>1, <2>2, Nothings, NobodyFresh
    <2>4. attempt.addr = addr
        BY <1>0, <2>1, <2>2 DEF CausedInv
    <2> QED BY <1>0, <2>1, <2>2, <2>3, <2>4 DEF CausedInv
<1>8. CASE Observed
    <2>1. /\ attempt = NoAttempt /\ attempt' = attempt /\ mpc' # "settle" /\ mpc = "settle"
          /\ UNCHANGED <<addr, cause, moved, triggered, hpc, stored, cloudAddr, misread>>
        BY <1>8 DEF Observed, Ordinary, loopUnchanged, netVars, handlerVars, cloudVars
    <2>2. CASE Said' \subseteq Said
        BY <1>0, <2>1, <2>2, CausedAgain
    <2>3. CASE /\ pending'.addr = seen.addr /\ pending'.cause = seen.cause
               /\ Sent' = Sent \cup {pending'} /\ Current' = {pending'}
        <3>1. seen.addr = addr /\ seen.cause = cause
            BY <1>0, <2>1, Nothings, NobodyFresh DEF CausedInv, TypeOK
        <3>2. \A r \in Said' : r \in Said \/ (r.addr = addr /\ r.cause = cause)
            BY <2>3, <3>1 DEF Said
        <3> QED BY <1>0, <2>1, <3>2 DEF CausedInv, Known
    <2> QED BY <1>8, <2>2, <2>3, ObservedSays DEF Said
<1>9. CASE Observe
    <2>1. /\ seen' = [addr |-> addr, cause |-> cause]
          /\ UNCHANGED <<attempt, addr, cause, moved, triggered, hpc, stored, cloudAddr, misread,
                         up, outgoing, pending>>
        BY <1>9 DEF Observe, loopUnchanged, netVars, handlerVars, cloudVars, monitorVars
    <2>2. Said' = Said
        BY <2>1 DEF Said, Sent, Current, OutcomeOf
    <2> QED BY <1>0, <2>1, <2>2 DEF CausedInv, Known
<1>10. CASE Step \/ WaitForGrace \/ Publish \/ Connect \/ NotifyControlReady \/ Break \/ UNCHANGED vars
    <2>1. /\ UNCHANGED <<attempt, addr, cause, moved, triggered, hpc, stored, cloudAddr, misread>>
          /\ mpc' # "settle" \/ UNCHANGED <<mpc, seen>>
        BY <1>10 DEF Step, WaitForGrace, Publish, Connect, NotifyControlReady, Break, vars, loopUnchanged,
                     netVars, handlerVars, cloudVars, monitorVars, loopVars
    <2>2. Said' \subseteq Said
        <3>1. CASE Step
            BY <3>1, StepSays DEF Said, Sent
        <3>2. CASE Publish
            BY <3>2, PublishSays DEF Said
        <3>3. CASE NotifyControlReady
            BY <3>3, NotifySays DEF Said
        <3>4. CASE Break
            BY <3>4, BreakSays DEF Said
        <3>5. CASE UNCHANGED <<up, outgoing, pending, attempt>>
            BY <3>5 DEF Said, Sent, Current, OutcomeOf
        <3> QED BY <1>10, <3>1, <3>2, <3>3, <3>4, <3>5
                DEF WaitForGrace, Connect, vars, monitorVars, loopVars, wireVars
    <2> QED BY <1>0, <2>1, <2>2, CausedAgain
<1>11. ASSUME NEW a \in Address, NaturalChange(a) PROVE FALSE
    BY <1>1, <1>11 DEF NaturalChange
<1> QED BY <1>2, <1>3, <1>4, <1>5, <1>6, <1>7, <1>8, <1>9, <1>10, <1>11 DEF Next, Loop

-----------------------------------------------------------------------------
(* The theorems. *)

WatchInv == /\ TypeInv /\ LinkInv /\ OrderInv /\ SaidInv /\ TrackInv /\ StoredInv
            /\ CountInv /\ SaveInv /\ CauseInv

\* A node that has just been installed knows nothing and owes Cloud everything.
LEMMA InitWatches == Init => WatchInv
<1> SUFFICES ASSUME Init PROVE WatchInv
    OBVIOUS
<1>1. TypeInv /\ Said = {}
    BY InitTyped
<1>2. Sent = {} /\ Current = {}
    BY <1>1 DEF Said
<1>3. attempt = NoAttempt /\ file = NoAttempt /\ attempt.out = NoOutcome /\ attempt.cmd = Nobody
      /\ ~attempt.out.changed /\ Nobody \notin Command
    BY Nothings, NobodyFresh DEF Init
<1>4. announce = TRUE /\ pending = NoReport /\ ~pending.unchanged /\ mpc = "step" /\ outgoing = NoReport
    BY DEF Init, NoReport
<1>5. /\ stored = {} /\ misread = {} /\ triggered = {} /\ moved = {} /\ cause = Nobody /\ cloudAddr = Nobody
      /\ up = <<>> /\ down = <<>>
    BY DEF Init
<1>6. /\ \A c \in Command : hpc[c] = "new" /\ result[c] = "none" /\ outcome[c] = "none"
    BY DEF Init
<1>7. LinkInv
    BY <1>3, <1>4 DEF LinkInv
<1>8. OrderInv
    BY <1>1, <1>2, <1>4, <1>5, EmptyQueue DEF OrderInv
<1>9. SaidInv
    BY <1>1 DEF SaidInv
<1>10. TrackInv
    BY <1>3, <1>5, <1>6 DEF TrackInv, FileInv, HandlerInv
<1>11. StoredInv
    BY <1>3, <1>4 DEF StoredInv
<1>12. CountInv
    BY DEF Init, CountInv
<1>13. SaveInv
    BY <1>3, <1>6 DEF SaveInv, SavedInv
<1>14. CauseInv
    BY <1>1, <1>3, <1>4, <1>5 DEF CauseInv, CausedInv, Known
<1> QED BY <1>1, <1>7, <1>8, <1>9, <1>10, <1>11, <1>12, <1>13, <1>14 DEF WatchInv

\* Every step keeps the inductive invariant.
LEMMA StepWatches == WatchInv /\ [Next]_vars => WatchInv'
<1> SUFFICES ASSUME WatchInv, [Next]_vars PROVE WatchInv'
    OBVIOUS
<1> USE DEF WatchInv
<1>1. TypeInv'
    BY StepTyped
<1>2. LinkInv'
    BY LinksKept
<1>3. OrderInv'
    BY <1>1, OrderKept
<1>4. SaidInv'
    BY <1>3, SaidKept
<1>5. TrackInv'
    BY TrackKept
<1>6. StoredInv'
    BY StoredKept
<1>7. CountInv'
    BY FaultsKept
<1>8. SaveInv'
    BY SaveKept
<1>9. CauseInv'
    BY CauseKept
<1> QED BY <1>1, <1>2, <1>3, <1>4, <1>5, <1>6, <1>7, <1>8, <1>9

\* The inductive invariant holds in every state the node can be in.
LEMMA WatchCorrect == Spec => []WatchInv
BY InitWatches, StepWatches, PTL DEF Spec

\* Once its provider was called, a command is on disk until Cloud has stored how it
\* ended (Monitor.ArmChange, stepIPv4, Acknowledge), whatever crashes and saves fail.
THEOREM TriggeredIsOnDisk == Spec => []TriggeredIsTracked
<1>1. WatchInv => TriggeredIsTracked
    BY DEF WatchInv, TypeInv, TypeOK, TrackInv, HandlerInv, TriggeredIsTracked
<1> QED BY <1>1, WatchCorrect, PTL

\* When a ChangeIP may be armed, Cloud holds the address it is armed with
\* (AddressSettled, Acknowledge, NotifyControlReady), however many reports were in
\* flight and whichever were lost or sent again.
THEOREM SettledAddressIsStored == Spec => []SettledIsStored
<1>1. WatchInv => SettledIsStored
    BY DEF WatchInv, StoredInv, SettledIsStored, AddressSettled
<1> QED BY <1>1, WatchCorrect, PTL

\* As long as no save fails, a command that failed never gets an outcome: of CancelChange
\* and the settling of its attempt, one wins.
THEOREM FailedStaysFailed == Spec => []FailedHasNoOutcome
<1>1. WatchInv => FailedHasNoOutcome
    BY DEF WatchInv, SaveInv, SavedInv, FailedHasNoOutcome
<1> QED BY <1>1, WatchCorrect, PTL

\* As long as no save fails, Cloud still holds the address a command began with when it
\* stores how the command ended (ArmChange, stepIPv4).
THEOREM OutcomeMeetsItsAddress == Spec => []OutcomeFitsCloud
<1>1. WatchInv => OutcomeFitsCloud
    BY DEF WatchInv, SaveInv, SavedInv, OutcomeFitsCloud
<1> QED BY <1>1, WatchCorrect, PTL

\* On a node whose address only providers change, no change of a provider is stored as a
\* natural one as long as no command was told unchanged (stepIPv4).
THEOREM ChangesAreAttributed == Spec => []CausedIsAttributed
<1>1. WatchInv => CausedIsAttributed
    BY DEF WatchInv, CauseInv, CausedInv, OnlyProviders, CausedIsAttributed
<1> QED BY <1>1, WatchCorrect, PTL
=============================================================================
