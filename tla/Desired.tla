------------------------------- MODULE Desired -------------------------------
(***************************************************************************)
(* One unit of internal/desired/engine.go: the Cloud-owned targets of a    *)
(* Desired module, kept in memory, applied by one goroutine and reported   *)
(* to Cloud with state.status.  Units share nothing, so one is enough.     *)
(*                                                                         *)
(* The reader of the control session calls Put and Keys; the unit's        *)
(* goroutine takes a snapshot under the lock, applies it without the lock  *)
(* and reports what it found, by which time the targets may have changed,  *)
(* the key may be retired and the session may be another one.              *)
(*                                                                         *)
(* The module behind Apply and Cloud are external.  A target is its        *)
(* version and what Cloud meant by it: "set", "empty" (the last target of  *)
(* a key about to retire) or "bad" (one Validate rejects).  The timer of   *)
(* recheck and backoff may fire whenever the goroutine waits.              *)
(***************************************************************************)
EXTENDS Integers, Sequences, FiniteSets

CONSTANTS
    Key,          \* keys of the module
    MaxVersion,   \* how many versions Cloud uses for each key
    MaxFaults     \* how often each kind of fault happens

FaultKind == {"break", "crash", "apply"}
ASSUME KeyFinite == IsFiniteSet(Key)
ASSUME MaxVersionType == MaxVersion \in [Key -> Nat]
ASSUME MaxFaultsType == MaxFaults \in [FaultKind -> Nat]

VARIABLES
    targets,    \* unit.targets: the last valid target of each key
    invalid,    \* unit.invalid: the version of a rejected target, or 0
    complete,   \* unit.complete: a key list has arrived
    sent,       \* unit.sent: the status last sent for each key
    wake,       \* unit.wake, a channel of one
    signalling, \* the reader has released the lock and not yet signalled
    pc,         \* where the unit's goroutine is
    snap,       \* states and invalid as pass copied them
    results,    \* the statuses pass reports
    todo,       \* keys of results still to be visited
    cur,        \* the key being sent, if any
    session,    \* "active": setActive done, ControlReady not yet
    down, up,   \* messages in flight to the Agent and to Cloud
    want,       \* Cloud's current target of each named key
    since,      \* the version with which Cloud last began to name a key
    last,       \* the last version Cloud used for a key
    known,      \* the status Cloud recorded for the current version
    node,       \* what the module has in place for each key: a version, or 0
    faults

unitVars    == <<targets, invalid, complete, sent>>
passVars    == <<pc, snap, results, todo, cur>>
wireVars    == <<down, up>>
cloudVars   == <<want, since, last, known>>
vars == <<unitVars, wake, signalling, passVars, session, wireVars, cloudVars, node, faults>>

Version == UNION {1..MaxVersion[k] : k \in Key}
Kind == {"set", "empty", "bad"}
Target == [ver : Version, kind : Kind]
None == [ver |-> 0, kind |-> "none"]
Code == {"ok", "failed", "target_invalid"}
Status == [ver : Version, code : Code]
NoStatus == [ver |-> 0, code |-> "none"]

PutMsg(k, t) == [type |-> "put", key |-> k, target |-> t]
KeysMsg(ks)  == [type |-> "keys", keys |-> ks]

NothingYet == [k \in Key |-> NoStatus]
NoTargets == [k \in Key |-> None]
Named(k) == targets[k] # None \/ invalid[k] # 0

Init ==
    /\ targets = NoTargets
    /\ invalid = [k \in Key |-> 0]
    /\ complete = FALSE
    /\ sent = NothingYet
    /\ wake = FALSE
    /\ signalling = FALSE
    /\ pc = "wait"
    /\ snap = [targets |-> NoTargets, invalid |-> [k \in Key |-> 0]]
    /\ results = NothingYet
    /\ todo = {}
    /\ cur = {}
    /\ session = "down"
    /\ down = <<>>
    /\ up = <<>>
    /\ want = NoTargets
    /\ since = [k \in Key |-> 0]
    /\ last = [k \in Key |-> 0]
    /\ known = NothingYet
    /\ node = [k \in Key |-> 0]
    /\ faults = [f \in FaultKind |-> 0]

Fault(f) == /\ faults[f] < MaxFaults[f]
            /\ faults' = [faults EXCEPT ![f] = @ + 1]

-----------------------------------------------------------------------------
(* The reader of the control session. *)

Receive(m) == session = "ready" /\ ~signalling /\ down # <<>> /\ Head(down) = m

\* Engine.Put: a rejected target leaves the key's previous one in place.
Put(k, t) ==
    /\ Receive(PutMsg(k, t))
    /\ down' = Tail(down)
    /\ IF t.kind # "bad"
       THEN /\ targets' = [targets EXCEPT ![k] = t]
            /\ invalid' = [invalid EXCEPT ![k] = 0]
       ELSE /\ invalid' = [invalid EXCEPT ![k] = t.ver]
            /\ UNCHANGED targets
    /\ signalling' = TRUE
    /\ UNCHANGED <<complete, sent, wake, passVars, session, up, cloudVars, node, faults>>

\* Mutant: the targets of retired keys stay.
KeysKeepTargets(ks) ==
    /\ Receive(KeysMsg(ks))
    /\ down' = Tail(down)
    /\ complete' = TRUE
    /\ signalling' = TRUE
    /\ UNCHANGED <<targets, invalid, sent, wake, passVars, session, up, cloudVars, node, faults>>

\* Engine.Keys: what Cloud no longer names is forgotten, and the unit may apply.
Keys(ks) ==
    /\ Receive(KeysMsg(ks))
    /\ down' = Tail(down)
    /\ targets' = [k \in Key |-> IF k \in ks THEN targets[k] ELSE None]
    /\ invalid' = [k \in Key |-> IF k \in ks THEN invalid[k] ELSE 0]
    /\ sent' = [k \in Key |-> IF k \in ks THEN sent[k] ELSE NoStatus]
    /\ complete' = TRUE
    /\ signalling' = TRUE
    /\ UNCHANGED <<wake, passVars, session, up, cloudVars, node, faults>>

\* unit.signal, after the lock: it never blocks.
Signal ==
    /\ signalling
    /\ signalling' = FALSE
    /\ wake' = TRUE
    /\ UNCHANGED <<unitVars, passVars, session, wireVars, cloudVars, node, faults>>

-----------------------------------------------------------------------------
(* The unit's goroutine. *)

passUnchanged == <<signalling, session, down, cloudVars>>

\* run: a wake-up, the settle delay, and whatever was signalled meanwhile.
Woken ==
    /\ pc = "wait"
    /\ wake
    /\ wake' = FALSE
    /\ pc' = "settle"
    /\ UNCHANGED <<unitVars, snap, results, todo, cur, passUnchanged, up, node, faults>>

Settled ==
    /\ pc = "settle"
    /\ wake' = FALSE
    /\ pc' = "pass"
    /\ UNCHANGED <<unitVars, snap, results, todo, cur, passUnchanged, up, node, faults>>

\* run: the recheck or retry timer.
TimerFires ==
    /\ pc = "wait"
    /\ pc' = "pass"
    /\ UNCHANGED <<unitVars, wake, snap, results, todo, cur, passUnchanged, up, node, faults>>

\* pass before the first key list.
PassEarly ==
    /\ pc = "pass"
    /\ ~complete
    /\ pc' = "wait"
    /\ UNCHANGED <<unitVars, wake, snap, results, todo, cur, passUnchanged, up, node, faults>>

\* pass under the lock.
TakeSnapshot ==
    /\ pc = "pass"
    /\ complete
    /\ snap' = [targets |-> targets, invalid |-> invalid]
    /\ pc' = "apply"
    /\ UNCHANGED <<unitVars, wake, results, todo, cur, passUnchanged, up, node, faults>>

SnapKeys == {k \in Key : snap.targets[k] # None \/ snap.invalid[k] # 0}

\* Mutant: the version is read after Apply instead of from the snapshot.
ResultOfCurrent(k, failed) ==
    IF snap.invalid[k] # 0 THEN [ver |-> snap.invalid[k], code |-> "target_invalid"]
    ELSE [ver |-> targets[k].ver, code |-> IF k \in failed THEN "failed" ELSE "ok"]

\* The statuses of a pass: a rejected version is reported whatever Apply did with
\* the previous target.
ResultOf(k, failed) ==
    IF snap.invalid[k] # 0 THEN [ver |-> snap.invalid[k], code |-> "target_invalid"]
    ELSE [ver |-> snap.targets[k].ver, code |-> IF k \in failed THEN "failed" ELSE "ok"]

\* Mutant: a key without a usable target is not passed to Apply as nil.
AppliedWithoutNil(k, failed, done, removed) ==
    IF snap.targets[k] # None
    THEN IF k \in failed \ done THEN node[k] ELSE snap.targets[k].ver
    ELSE IF ~removed THEN node[k] ELSE 0

\* Module.Apply (external): a key in its target, a failed one that may have got
\* there, one without a usable target left alone, the unnamed ones removed unless
\* the removal failed.
Applied(k, failed, done, removed) ==
    IF snap.targets[k] # None
    THEN IF k \in failed \ done THEN node[k] ELSE snap.targets[k].ver
    ELSE IF snap.invalid[k] # 0 \/ ~removed THEN node[k] ELSE 0

Apply ==
    /\ pc = "apply"
    /\ \E failed \in SUBSET {k \in Key : snap.targets[k] # None}, removed \in BOOLEAN :
       \E done \in SUBSET failed :
          /\ IF failed = {} /\ removed THEN UNCHANGED faults ELSE Fault("apply")
          /\ node' = [k \in Key |-> Applied(k, failed, done, removed)]
          /\ results' = [k \in Key |-> IF k \in SnapKeys THEN ResultOf(k, failed) ELSE NoStatus]
    /\ todo' = SnapKeys
    /\ pc' = "report"
    /\ UNCHANGED <<unitVars, wake, snap, cur, passUnchanged, up>>

\* Mutant: only a new version is worth a status.
ReportableByVersion(k) == Named(k) /\ sent[k].ver # results[k].ver

\* reportable: still named, and not what this session was told last.
Reportable(k) == Named(k) /\ sent[k] # results[k]

Check(k) ==
    /\ pc = "report"
    /\ k \in todo
    /\ todo' = todo \ {k}
    /\ IF Reportable(k) THEN pc' = "send" /\ cur' = {k} ELSE UNCHANGED <<pc, cur>>
    /\ UNCHANGED <<unitVars, wake, snap, results, passUnchanged, up, node, faults>>

\* Client.send: an error without a session; a write to a dead connection may
\* still report success.
Send(k) ==
    /\ pc = "send"
    /\ k \in cur
    /\ \/ /\ session \in {"active", "ready"}
          /\ up' = Append(up, [key |-> k, status |-> results[k]])
          /\ pc' = "record"
          /\ UNCHANGED cur
       \/ /\ session = "broken"
          /\ pc' = "record"
          /\ UNCHANGED <<up, cur>>
       \/ /\ session \in {"broken", "down"}
          /\ pc' = "report"
          /\ cur' = {}
          /\ UNCHANGED up
    /\ UNCHANGED <<unitVars, wake, snap, results, todo, passUnchanged, node, faults>>

Sent(k) ==
    /\ pc = "record"
    /\ k \in cur
    /\ sent' = IF Named(k) THEN [sent EXCEPT ![k] = results[k]] ELSE sent
    /\ pc' = "report"
    /\ cur' = {}
    /\ UNCHANGED <<targets, invalid, complete, wake, snap, results, todo,
                   passUnchanged, up, node, faults>>

\* Mutant: the channel is drained after the pass instead of before it.
PassEndsDrained ==
    /\ pc = "report"
    /\ todo = {}
    /\ pc' = "wait"
    /\ wake' = FALSE
    /\ results' = NothingYet
    /\ UNCHANGED <<unitVars, snap, todo, cur, passUnchanged, up, node, faults>>

PassEnds ==
    /\ pc = "report"
    /\ todo = {}
    /\ pc' = "wait"
    /\ results' = NothingYet
    /\ UNCHANGED <<unitVars, wake, snap, todo, cur, passUnchanged, up, node, faults>>

Unit == \/ Woken \/ Settled \/ TimerFires \/ PassEarly \/ TakeSnapshot \/ Apply
        \/ \E k \in Key : Check(k) \/ Send(k) \/ Sent(k)
        \/ PassEnds

-----------------------------------------------------------------------------
(* The session and the process. *)

\* The orders in which Cloud may send the keys it names.
Orders(S) == {q \in [1..Cardinality(S) -> S] :
                 \A i, j \in DOMAIN q : q[i] = q[j] => i = j}
CloudNamed == {k \in Key : want[k] # None}

\* runSession up to setActive; Cloud sends every target and then the key list.
Connect ==
    /\ session = "down"
    /\ session' = "active"
    /\ \E q \in Orders(CloudNamed) :
          down' = Append([i \in DOMAIN q |-> PutMsg(q[i], want[q[i]])], KeysMsg(CloudNamed))
    /\ UNCHANGED <<unitVars, wake, signalling, passVars, up, cloudVars, node, faults>>

ControlReady ==
    /\ session = "active"
    /\ session' = "ready"
    /\ sent' = NothingYet
    /\ UNCHANGED <<targets, invalid, complete, wake, signalling, passVars, wireVars,
                   cloudVars, node, faults>>

\* Nothing in flight arrives any more.
Break ==
    /\ session \in {"active", "ready"}
    /\ Fault("break")
    /\ session' = "broken"
    /\ down' = <<>>
    /\ up' = <<>>
    /\ UNCHANGED <<unitVars, wake, signalling, passVars, cloudVars, node>>

\* The reader returns and clearActive runs.
EndSession ==
    /\ session = "broken"
    /\ ~signalling
    /\ session' = "down"
    /\ UNCHANGED <<unitVars, wake, signalling, passVars, wireVars, cloudVars, node, faults>>

\* Targets live only in memory; what the module put in place stays.
Crash ==
    /\ Fault("crash")
    /\ targets' = NoTargets
    /\ invalid' = [k \in Key |-> 0]
    /\ complete' = FALSE
    /\ sent' = NothingYet
    /\ wake' = FALSE
    /\ signalling' = FALSE
    /\ pc' = "wait"
    /\ snap' = [targets |-> NoTargets, invalid |-> [k \in Key |-> 0]]
    /\ results' = NothingYet
    /\ todo' = {}
    /\ cur' = {}
    /\ session' = "down"
    /\ down' = <<>>
    /\ up' = <<>>
    /\ UNCHANGED <<cloudVars, node>>

-----------------------------------------------------------------------------
(* Cloud, as docs/PROTOCOL.md describes it (external). *)

Tell(msgs) == down' = IF session \in {"active", "ready"} THEN down \o msgs ELSE down

\* A new target for a key, which thereby becomes or stays named.
CloudPut(k, kind) ==
    /\ last[k] < MaxVersion[k]
    /\ want[k] = None => kind = "set"
    /\ LET t == [ver |-> last[k] + 1, kind |-> kind]
       IN  /\ last' = [last EXCEPT ![k] = t.ver]
           /\ want' = [want EXCEPT ![k] = t]
           /\ known' = [known EXCEPT ![k] = NoStatus]
           /\ IF want[k] = None
              THEN /\ since' = [since EXCEPT ![k] = t.ver]
                   /\ Tell(<<PutMsg(k, t), KeysMsg(CloudNamed \cup {k})>>)
              ELSE /\ Tell(<<PutMsg(k, t)>>)
                   /\ UNCHANGED since
    /\ UNCHANGED <<unitVars, wake, signalling, passVars, session, up, node, faults>>

\* A key leaves the list once its empty target is confirmed.
CloudRetire(k) ==
    /\ want[k].kind = "empty"
    /\ known[k] = [ver |-> want[k].ver, code |-> "ok"]
    /\ want' = [want EXCEPT ![k] = None]
    /\ known' = [known EXCEPT ![k] = NoStatus]
    /\ Tell(<<KeysMsg(CloudNamed \ {k})>>)
    /\ UNCHANGED <<unitVars, wake, signalling, passVars, session, up, since, last, node, faults>>

\* Only a status of the current version counts.
CloudRecords ==
    /\ session # "broken"
    /\ up # <<>>
    /\ LET m == Head(up)
       IN  known' = IF m.status.ver = want[m.key].ver
                    THEN [known EXCEPT ![m.key] = m.status] ELSE known
    /\ up' = Tail(up)
    /\ UNCHANGED <<unitVars, wake, signalling, passVars, session, down, want, since, last,
                   node, faults>>

-----------------------------------------------------------------------------
Next ==
    \/ \E k \in Key : \E t \in Target : Put(k, t)
    \/ \E ks \in SUBSET Key : Keys(ks)
    \/ Signal
    \/ Unit
    \/ Connect \/ ControlReady \/ Break \/ EndSession \/ Crash
    \/ \E k \in Key : CloudRetire(k) \/ \E kind \in Kind : CloudPut(k, kind)
    \/ CloudRecords

Spec == Init /\ [][Next]_vars

Reader == \/ \E k \in Key : \E t \in Target : Put(k, t)
          \/ \E ks \in SUBSET Key : Keys(ks)
          \/ Signal

\* The reader, the reconnect loop, the unit's goroutine and Cloud keep going.
\* What changes Cloud's mind and what fails owe nothing.
Fairness ==
    /\ WF_vars(Reader)
    /\ WF_vars(Unit)
    /\ WF_vars(Connect) /\ WF_vars(ControlReady) /\ WF_vars(EndSession)
    /\ WF_vars(CloudRecords)
    /\ \A k \in Key : WF_vars(CloudRetire(k))

FairSpec == Spec /\ Fairness

-----------------------------------------------------------------------------
(* Properties. *)

\* Every variable has its type.
TypeOK ==
    /\ targets \in [Key -> Target \cup {None}]
    /\ invalid \in [Key -> Version \cup {0}]
    /\ sent \in [Key -> Status \cup {NoStatus}]
    /\ complete \in BOOLEAN /\ wake \in BOOLEAN /\ signalling \in BOOLEAN
    /\ pc \in {"wait", "settle", "pass", "apply", "report", "send", "record"}
    /\ snap \in [targets : [Key -> Target \cup {None}], invalid : [Key -> Version \cup {0}]]
    /\ results \in [Key -> Status \cup {NoStatus}]
    /\ todo \subseteq Key /\ cur \subseteq Key
    /\ session \in {"down", "active", "ready", "broken"}
    /\ want \in [Key -> Target \cup {None}]
    /\ since \in [Key -> Version \cup {0}] /\ last \in [Key -> Version \cup {0}]
    /\ known \in [Key -> Status \cup {NoStatus}]
    /\ node \in [Key -> Version \cup {0}]
    /\ \A i \in DOMAIN up : up[i] \in [key : Key, status : Status]

\* No pass removes what a key that is still named owns, neither when only part of
\* the targets has arrived nor when a target is unusable (unit.complete, the nil
\* target of a rejected key).
RemovesOnlyRetired ==
    [][\A k \in Key :
          node[k] # 0 /\ node'[k] = 0 => want[k] = None \/ node[k] < since[k]]_vars

\* When Cloud has retired a key, the node is in the key's last, empty target or has
\* removed it: the confirmation Cloud acted on was about that target and no pass
\* brings an older one back (results are built from the snapshot Apply saw).
RetiredIsClean == \A k \in Key : want[k] = None => node[k] \in {0, last[k]}

\* The goroutine never sleeps over a change: with no wake-up pending, the last pass
\* saw the targets as they are (Put and Keys signal after, not before; run drains
\* the channel before pass copies the targets).
NoLostWake ==
    pc = "wait" /\ ~wake /\ ~signalling /\ complete
        => snap = [targets |-> targets, invalid |-> invalid]

\* In the end the node is in Cloud's target of every named key with a usable one,
\* and has removed the rest.
NodeConverges ==
    <>[](\A k \in Key : CASE want[k] = None -> node[k] = 0
                          [] want[k].kind = "bad" -> TRUE
                          [] OTHER -> node[k] = want[k].ver)

\* In the end Cloud knows the outcome of the current version of every named key: a
\* new session is told everything again (ControlReady).
StatusReachesCloud ==
    <>[](\A k \in Key : want[k] # None =>
            known[k] = [ver |-> want[k].ver,
                        code |-> IF want[k].kind = "bad" THEN "target_invalid" ELSE "ok"])

\* Where no connection is lost, whatever else fails, Cloud ends up knowing the outcome
\* of every named key: a new version, a retired key named again and a new process
\* are all reported (unit.reportable).
StatusReachesUnbroken == [](faults["break"] = 0) => StatusReachesCloud
==============================================================================
