--------------------------------- MODULE Xui ---------------------------------
(***************************************************************************)
(* internal/modules/xui: Panel.Apply brings the owned clients of the local *)
(* 3x-ui panel to Cloud's targets, one panel request at a time, and keeps  *)
(* what it must remember in localState; Snapshots reads the traffic and    *)
(* labels it with the resets executed.  The two share Panel.mu.            *)
(*                                                                         *)
(* The panel and Xray are external.  A client is its secret, its enable    *)
(* flag and its traffic limit (0: none); the other fields are written and  *)
(* compared the same way.  An inbound in ss2022 speaks Shadowsocks 2022:   *)
(* what is written to it works only after Xray restarted.  The desired     *)
(* state engine calls Apply again and again (module Desired).              *)
(***************************************************************************)
EXTENDS Integers, FiniteSets

CONSTANTS
    Inbound,
    Owned,        \* emails of clients Cloud owns
    Foreign,      \* emails of other clients
    Home,         \* the inbound each client belongs to
    Secret,
    ForeignSecret, \* secrets of clients Cloud does not own
    Wish,         \* what Cloud may want of each owned client
    MaxTraffic, MaxSeq, MaxChanges,
    MaxFaults, MaxTotal  \* how often each kind of fault happens, and all together

Email == Owned \cup Foreign
\* refused: a panel request that fails; lost: one that fails though it was done;
\* save: a save that fails; late: one that fails after its rename.
FaultKind == {"crash", "refused", "lost", "save", "late"}
Client == [secret : Secret, enable : BOOLEAN, limit : 0..MaxTraffic]
Absent == [secret |-> "none", enable |-> FALSE, limit |-> 0]

ASSUME EmailsDisjoint == Owned \cap Foreign = {}
ASSUME EmailsFinite == IsFiniteSet(Owned) /\ IsFiniteSet(Foreign)
ASSUME HomeType == Home \in [Email -> Inbound]
ASSUME SecretNone == "none" \notin Secret /\ ForeignSecret \subseteq Secret
ASSUME WishType == Wish \in [Owned -> SUBSET Client]
ASSUME OwnSecrets == \A c, d \in Owned : \A v \in Wish[c], w \in Wish[d] :
                         c # d => v.secret # w.secret
ASSUME BoundsType == MaxTraffic \in Nat /\ MaxSeq \in Nat /\ MaxChanges \in Nat /\ MaxTotal \in Nat
ASSUME FaultsType == MaxFaults \in [FaultKind -> Nat]

VARIABLES
    present, ss2022,  \* inbounds the panel has; those of Shadowsocks 2022
    panel,            \* the client of each email in the panel, or Absent
    used,             \* its traffic, and Cloud's reset_seq when that began
    stale,            \* inbounds written since Xray was last started
    kind, want, seq,  \* Cloud's targets and reset_seq
    changes,
    mem, disk, dirty, \* localState and its file
    lock,             \* Panel.mu
    pc,               \* where Apply is
    snap,             \* the targets Apply was called with
    seen,             \* what Inbounds returned to it
    todo, cur,        \* inbounds to converge; the one in progress
    acts,             \* the writes of its plan still to be made
    reset,            \* the client whose reset is being recorded
    wrote, bad,       \* Apply's wrote; targets with an error code
    read,             \* the traffic a snapshot has read, if one is being taken
    done, twice,      \* resets the panel executed, and those it did again
    faults

hostVars  == <<present, ss2022>>
panelVars == <<panel, used, stale>>
cloudVars == <<kind, want, seq, changes>>
stateVars == <<mem, disk, dirty>>
applyVars == <<pc, snap, seen, todo, cur, acts, reset, wrote, bad>>
ghostVars == <<done, twice>>
vars == <<hostVars, panelVars, cloudVars, stateVars, lock, applyVars, read, ghostVars, faults>>

NoTraffic == [count |-> 0, since |-> 0]
NoResets == [c \in Owned |-> 0]
NoTargets == [kind |-> [i \in Inbound |-> "unnamed"], want |-> [c \in Owned |-> Absent],
              seq |-> NoResets]
NothingSeen == [panel |-> [c \in Email |-> Absent], count |-> NoResets]
NotReading == {}

Idle == /\ pc' = "idle" /\ snap' = NoTargets /\ seen' = NothingSeen
        /\ todo' = {} /\ cur' = {} /\ acts' = {} /\ reset' = {}
        /\ wrote' = FALSE /\ bad' = {}

Init ==
    /\ present \in SUBSET Inbound
    /\ ss2022 \in SUBSET Inbound
    /\ panel \in {p \in [Email -> Client \cup {Absent}] :
                     /\ \A c \in Owned : p[c] = Absent
                     /\ \A c \in Foreign : p[c] # Absent =>
                            /\ Home[c] \in present /\ p[c].secret \in ForeignSecret
                            /\ p[c].enable /\ p[c].limit = 0}
    /\ used = [c \in Owned |-> NoTraffic]
    /\ stale = {}
    /\ kind = NoTargets.kind /\ want = NoTargets.want /\ seq = NoResets /\ changes = 0
    /\ mem = [resets |-> NoResets, restart |-> FALSE]
    /\ disk = mem /\ dirty = FALSE
    /\ lock = "free"
    /\ pc = "idle" /\ snap = NoTargets /\ seen = NothingSeen
    /\ todo = {} /\ cur = {} /\ acts = {} /\ reset = {} /\ wrote = FALSE /\ bad = {}
    /\ read = NotReading
    /\ done = {} /\ twice = {}
    /\ faults = [f \in FaultKind |-> 0]

Spent == faults["crash"] + faults["refused"] + faults["lost"] + faults["save"] + faults["late"]
Fault(f) == /\ faults[f] < MaxFaults[f] /\ Spent < MaxTotal
            /\ faults' = [faults EXCEPT ![f] = @ + 1]

\* JSONFile.Save of s, which may fail before or after the file is replaced.
Save(s, ok) ==
    \/ ok /\ disk' = s /\ UNCHANGED faults
    \/ ~ok /\ Fault("save") /\ UNCHANGED disk
    \/ ~ok /\ Fault("late") /\ disk' = s

\* Client.call: ok tells what the caller learns, happened whether the panel
\* did what it was asked.
Call(ok, happened) ==
    \/ ok /\ happened /\ UNCHANGED faults
    \/ ~ok /\ ~happened /\ Fault("refused")
    \/ ~ok /\ happened /\ Fault("lost")

-----------------------------------------------------------------------------
(* plan: the writes that bring an inbound's owned clients to its target. *)

Of(i) == {c \in Owned : Home[c] = i}
Named(i) == snap.kind[i] = "target"
Held(i) == snap.kind[i] = "held"
Wanted(c) == IF Named(Home[c]) THEN snap.want[c] ELSE Absent

\* The client as the target wants it: one with its traffic used up stays
\* disabled, as the panel left it.
Goal(c, count) == [Wanted(c) EXCEPT !.enable = @ /\ (Wanted(c).limit = 0 \/ count[c] < Wanted(c).limit)]

\* Mutant: shared secrets are not looked for.
ConflictIgnored(i, p) == FALSE

\* A secret shared with a client Cloud does not own: the panel addresses
\* clients by secret (Shadowsocks: by email) and would reach that one too.
Conflict(i, p) ==
    LET taken == {p[f].secret : f \in {f \in Foreign : Home[f] = i /\ p[f] # Absent}}
    IN  \E c \in Of(i) : \/ i \notin ss2022 /\ p[c] # Absent /\ p[c].secret \in taken
                         \/ Wanted(c) # Absent /\ Wanted(c).secret \in taken

Unwanted(i, p) == {c \in Of(i) : p[c] # Absent /\ Wanted(c) = Absent}
Write(c, to) == [email |-> c, to |-> to]

\* Mutant: the last client is deleted like any other.
KeptNone(i, p) == {}

\* The panel refuses to delete an inbound's last client: it is disabled instead.
Kept(i, p) == IF \A c \in Email : Home[c] = i /\ p[c] # Absent => c \in Unwanted(i, p)
              THEN {{c} : c \in Unwanted(i, p)} ELSE {}

Plans(i, p, count) ==
    LET puts == {Write(c, Goal(c, count)) : c \in {c \in Of(i) :
                     Wanted(c) # Absent /\ p[c] # Goal(c, count)}}
        Disable(k) == {Write(c, [p[c] EXCEPT !.enable = FALSE]) : c \in {c \in k : p[c].enable}}
        Delete(k) == {Write(c, Absent) : c \in Unwanted(i, p) \ k}
    IN  {puts \cup Disable(k) \cup Delete(k) : k \in IF Kept(i, p) = {} THEN {{}} ELSE Kept(i, p)}

\* Deletions and the disabled client come before the clients of the target.
First(as) == LET out == {a \in as : Wanted(a.email) = Absent} IN IF out # {} THEN out ELSE as

-----------------------------------------------------------------------------
(* Panel.Apply, up to the plan of one inbound. *)

Targets == {i \in Inbound : Named(i)}
Return(codes) == pc' = "return" /\ bad' = codes
FailAll == Return(Targets)

\* Apply takes the lock and flushes what a failed save left in memory.
ApplyBegins ==
    /\ pc = "idle" /\ lock = "free"
    /\ lock' = "apply"
    /\ snap' = [kind |-> kind, want |-> want, seq |-> seq]
    /\ IF dirty
       THEN \E ok \in BOOLEAN : /\ Save(mem, ok)
                                /\ dirty' = ~ok
                                /\ IF ok THEN pc' = "read" /\ UNCHANGED bad
                                   ELSE pc' = "return" /\ bad' = {i \in Inbound : kind[i] = "target"}
       ELSE pc' = "read" /\ UNCHANGED <<disk, dirty, bad, faults>>
    /\ UNCHANGED <<hostVars, panelVars, cloudVars, mem, seen, todo, cur, acts, reset, wrote, read, ghostVars>>

ReadInbounds ==
    /\ pc = "read"
    /\ \E ok \in BOOLEAN :
          /\ Call(ok, ok)
          /\ IF ok
             THEN /\ seen' = [panel |-> panel, count |-> [c \in Owned |-> used[c].count]]
                  /\ todo' = {i \in present : ~Held(i)}
                  /\ pc' = "converge" /\ UNCHANGED bad
             ELSE FailAll /\ UNCHANGED <<seen, todo>>
    /\ UNCHANGED <<hostVars, panelVars, cloudVars, stateVars, lock, snap, cur, acts, reset, wrote, read, ghostVars>>

Due(i) == {c \in Of(i) : Wanted(c) # Absent /\ snap.seq[c] > mem.resets[c]}
Code(i) == bad \cup ({i} \cap Targets)

\* converge: nothing to do, a plan that is refused, resets to execute first, or
\* the writes of a plan.
Converge(i) ==
    /\ pc = "converge" /\ i \in todo
    /\ todo' = todo \ {i}
    /\ \/ /\ ~Named(i) /\ \A c \in Email : Home[c] = i => seen.panel[c] = Absent
          /\ UNCHANGED <<pc, cur, acts, bad>>
       \/ /\ Named(i) \/ \E c \in Email : Home[c] = i /\ seen.panel[c] # Absent
          /\ IF Conflict(i, seen.panel)
             THEN bad' = Code(i) /\ UNCHANGED <<pc, cur, acts>>
             ELSE /\ cur' = {i} /\ UNCHANGED bad
                  /\ IF Due(i) # {}
                     THEN pc' = "reset" /\ UNCHANGED acts
                     ELSE pc' = "mark" /\ acts' \in Plans(i, seen.panel, seen.count)
    /\ UNCHANGED <<hostVars, panelVars, cloudVars, stateVars, lock, snap, seen, reset, wrote, read, ghostVars, faults>>

\* converge returns an error: the inbound's other steps are skipped.
GiveUp(i) == pc' = "converge" /\ cur' = {} /\ acts' = {} /\ reset' = {} /\ bad' = Code(i)

\* reset: the panel clears the traffic of a client it has; one created later
\* starts empty.
ResetTraffic(c) ==
    /\ pc = "reset" /\ cur = {Home[c]} /\ c \in Due(Home[c])
    /\ IF seen.panel[c] = Absent
       THEN /\ pc' = "record" /\ reset' = {c}
            /\ UNCHANGED <<seen, cur, acts, bad, used, ghostVars, faults>>
       ELSE \E ok, happened \in BOOLEAN :
            /\ Call(ok, happened)
            /\ used' = IF happened THEN [used EXCEPT ![c] = NoTraffic] ELSE used
            /\ done' = IF happened THEN done \cup {<<c, snap.seq[c]>>} ELSE done
            /\ twice' = IF happened THEN twice \cup (done \cap {<<c, snap.seq[c]>>}) ELSE twice
            /\ IF ok
               THEN /\ pc' = "record" /\ reset' = {c}
                    /\ seen' = [seen EXCEPT !.count[c] = 0]
                    /\ UNCHANGED <<cur, acts, bad>>
               ELSE GiveUp(Home[c]) /\ UNCHANGED seen
    /\ UNCHANGED <<hostVars, panel, stale, cloudVars, stateVars, lock, snap, todo, wrote, read>>

\* Mutant: memory changes only once saved, as for the restart mark.
SetResetOnceSaved(c) ==
    /\ pc = "record" /\ reset = {c}
    /\ \E ok \in BOOLEAN :
          /\ Save([mem EXCEPT !.resets[c] = snap.seq[c]], ok)
          /\ IF ok THEN /\ mem' = [mem EXCEPT !.resets[c] = snap.seq[c]] /\ dirty' = FALSE
                        /\ pc' = "reset" /\ reset' = {} /\ UNCHANGED <<cur, acts, bad>>
             ELSE GiveUp(Home[c]) /\ UNCHANGED <<mem, dirty>>
    /\ UNCHANGED <<hostVars, panelVars, cloudVars, lock, snap, seen, todo, wrote, read, ghostVars>>

\* setReset: memory holds the reset at once; a failed save leaves it dirty.
SetReset(c) ==
    /\ pc = "record" /\ reset = {c}
    /\ mem' = [mem EXCEPT !.resets[c] = snap.seq[c]]
    /\ \E ok \in BOOLEAN :
          /\ Save(mem', ok)
          /\ dirty' = ~ok
          /\ IF ok THEN pc' = "reset" /\ reset' = {} /\ UNCHANGED <<cur, acts, bad>>
             ELSE GiveUp(Home[c])
    /\ UNCHANGED <<hostVars, panelVars, cloudVars, lock, snap, seen, todo, wrote, read, ghostVars>>

ResetsDone ==
    /\ pc = "reset"
    /\ \E i \in cur : Due(i) = {} /\ acts' \in Plans(i, seen.panel, seen.count)
    /\ pc' = "mark"
    /\ UNCHANGED <<hostVars, panelVars, cloudVars, stateVars, lock, snap, seen, todo, cur, reset, wrote, bad, read, ghostVars, faults>>

-----------------------------------------------------------------------------
(* Panel.Apply, from the writes of one inbound to the end. *)

\* setRestartPending: in memory only once saved.
SetRestartPending(pending, ok) ==
    IF mem.restart = pending
    THEN ok /\ UNCHANGED <<stateVars, faults>>
    ELSE /\ Save([mem EXCEPT !.restart = pending], ok)
         /\ IF ok THEN mem' = [mem EXCEPT !.restart = pending] /\ dirty' = FALSE
            ELSE UNCHANGED <<mem, dirty>>

\* The mark is saved before a Shadowsocks 2022 inbound is written.
Mark ==
    /\ pc = "mark"
    /\ \E i \in cur :
          IF acts # {} /\ i \in ss2022
          THEN \E ok \in BOOLEAN :
                  /\ SetRestartPending(TRUE, ok)
                  /\ IF ok THEN pc' = "write" /\ UNCHANGED <<cur, acts, reset, bad>>
                     ELSE GiveUp(i)
          ELSE pc' = "write" /\ UNCHANGED <<cur, acts, reset, bad, stateVars, faults>>
    /\ UNCHANGED <<hostVars, panelVars, cloudVars, lock, snap, seen, todo, wrote, read, ghostVars>>

\* The panel addresses a client by its secret, in Shadowsocks by its email, and
\* acts on every client that matches; it does not delete the last client.
Matches(i, c, d) ==
    /\ Home[d] = i /\ panel[d] # Absent
    /\ IF i \in ss2022 THEN d = c ELSE panel[d].secret = seen.panel[c].secret
Reached(i, a) == {d \in Email : IF seen.panel[a.email] = Absent THEN d = a.email
                                ELSE Matches(i, a.email, d)}
LastClient(i) == Cardinality({d \in Email : Home[d] = i /\ panel[d] # Absent}) = 1

\* AddClient, UpdateClient or DeleteClient.
WriteClient(a) ==
    /\ pc = "write" /\ a \in First(acts)
    /\ \E ok, happened \in BOOLEAN :
          LET i == Home[a.email]
              refused == a.to = Absent /\ LastClient(i)
          IN  /\ IF refused THEN ~ok /\ ~happened /\ UNCHANGED faults ELSE Call(ok, happened)
              /\ panel' = IF happened THEN [d \in Email |-> IF d \in Reached(i, a) THEN a.to ELSE panel[d]]
                          ELSE panel
              /\ used' = IF happened /\ a.to = Absent THEN [used EXCEPT ![a.email] = NoTraffic] ELSE used
              /\ stale' = IF happened /\ i \in ss2022 THEN stale \cup {i} ELSE stale
              /\ wrote' = (wrote \/ ok)
              /\ IF ok THEN acts' = acts \ {a} /\ UNCHANGED <<pc, cur, reset, bad>>
                 ELSE GiveUp(i)
    /\ UNCHANGED <<hostVars, cloudVars, stateVars, lock, snap, seen, todo, read, ghostVars>>

InboundDone ==
    /\ pc = "write" /\ acts = {}
    /\ pc' = "converge" /\ cur' = {}
    /\ UNCHANGED <<hostVars, panelVars, cloudVars, stateVars, lock, snap, seen, todo, acts, reset, wrote, bad, read, ghostVars, faults>>

\* A missing inbound is an error unless its target wants no client there.
Missing == {i \in Targets \ present : \E c \in Of(i) : snap.want[c] # Absent}

\* Mutant: Xray is restarted only in the pass that wrote.
AllConvergedWrote ==
    /\ pc = "converge" /\ todo = {}
    /\ bad' = bad \cup Missing
    /\ pc' = IF wrote THEN IF mem.restart THEN "restart" ELSE "verify" ELSE "keep"
    /\ seen' = NothingSeen
    /\ UNCHANGED <<hostVars, panelVars, cloudVars, stateVars, lock, snap, todo, cur, acts, reset, wrote, read, ghostVars, faults>>

AllConverged ==
    /\ pc = "converge" /\ todo = {}
    /\ bad' = bad \cup Missing
    /\ pc' = IF mem.restart THEN "restart" ELSE IF wrote THEN "verify" ELSE "keep"
    /\ seen' = NothingSeen
    /\ UNCHANGED <<hostVars, panelVars, cloudVars, stateVars, lock, snap, todo, cur, acts, reset, wrote, read, ghostVars, faults>>

Restart ==
    /\ pc = "restart"
    /\ \E ok, happened \in BOOLEAN :
          /\ Call(ok, happened)
          /\ stale' = IF happened THEN {} ELSE stale
          /\ IF ok THEN pc' = "unmark" /\ UNCHANGED bad ELSE FailAll
    /\ UNCHANGED <<hostVars, panel, used, cloudVars, stateVars, lock, snap, seen, todo, cur, acts, reset, wrote, read, ghostVars>>

Unmark ==
    /\ pc = "unmark"
    /\ \E ok \in BOOLEAN :
          /\ SetRestartPending(FALSE, ok)
          /\ IF ok THEN pc' = (IF wrote THEN "verify" ELSE "keep") /\ UNCHANGED bad ELSE FailAll
    /\ UNCHANGED <<hostVars, panelVars, cloudVars, lock, snap, seen, todo, cur, acts, reset, wrote, read, ghostVars>>

\* After a write the panel is read again: a plan that is left, or cannot be made,
\* is xui_unconfirmed.
Unconfirmed(i) ==
    \/ Conflict(i, panel)
    \/ Plans(i, panel, [c \in Owned |-> used[c].count]) # {{}}

Verify ==
    /\ pc = "verify"
    /\ \E ok \in BOOLEAN :
          /\ Call(ok, ok)
          /\ IF ok THEN pc' = "keep" /\ bad' = bad \cup {i \in Targets \cap present : Unconfirmed(i)}
             ELSE FailAll
    /\ UNCHANGED <<hostVars, panelVars, cloudVars, stateVars, lock, snap, seen, todo, cur, acts, reset, wrote, read, ghostVars>>

\* keepOnly, unless a held inbound's clients are unknown.
Forgotten == IF \E i \in Inbound : Held(i) THEN {}
             ELSE {c \in Owned : Wanted(c) = Absent /\ mem.resets[c] # 0}

KeepOnly ==
    /\ pc = "keep"
    /\ IF Forgotten = {}
       THEN pc' = "return" /\ UNCHANGED <<stateVars, bad, done, faults>>
       ELSE /\ mem' = [mem EXCEPT !.resets = [c \in Owned |-> IF c \in Forgotten THEN 0 ELSE @[c]]]
            /\ done' = {r \in done : r[1] \notin Forgotten}
            /\ \E ok \in BOOLEAN :
                  /\ Save(mem', ok)
                  /\ dirty' = ~ok
                  /\ IF ok THEN pc' = "return" /\ UNCHANGED bad ELSE FailAll
    /\ UNCHANGED <<hostVars, panelVars, cloudVars, lock, snap, seen, todo, cur, acts, reset, wrote, read, twice>>

Returns ==
    /\ pc = "return"
    /\ lock' = "free"
    /\ Idle
    /\ UNCHANGED <<hostVars, panelVars, cloudVars, stateVars, read, ghostVars, faults>>

Apply ==
    \/ ApplyBegins \/ ReadInbounds
    \/ \E i \in Inbound : Converge(i)
    \/ \E c \in Owned : ResetTraffic(c) \/ SetReset(c)
    \/ ResetsDone \/ Mark
    \/ \E a \in acts : WriteClient(a)
    \/ InboundDone \/ AllConverged \/ Restart \/ Unmark \/ Verify \/ KeepOnly \/ Returns

-----------------------------------------------------------------------------
(* Snapshots: readPanel reads the traffic and labels it, under the lock. *)

\* Mutant: the panel is read without the lock.
SnapshotReadsUnlocked ==
    /\ read = NotReading /\ UNCHANGED lock
    /\ read' = {[email |-> c, count |-> used[c].count, since |-> used[c].since] :
                   c \in {c \in Owned : panel[c] # Absent}}
    /\ UNCHANGED <<hostVars, panelVars, cloudVars, stateVars, applyVars, ghostVars, faults>>

SnapshotReads ==
    /\ lock = "free" /\ lock' = "snapshot"
    /\ read' = {[email |-> c, count |-> used[c].count, since |-> used[c].since] :
                   c \in {c \in Owned : panel[c] # Absent}}
    /\ UNCHANGED <<hostVars, panelVars, cloudVars, stateVars, applyVars, ghostVars, faults>>

\* The count of each client goes out with mem.resets of its email.
SnapshotLabels ==
    /\ lock = "snapshot" /\ lock' = "free"
    /\ read' = NotReading
    /\ UNCHANGED <<hostVars, panelVars, cloudVars, stateVars, applyVars, ghostVars, faults>>

\* The process ends and starts again from the file (openState).
Crash ==
    /\ Fault("crash")
    /\ mem' = disk /\ dirty' = FALSE
    /\ lock' = "free" /\ read' = NotReading
    /\ Idle
    /\ UNCHANGED <<hostVars, panelVars, cloudVars, disk, ghostVars>>

-----------------------------------------------------------------------------
(* Cloud, the clients' traffic and the panel's own limit (external). *)

Change == changes < MaxChanges /\ changes' = changes + 1
CloudOnly == UNCHANGED <<hostVars, panelVars, stateVars, lock, applyVars, read, ghostVars, faults>>

CloudWants(c, w) ==
    /\ Change
    /\ kind' = [kind EXCEPT ![Home[c]] = "target"]
    /\ want' = [want EXCEPT ![c] = w]
    /\ UNCHANGED seq /\ CloudOnly

\* A key is retired, or its new process has no usable target for it.
CloudNames(i, k) ==
    /\ Change
    /\ kind[i] # k
    /\ kind' = [kind EXCEPT ![i] = k]
    /\ want' = [c \in Owned |-> IF Home[c] = i THEN Absent ELSE want[c]]
    /\ UNCHANGED seq /\ CloudOnly

CloudResets(c) ==
    /\ want[c] # Absent /\ seq[c] < MaxSeq
    /\ seq' = [seq EXCEPT ![c] = @ + 1]
    /\ UNCHANGED <<kind, want, changes>> /\ CloudOnly

Traffic(c) ==
    /\ panel[c] # Absent /\ panel[c].enable /\ used[c].count < MaxTraffic
    /\ used' = [used EXCEPT ![c] = [count |-> @.count + 1,
                                     since |-> IF @.count = 0 THEN seq[c] ELSE @.since]]
    /\ UNCHANGED <<hostVars, panel, stale, cloudVars, stateVars, lock, applyVars, read, ghostVars, faults>>

\* The panel disables a client whose traffic limit is used up.
PanelDisables(c) ==
    /\ panel[c].enable /\ panel[c].limit # 0 /\ used[c].count >= panel[c].limit
    /\ panel' = [panel EXCEPT ![c].enable = FALSE]
    /\ UNCHANGED <<hostVars, used, stale, cloudVars, stateVars, lock, applyVars, read, ghostVars, faults>>

Cloud == \/ \E c \in Owned : CloudResets(c) \/ \E w \in Wish[c] \cup {Absent} : CloudWants(c, w)
         \/ \E i \in Inbound : \E k \in {"unnamed", "held"} : CloudNames(i, k)

Next == \/ Apply \/ SnapshotReads \/ SnapshotLabels \/ Crash \/ Cloud
        \/ \E c \in Owned : Traffic(c) \/ PanelDisables(c)

Spec == Init /\ [][Next]_vars

\* The engine calls Apply again and again, and its goroutine and the snapshot's
\* go on; the lock is taken in turn.
FairSpec == /\ Spec
            /\ SF_vars(ApplyBegins) /\ WF_vars(Apply)
            /\ WF_vars(SnapshotLabels)
            /\ \A c \in Owned : WF_vars(PanelDisables(c))

-----------------------------------------------------------------------------
(* Properties. *)

\* Every variable keeps its type; Apply works on an inbound only in the states
\* that belong to it, and only while it holds the lock.
TypeOK ==
    /\ present \subseteq Inbound /\ ss2022 \subseteq Inbound /\ stale \subseteq ss2022 \cap present
    /\ panel \in [Email -> Client \cup {Absent}]
    /\ \A c \in Email : panel[c] # Absent => Home[c] \in present
    /\ used \in [Owned -> [count : 0..MaxTraffic, since : 0..MaxSeq]]
    /\ \A c \in Owned : panel[c] = Absent => used[c] = NoTraffic
    /\ kind \in [Inbound -> {"unnamed", "held", "target"}]
    /\ want \in [Owned -> Client \cup {Absent}]
    /\ seq \in [Owned -> 0..MaxSeq]
    /\ mem \in [resets : [Owned -> 0..MaxSeq], restart : BOOLEAN]
    /\ disk \in [resets : [Owned -> 0..MaxSeq], restart : BOOLEAN]
    /\ dirty \in BOOLEAN
    /\ lock \in {"free", "apply", "snapshot"}
    /\ pc \in {"idle", "read", "converge", "reset", "record", "mark", "write", "restart",
               "unmark", "verify", "keep", "return"}
    /\ (lock = "apply") <=> (pc # "idle")
    /\ cur \subseteq present /\ Cardinality(cur) <= 1
    /\ (cur # {}) <=> (pc \in {"reset", "record", "mark", "write"})
    /\ \A a \in acts : {Home[a.email]} = cur
    /\ (reset # {}) <=> (pc = "record")

\* setReset, reset: a reset Cloud asked for once is executed once as long as the
\* process lives and the panel's answers arrive, whatever saves fail.
ResetOnce == faults["crash"] = 0 /\ faults["lost"] = 0 => twice = {}

\* readPanel under Panel.mu: traffic labelled with reset_seq n contains none
\* that flowed before Cloud asked for that reset.
LabelIsHonest == \A r \in read : r.count > 0 => r.since >= mem.resets[r.email]

\* An inbound is in Apply's target: all wanted clients as wanted, one with a limit
\* possibly disabled by the panel, no other owned client but a disabled last one.
Met(i) == /\ \A c \in Of(i) : Wanted(c) # Absent =>
                /\ panel[c].secret = Wanted(c).secret /\ panel[c].limit = Wanted(c).limit
                /\ panel[c].enable => Wanted(c).enable
                /\ Wanted(c).enable => panel[c].enable \/ panel[c].limit # 0
          /\ \A c \in Of(i) : Wanted(c) = Absent => ~panel[c].enable

\* A key Apply returns without a code is in its target and, for Shadowsocks 2022,
\* loaded by Xray, whichever earlier pass wrote it.  A save that fails after its
\* rename is the exception (setRestartPending).
StatusIsTrue == faults["late"] = 0 =>
    (pc = "return" => \A i \in Targets \ bad : Met(i) /\ i \notin stale)

\* No request of the module changes a client Cloud does not own.
ForeignUntouched == [][\A f \in Foreign : panel'[f] = panel[f]]_vars

\* The inbound is as Cloud wants it and, but for the same exception, loaded.
Settled(i) == /\ \A c \in Of(i) : LET w == IF kind[i] = "target" THEN want[c] ELSE Absent IN
                    IF w = Absent THEN ~panel[c].enable
                    ELSE /\ panel[c].secret = w.secret /\ panel[c].limit = w.limit
                         /\ panel[c].enable = (w.enable /\ (w.limit = 0 \/ used[c].count < w.limit))
              /\ faults["late"] = 0 => i \notin stale
\* No foreign client of the inbound has a secret Cloud may want there.
Clear(i) == \A f \in Foreign, c \in Owned, w \in Client :
               Home[f] = i /\ w \in Wish[c] /\ panel[f] # Absent => panel[f].secret # w.secret

\* When Cloud's targets no longer change, the panel ends up in them and stays there,
\* over failed requests, lost answers, failed saves and stops (Apply is repeated).
PanelConverges == \A i \in Inbound :
    (i \in present /\ Clear(i)) => <>[](kind[i] = "held" \/ Settled(i))
=============================================================================
