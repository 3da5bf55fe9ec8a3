------------------------------ MODULE XuiProofs ------------------------------
(***************************************************************************)
(* Theorems about Xui: whatever requests and saves fail, Panel.Apply       *)
(* touches no client Cloud does not own, executes a reset once, labels     *)
(* traffic with the resets before it and reports no target it is not in.   *)
(***************************************************************************)
EXTENDS Xui, FiniteSetTheorems, TLAPS

-----------------------------------------------------------------------------
(* Clients, and the writes of a plan. *)

MaybeClient == Client \cup {Absent}
\* The secrets Cloud may give a client; no two owned clients share one.
SecretsOf(c) == {w.secret : w \in Wish[c]}
Fits(c, x) == x = Absent \/ (x \in Client /\ x.secret \in SecretsOf(c))
Disabled(x) == [x EXCEPT !.enable = FALSE]
\* What the panel may have made of a client since it was read.
Same(x, y) == y = x \/ (x.limit # 0 /\ y = Disabled(x))

\* A client is not the absent one, and disabling changes nothing else.
LEMMA ClientFacts ==
    /\ Absent \notin Client /\ ~Absent.enable /\ Absent.limit = 0
    /\ \A x \in Client : /\ Disabled(x) \in Client /\ Disabled(x).secret = x.secret
                         /\ Disabled(x).limit = x.limit /\ ~Disabled(x).enable
                         /\ Disabled(Disabled(x)) = Disabled(x)
<1>1. Absent \notin Client /\ ~Absent.enable /\ Absent.limit = 0
    BY SecretNone DEF Absent, Client
<1>2. ASSUME NEW x \in Client
      PROVE  /\ Disabled(x) \in Client /\ Disabled(x).secret = x.secret
             /\ Disabled(x).limit = x.limit /\ ~Disabled(x).enable
             /\ Disabled(Disabled(x)) = Disabled(x)
    BY DEF Client, Disabled
<1> QED BY <1>1, <1>2

\* A client the panel has disabled since is the same but for the flag.
LEMMA SameFacts ==
    ASSUME NEW x \in MaybeClient, NEW y, Same(x, y)
    PROVE  /\ y \in MaybeClient /\ (y = Absent <=> x = Absent)
           /\ y.secret = x.secret /\ y.limit = x.limit
           /\ y.enable => x.enable
           /\ x.enable => y.enable \/ y.limit # 0
           /\ y.limit # 0 => Same(x, Disabled(y))
<1>1. CASE y = x
    BY <1>1 DEF Same
<1>2. CASE x.limit # 0 /\ y = Disabled(x)
    <2>1. x \in Client
        BY <1>2, ClientFacts DEF MaybeClient
    <2> QED BY <1>2, <2>1, ClientFacts DEF MaybeClient, Same
<1> QED BY <1>1, <1>2 DEF Same

\* Owned clients differ in their secrets.
LEMMA SecretsDiffer ==
    ASSUME NEW c \in Owned, NEW d \in Owned, NEW x, NEW y, Fits(c, x), Fits(d, y),
           x # Absent, y # Absent, x.secret = y.secret
    PROVE  c = d
<1>1. PICK v \in Wish[c] : x.secret = v.secret
    BY DEF Fits, SecretsOf
<1>2. PICK w \in Wish[d] : y.secret = w.secret
    BY DEF Fits, SecretsOf
<1> QED BY <1>1, <1>2, OwnSecrets

\* What the target wants of a client is one of Cloud's wishes.
WantsFit == \A c \in Owned : Fits(c, snap.want[c])
LEMMA WantedFits ==
    ASSUME WantsFit, NEW c \in Owned
    PROVE  Fits(c, Wanted(c)) /\ Wanted(c) \in MaybeClient
BY DEF WantsFit, Fits, Wanted, MaybeClient

\* The goal differs from it by the flag.
LEMMA GoalFits ==
    ASSUME WantsFit, NEW c \in Owned, NEW count, Wanted(c) # Absent
    PROVE  /\ Goal(c, count) \in Client /\ Fits(c, Goal(c, count)) /\ Goal(c, count) # Absent
           /\ Goal(c, count).secret = Wanted(c).secret /\ Goal(c, count).limit = Wanted(c).limit
           /\ Goal(c, count).enable => Wanted(c).enable
           /\ Wanted(c).enable => Goal(c, count).enable \/ Goal(c, count).limit # 0
<1>1. Wanted(c) \in Client /\ Wanted(c).secret \in SecretsOf(c)
    BY WantedFits DEF Fits
<1> DEFINE on == Wanted(c).enable /\ (Wanted(c).limit = 0 \/ count[c] < Wanted(c).limit)
<1>2. Goal(c, count) = [Wanted(c) EXCEPT !.enable = on]
    BY DEF Goal
<1>3. on \in BOOLEAN /\ (on => Wanted(c).enable) /\ (Wanted(c).enable => on \/ Wanted(c).limit # 0)
    OBVIOUS
<1> HIDE DEF on
<1>4. /\ Goal(c, count) \in Client /\ Goal(c, count).secret = Wanted(c).secret
      /\ Goal(c, count).limit = Wanted(c).limit /\ Goal(c, count).enable = on
    BY <1>1, <1>2, <1>3 DEF Client
<1> QED BY <1>1, <1>3, <1>4, ClientFacts DEF Fits

\* A plan writes clients of its inbound, and what Cloud may want of them.
LEMMA PlanWrites ==
    ASSUME WantsFit, NEW i, NEW p, NEW count, \A c \in Owned : Fits(c, p[c]),
           NEW as \in Plans(i, p, count), NEW a \in as
    PROVE  a.email \in Owned /\ Home[a.email] = i /\ Fits(a.email, a.to)
<1> DEFINE puts == {Write(c, Goal(c, count)) : c \in {c \in Of(i) :
                       Wanted(c) # Absent /\ p[c] # Goal(c, count)}}
           Disable(k) == {Write(c, [p[c] EXCEPT !.enable = FALSE]) : c \in {c \in k : p[c].enable}}
           Delete(k) == {Write(c, Absent) : c \in Unwanted(i, p) \ k}
<1>1. PICK k \in IF Kept(i, p) = {} THEN {{}} ELSE Kept(i, p) : as = puts \cup Disable(k) \cup Delete(k)
    BY DEF Plans
<1>2. k \subseteq Unwanted(i, p)
    BY <1>1 DEF Kept
<1>3. \A c \in Unwanted(i, p) : c \in Owned /\ Home[c] = i /\ p[c] # Absent
    BY DEF Unwanted, Of
<1>4. CASE a \in puts
    <2>1. PICK c \in Of(i) : Wanted(c) # Absent /\ a = Write(c, Goal(c, count))
        BY <1>4
    <2>2. c \in Owned /\ Home[c] = i
        BY DEF Of
    <2> QED BY <2>1, <2>2, GoalFits DEF Write
<1>5. CASE a \in Disable(k)
    <2>1. PICK c \in k : a = Write(c, Disabled(p[c]))
        BY <1>5 DEF Disabled
    <2>2. c \in Owned /\ Home[c] = i /\ p[c] \in Client /\ p[c].secret \in SecretsOf(c)
        BY <1>2, <1>3 DEF Fits
    <2> QED BY <2>1, <2>2, ClientFacts DEF Write, Fits
<1>6. CASE a \in Delete(k)
    <2>1. PICK c \in Unwanted(i, p) : a = Write(c, Absent)
        BY <1>6
    <2> QED BY <1>3, <2>1 DEF Write, Fits
<1> QED BY <1>1, <1>4, <1>5, <1>6

\* An inbound whose clients are p is in its target.
MetBy(i, p) == /\ \A c \in Of(i) : Wanted(c) # Absent =>
                     /\ p[c].secret = Wanted(c).secret /\ p[c].limit = Wanted(c).limit
                     /\ p[c].enable => Wanted(c).enable
                     /\ Wanted(c).enable => p[c].enable \/ p[c].limit # 0
               /\ \A c \in Of(i) : Wanted(c) = Absent => ~p[c].enable

\* A plan without a write is of an inbound that is in its target.
LEMMA EmptyPlan ==
    ASSUME WantsFit, NEW i, NEW p, NEW count, {} \in Plans(i, p, count)
    PROVE  MetBy(i, p)
<1> DEFINE puts == {Write(c, Goal(c, count)) : c \in {c \in Of(i) :
                       Wanted(c) # Absent /\ p[c] # Goal(c, count)}}
           Disable(k) == {Write(c, [p[c] EXCEPT !.enable = FALSE]) : c \in {c \in k : p[c].enable}}
           Delete(k) == {Write(c, Absent) : c \in Unwanted(i, p) \ k}
<1>1. PICK k \in IF Kept(i, p) = {} THEN {{}} ELSE Kept(i, p) : {} = puts \cup Disable(k) \cup Delete(k)
    BY DEF Plans
<1>2. \A c \in Of(i) : Wanted(c) # Absent => p[c] = Goal(c, count)
    <2> SUFFICES ASSUME NEW c \in Of(i), Wanted(c) # Absent, p[c] # Goal(c, count) PROVE FALSE
        OBVIOUS
    <2>1. Write(c, Goal(c, count)) \in puts
        OBVIOUS
    <2> QED BY <1>1, <2>1
<1>3. \A c \in Of(i) : Wanted(c) = Absent => ~p[c].enable
    <2> SUFFICES ASSUME NEW c \in Of(i), Wanted(c) = Absent, p[c].enable PROVE FALSE
        OBVIOUS
    <2>1. c \in Unwanted(i, p)
        BY ClientFacts DEF Unwanted
    <2>2. c \in k
        <3> SUFFICES ASSUME c \notin k PROVE FALSE
            OBVIOUS
        <3>1. Write(c, Absent) \in Delete(k)
            BY <2>1
        <3> QED BY <1>1, <3>1
    <2>3. Write(c, [p[c] EXCEPT !.enable = FALSE]) \in Disable(k)
        BY <2>2
    <2> QED BY <1>1, <2>3
<1>4. \A c \in Of(i) : c \in Owned
    BY DEF Of
<1> QED BY <1>2, <1>3, <1>4, GoalFits DEF MetBy

\* What the panel disables of its own leaves an inbound in its target.
LEMMA MetStays ==
    ASSUME NEW i, NEW p, NEW q, MetBy(i, p), \A c \in Of(i) : p[c] \in MaybeClient /\ Same(p[c], q[c])
    PROVE  MetBy(i, q)
<1>1. \A c \in Of(i) : /\ q[c].secret = p[c].secret /\ q[c].limit = p[c].limit
                       /\ q[c].enable => p[c].enable
                       /\ p[c].enable => q[c].enable \/ q[c].limit # 0
    BY SameFacts
<1> QED BY <1>1 DEF MetBy
-----------------------------------------------------------------------------
(* Types. *)

Local == [resets : [Owned -> 0..MaxSeq], restart : BOOLEAN]
Inside == {"reset", "record", "mark", "write"}

\* The panel has owned clients only as Cloud may want them.
HostOK ==
    /\ present \subseteq Inbound /\ ss2022 \subseteq Inbound /\ stale \subseteq ss2022 \cap present
    /\ panel \in [Email -> MaybeClient]
    /\ \A c \in Email : panel[c] # Absent => Home[c] \in present
    /\ \A c \in Owned : Fits(c, panel[c])
    /\ used \in [Owned -> [count : 0..MaxTraffic, since : 0..MaxSeq]]
    /\ \A c \in Owned : panel[c] = Absent => used[c] = NoTraffic
CloudOK ==
    /\ kind \in [Inbound -> {"unnamed", "held", "target"}]
    /\ want \in [Owned -> MaybeClient] /\ \A c \in Owned : Fits(c, want[c])
    /\ seq \in [Owned -> 0..MaxSeq]
StateOK == mem \in Local /\ disk \in Local /\ dirty \in BOOLEAN
FaultsOK == faults \in [FaultKind -> Nat]
LockOK == lock \in {"free", "apply", "snapshot"} /\ ((lock = "apply") <=> (pc # "idle"))
\* What Apply was called with and what it read.
HeldOK ==
    /\ snap \in [kind : [Inbound -> {"unnamed", "held", "target"}],
                 want : [Owned -> MaybeClient], seq : [Owned -> 0..MaxSeq]]
    /\ WantsFit
    /\ seen \in [panel : [Email -> MaybeClient], count : [Owned -> 0..MaxTraffic]]
    /\ \A c \in Owned : Fits(c, seen.panel[c])
\* Where Apply is, and what it works on there.
WorkOK ==
    /\ pc \in {"idle", "read", "converge", "reset", "record", "mark", "write", "restart",
               "unmark", "verify", "keep", "return"}
    /\ todo \subseteq present /\ cur \subseteq present /\ cur \cap todo = {}
    /\ \A i, j \in cur : i = j
    /\ (cur # {}) <=> (pc \in Inside)
    /\ \A a \in acts : a.email \in Owned /\ Fits(a.email, a.to) /\ cur = {Home[a.email]}
    /\ acts # {} => pc \in {"mark", "write"}
    /\ (reset # {}) <=> (pc = "record")
    /\ \A c \in reset : c \in Owned /\ cur = {Home[c]} /\ reset = {c}
    /\ wrote \in BOOLEAN
TypeInv == HostOK /\ CloudOK /\ StateOK /\ FaultsOK /\ LockOK /\ HeldOK /\ WorkOK

\* The strengthened type invariant is the one TLC checks, and more.
LEMMA TypeInvTypes == TypeInv => TypeOK
<1> SUFFICES ASSUME TypeInv PROVE TypeOK
    OBVIOUS
<1> USE DEF TypeInv
<1>1. Cardinality(cur) <= 1
    <2>1. CASE cur = {}
        BY <2>1, FS_EmptySet
    <2>2. CASE cur # {}
        <3>1. PICK i : i \in cur
            BY <2>2
        <3>2. cur = {i}
            BY <3>1 DEF WorkOK
        <3>3. Cardinality({i}) = 1
            BY FS_Singleton, Zenon
        <3> QED BY <3>2, <3>3
    <2> QED BY <2>1, <2>2
<1>2. \A a \in acts : {Home[a.email]} = cur
    BY DEF WorkOK
<1>3. panel \in [Email -> Client \cup {Absent}] /\ want \in [Owned -> Client \cup {Absent}]
    BY DEF HostOK, CloudOK, MaybeClient
<1> QED BY <1>1, <1>2, <1>3 DEF TypeOK, HostOK, CloudOK, StateOK, LockOK, WorkOK, Inside, Local

\* Nothing is wanted, nothing is seen: the fields of an Apply that is not running.
LEMMA NothingTyped ==
    /\ NoTargets \in [kind : [Inbound -> {"unnamed", "held", "target"}],
                      want : [Owned -> MaybeClient], seq : [Owned -> 0..MaxSeq]]
    /\ NothingSeen \in [panel : [Email -> MaybeClient], count : [Owned -> 0..MaxTraffic]]
    /\ \A c \in Owned : NoTargets.want[c] = Absent /\ NothingSeen.panel[c] = Absent
    /\ NoResets \in [Owned -> 0..MaxSeq]
    /\ \A c \in Owned : NoTargets.seq[c] = 0 /\ NoResets[c] = 0
    /\ \A i \in Inbound : NoTargets.kind[i] = "unnamed"
<1>1. NoResets \in [Owned -> 0..MaxSeq] /\ NoResets \in [Owned -> 0..MaxTraffic]
    BY BoundsType DEF NoResets
<1> QED BY <1>1 DEF NoTargets, NothingSeen, MaybeClient, NoResets, Email

LEMMA TypeInit == Init => TypeInv
<1> SUFFICES ASSUME Init PROVE TypeInv
    OBVIOUS
<1> USE DEF Init
<1>1. HostOK
    <2>1. panel \in [Email -> MaybeClient] /\ \A c \in Owned : panel[c] = Absent
        BY DEF MaybeClient
    <2>2. \A c \in Email : panel[c] # Absent => Home[c] \in present
        BY DEF Email
    <2>3. used \in [Owned -> [count : 0..MaxTraffic, since : 0..MaxSeq]] /\ \A c \in Owned : used[c] = NoTraffic
        BY BoundsType DEF NoTraffic
    <2> QED BY <2>1, <2>2, <2>3 DEF HostOK, Fits
<1>2. CloudOK
    BY NothingTyped DEF CloudOK, NoTargets, Fits
<1>3. StateOK
    BY NothingTyped DEF StateOK, Local
<1>4. FaultsOK
    BY DEF FaultsOK
<1>5. LockOK
    BY DEF LockOK
<1>6. HeldOK
    BY NothingTyped DEF HeldOK, WantsFit, Fits
<1>7. WorkOK
    BY DEF WorkOK, Inside
<1> QED BY <1>1, <1>2, <1>3, <1>4, <1>5, <1>6, <1>7 DEF TypeInv

\* Faults are only counted up.
LEMMA FaultStep ==
    ASSUME FaultsOK, NEW f \in FaultKind, Fault(f)
    PROVE  FaultsOK' /\ faults'[f] > 0 /\ \A g \in FaultKind : faults'[g] >= faults[g]
BY DEF FaultsOK, Fault

LEMMA SaveFaults ==
    ASSUME FaultsOK, NEW s, NEW ok, Save(s, ok)
    PROVE  FaultsOK' /\ \A g \in FaultKind : faults'[g] >= faults[g]
<1>1. CASE UNCHANGED faults
    BY <1>1 DEF FaultsOK
<1> QED BY <1>1, FaultStep DEF Save, FaultKind

LEMMA CallFaults ==
    ASSUME FaultsOK, NEW ok, NEW happened, Call(ok, happened)
    PROVE  FaultsOK' /\ \A g \in FaultKind : faults'[g] >= faults[g]
<1>1. CASE UNCHANGED faults
    BY <1>1 DEF FaultsOK
<1> QED BY <1>1, FaultStep DEF Call, FaultKind

\* Every step counts the faults it takes.
LEMMA FaultsGrow ==
    ASSUME FaultsOK, [Next]_vars
    PROVE  FaultsOK' /\ \A g \in FaultKind : faults'[g] >= faults[g]
<1>1. CASE UNCHANGED faults
    BY <1>1 DEF FaultsOK
<1>2. CASE ApplyBegins
    BY <1>1, <1>2, SaveFaults DEF ApplyBegins
<1>3. CASE ReadInbounds
    BY <1>3, CallFaults DEF ReadInbounds
<1>4. CASE \E i \in Inbound : Converge(i)
    BY <1>1, <1>4 DEF Converge
<1>5. ASSUME NEW c \in Owned, ResetTraffic(c) PROVE FaultsOK' /\ \A g \in FaultKind : faults'[g] >= faults[g]
    BY <1>1, <1>5, CallFaults DEF ResetTraffic
<1>6. ASSUME NEW c \in Owned, SetReset(c) PROVE FaultsOK' /\ \A g \in FaultKind : faults'[g] >= faults[g]
    BY <1>6, SaveFaults DEF SetReset
<1>7. CASE ResetsDone
    BY <1>1, <1>7 DEF ResetsDone
<1>8. CASE Mark
    BY <1>1, <1>8, SaveFaults DEF Mark, SetRestartPending
<1>9. ASSUME NEW a \in acts, WriteClient(a) PROVE FaultsOK' /\ \A g \in FaultKind : faults'[g] >= faults[g]
    BY <1>1, <1>9, CallFaults DEF WriteClient
<1>10. CASE InboundDone \/ AllConverged
    BY <1>1, <1>10 DEF InboundDone, AllConverged
<1>11. CASE Restart
    BY <1>11, CallFaults DEF Restart
<1>12. CASE Unmark
    BY <1>1, <1>12, SaveFaults DEF Unmark, SetRestartPending
<1>13. CASE Verify
    BY <1>13, CallFaults DEF Verify
<1>14. CASE KeepOnly
    BY <1>1, <1>14, SaveFaults DEF KeepOnly
<1>15. CASE Returns \/ SnapshotReads \/ SnapshotLabels
    BY <1>1, <1>15 DEF Returns, SnapshotReads, SnapshotLabels
<1>16. CASE Crash
    BY <1>16, FaultStep DEF Crash, FaultKind
<1>17. CASE Cloud
    BY <1>1, <1>17 DEF Cloud, CloudResets, CloudWants, CloudNames, CloudOnly
<1>18. CASE \E c \in Owned : Traffic(c) \/ PanelDisables(c)
    BY <1>1, <1>18 DEF Traffic, PanelDisables
<1>19. CASE UNCHANGED vars
    BY <1>1, <1>19 DEF vars
<1> QED BY <1>2, <1>3, <1>4, <1>5, <1>6, <1>7, <1>8, <1>9, <1>10, <1>11, <1>12, <1>13, <1>14,
           <1>15, <1>16, <1>17, <1>18, <1>19 DEF Next, Apply

\* What a save leaves in the file.
LEMMA SaveFile ==
    ASSUME FaultsOK, NEW s, NEW ok, Save(s, ok)
    PROVE  /\ disk' = s \/ disk' = disk
           /\ ok => disk' = s
           /\ ~ok /\ faults'["late"] = 0 => disk' = disk
<1>1. CASE ok /\ disk' = s /\ UNCHANGED faults
    BY <1>1
<1>2. CASE ~ok /\ Fault("save") /\ UNCHANGED disk
    BY <1>2
<1>3. CASE ~ok /\ Fault("late") /\ disk' = s
    <2>1. faults'["late"] > 0
        BY <1>3, FaultStep DEF FaultKind
    <2> QED BY <1>3, <2>1
<1> QED BY <1>1, <1>2, <1>3 DEF Save

\* The restart mark in memory and in the file.
LEMMA MarkFile ==
    ASSUME FaultsOK, StateOK, NEW pending \in BOOLEAN, NEW ok, SetRestartPending(pending, ok)
    PROVE  /\ StateOK'
           /\ mem'.resets = mem.resets /\ (disk'.resets = mem.resets \/ disk' = disk)
           /\ ok => mem'.restart = pending
           /\ ~ok => mem' = mem
           /\ faults'["late"] = 0 /\ mem.restart = disk.restart => mem'.restart = disk'.restart
<1>1. CASE mem.restart = pending
    BY <1>1 DEF SetRestartPending, StateOK, stateVars
<1>2. CASE mem.restart # pending
    <2> DEFINE s == [mem EXCEPT !.restart = pending]
    <2>1. s \in Local /\ s.resets = mem.resets /\ s.restart = pending
        BY DEF StateOK, Local
    <2>2. /\ Save(s, ok)
          /\ IF ok THEN mem' = s /\ dirty' = FALSE ELSE UNCHANGED <<mem, dirty>>
        BY <1>2 DEF SetRestartPending
    <2> HIDE DEF s
    <2>3. /\ disk' = s \/ disk' = disk
          /\ ok => disk' = s
          /\ ~ok /\ faults'["late"] = 0 => disk' = disk
        BY <2>2, SaveFile
    <2> QED BY <2>1, <2>2, <2>3 DEF StateOK
<1> QED BY <1>1, <1>2

\* A write of an owned client reaches no other owned client, and none elsewhere.
LEMMA ReachesOne ==
    ASSUME HostOK, HeldOK, WorkOK, NEW a \in acts, NEW d \in Reached(Home[a.email], a)
    PROVE  d \in Email /\ Home[d] = Home[a.email] /\ (d \in Owned => d = a.email)
<1>1. a.email \in Owned
    BY DEF WorkOK
<1>2. CASE seen.panel[a.email] = Absent
    BY <1>1, <1>2 DEF Reached, Email
<1>3. CASE seen.panel[a.email] # Absent
    <2>1. d \in Email /\ Matches(Home[a.email], a.email, d)
        BY <1>3 DEF Reached
    <2>2. ASSUME d \in Owned PROVE d = a.email
        <3>1. CASE Home[a.email] \in ss2022
            BY <2>1, <3>1 DEF Matches
        <3>2. CASE Home[a.email] \notin ss2022
            <4>1. panel[d] # Absent /\ panel[d].secret = seen.panel[a.email].secret
                BY <2>1, <3>2 DEF Matches
            <4>2. Fits(d, panel[d]) /\ Fits(a.email, seen.panel[a.email])
                BY <1>1, <2>2 DEF HostOK, HeldOK
            <4> QED BY <1>1, <1>3, <2>2, <4>1, <4>2, SecretsDiffer
        <3> QED BY <3>1, <3>2
    <2> QED BY <2>1, <2>2 DEF Matches
<1> QED BY <1>2, <1>3

\* What a write does to the panel.
Rewritten(a) == panel' = [d \in Email |-> IF d \in Reached(Home[a.email], a) THEN a.to ELSE panel[d]]
LEMMA WriteCases ==
    ASSUME WorkOK, NEW a \in acts, WriteClient(a)
    PROVE  /\ \/ UNCHANGED panelVars
              \/ /\ Rewritten(a)
                 /\ IF a.to = Absent THEN used' = [used EXCEPT ![a.email] = NoTraffic] ELSE used' = used
                 /\ stale' = IF Home[a.email] \in ss2022 THEN stale \cup {Home[a.email]} ELSE stale
           /\ \/ /\ wrote' = TRUE /\ acts' = acts \ {a} /\ UNCHANGED <<pc, cur, reset, bad>>
              \/ wrote' = wrote /\ GiveUp(Home[a.email])
           /\ UNCHANGED <<hostVars, cloudVars, stateVars, lock, snap, seen, todo, read, ghostVars>>
<1>1. PICK ok, happened \in BOOLEAN :
          /\ panel' = IF happened THEN [d \in Email |-> IF d \in Reached(Home[a.email], a) THEN a.to ELSE panel[d]]
                      ELSE panel
          /\ used' = IF happened /\ a.to = Absent THEN [used EXCEPT ![a.email] = NoTraffic] ELSE used
          /\ stale' = IF happened /\ Home[a.email] \in ss2022 THEN stale \cup {Home[a.email]} ELSE stale
          /\ wrote' = (wrote \/ ok)
          /\ IF ok THEN acts' = acts \ {a} /\ UNCHANGED <<pc, cur, reset, bad>>
             ELSE GiveUp(Home[a.email])
    BY Zenon DEF WriteClient
<1>2. \/ wrote' = TRUE /\ acts' = acts \ {a} /\ UNCHANGED <<pc, cur, reset, bad>>
      \/ wrote' = wrote /\ GiveUp(Home[a.email])
    <2>1. CASE ok
        BY <1>1, <2>1
    <2>2. CASE ~ok
        <3>1. wrote' = (wrote \/ FALSE) /\ GiveUp(Home[a.email])
            BY <1>1, <2>2
        <3>2. wrote' = wrote
            BY <3>1, Zenon DEF WorkOK
        <3> QED BY <3>1, <3>2
    <2> QED BY <2>1, <2>2
<1>3. UNCHANGED <<hostVars, cloudVars, stateVars, lock, snap, seen, todo, read, ghostVars>>
    BY Zenon DEF WriteClient
<1>4. CASE happened
    <2>1. /\ Rewritten(a)
          /\ IF a.to = Absent THEN used' = [used EXCEPT ![a.email] = NoTraffic] ELSE used' = used
          /\ stale' = IF Home[a.email] \in ss2022 THEN stale \cup {Home[a.email]} ELSE stale
        BY <1>1, <1>4 DEF Rewritten
    <2> QED BY <1>2, <1>3, <2>1, Zenon
<1>5. CASE ~happened
    <2>1. UNCHANGED panelVars
        BY <1>1, <1>5 DEF panelVars
    <2> QED BY <1>2, <1>3, <2>1, Zenon
<1> QED BY <1>4, <1>5

LEMMA HostStep ==
    ASSUME TypeInv, [Next]_vars
    PROVE  HostOK'
<1> USE DEF TypeInv
<1>1. CASE UNCHANGED <<hostVars, panelVars>>
    BY <1>1 DEF HostOK, hostVars, panelVars
<1>2. ASSUME NEW c \in Owned, ResetTraffic(c) PROVE HostOK'
    <2>1. UNCHANGED <<hostVars, panel, stale>>
        BY <1>2 DEF ResetTraffic
    <2>2. used' = [used EXCEPT ![c] = NoTraffic] \/ used' = used
        BY <1>2 DEF ResetTraffic
    <2>3. NoTraffic \in [count : 0..MaxTraffic, since : 0..MaxSeq]
        BY BoundsType DEF NoTraffic
    <2>4. used' \in [Owned -> [count : 0..MaxTraffic, since : 0..MaxSeq]]
        BY <2>2, <2>3 DEF HostOK
    <2>5. \A d \in Owned : panel[d] = Absent => used'[d] = NoTraffic
        BY <2>2 DEF HostOK
    <2> QED BY <2>1, <2>4, <2>5 DEF HostOK, hostVars
<1>3. ASSUME NEW a \in acts, WriteClient(a) PROVE HostOK'
    <2>1. UNCHANGED hostVars
        BY <1>3, WriteCases
    <2>2. CASE UNCHANGED panelVars
        BY <1>1, <2>1, <2>2
    <2>3. CASE /\ Rewritten(a)
               /\ IF a.to = Absent THEN used' = [used EXCEPT ![a.email] = NoTraffic] ELSE used' = used
               /\ stale' = IF Home[a.email] \in ss2022 THEN stale \cup {Home[a.email]} ELSE stale
        <3>1. a.email \in Owned /\ Fits(a.email, a.to) /\ Home[a.email] \in present
            BY DEF WorkOK
        <3>2. a.to \in MaybeClient
            BY <3>1 DEF Fits, MaybeClient
        <3>3. panel' \in [Email -> MaybeClient]
            BY <2>3, <3>2 DEF Rewritten, HostOK
        <3>4. \A c \in Email : panel'[c] = IF c \in Reached(Home[a.email], a) THEN a.to ELSE panel[c]
            BY <2>3 DEF Rewritten
        <3>5. \A c \in Email : panel'[c] # Absent => Home[c] \in present
            BY <3>1, <3>4, ReachesOne DEF HostOK
        <3>6. \A c \in Owned : c \in Email
            BY DEF Email
        <3>7. \A c \in Owned : Fits(c, panel'[c])
            BY <3>1, <3>4, <3>6, ReachesOne DEF HostOK
        <3>8. used' \in [Owned -> [count : 0..MaxTraffic, since : 0..MaxSeq]]
            BY <2>3, BoundsType DEF HostOK, NoTraffic
        <3>9. \A c \in Owned : panel'[c] = Absent => used'[c] = NoTraffic
            <4> SUFFICES ASSUME NEW c \in Owned, panel'[c] = Absent PROVE used'[c] = NoTraffic
                OBVIOUS
            <4>1. CASE c \in Reached(Home[a.email], a)
                <5>1. c = a.email /\ a.to = Absent
                    BY <3>4, <3>6, <4>1, ReachesOne
                <5> QED BY <2>3, <5>1 DEF HostOK
            <4>2. CASE c \notin Reached(Home[a.email], a)
                <5>1. used[c] = NoTraffic
                    BY <3>4, <3>6, <4>2 DEF HostOK
                <5> QED BY <2>3, <5>1 DEF HostOK
            <4> QED BY <4>1, <4>2
        <3>10. stale' \subseteq ss2022 \cap present
            BY <2>3, <3>1 DEF HostOK
        <3> QED BY <2>1, <3>3, <3>5, <3>7, <3>8, <3>9, <3>10 DEF HostOK, hostVars
    <2> QED BY <1>3, <2>2, <2>3, WriteCases
<1>4. CASE Restart
    <2>1. UNCHANGED <<hostVars, panel, used>> /\ (stale' = {} \/ stale' = stale)
        BY <1>4 DEF Restart
    <2> QED BY <2>1 DEF HostOK, hostVars
<1>5. ASSUME NEW c \in Owned, Traffic(c) PROVE HostOK'
    <2> DEFINE u == [count |-> used[c].count + 1,
                     since |-> IF used[c].count = 0 THEN seq[c] ELSE used[c].since]
    <2>1. /\ panel[c] # Absent /\ used[c].count < MaxTraffic
          /\ used' = [used EXCEPT ![c] = u]
          /\ UNCHANGED <<hostVars, panel, stale>>
        BY <1>5 DEF Traffic
    <2>2. u \in [count : 0..MaxTraffic, since : 0..MaxSeq]
        BY <2>1, BoundsType DEF HostOK, CloudOK
    <2> HIDE DEF u
    <2>3. used' \in [Owned -> [count : 0..MaxTraffic, since : 0..MaxSeq]]
        BY <2>1, <2>2 DEF HostOK
    <2>4. \A d \in Owned : panel[d] = Absent => used'[d] = NoTraffic
        BY <2>1 DEF HostOK
    <2> QED BY <2>1, <2>3, <2>4 DEF HostOK, hostVars
<1>6. ASSUME NEW c \in Owned, PanelDisables(c) PROVE HostOK'
    <2>1. /\ panel[c].enable /\ panel' = [panel EXCEPT ![c] = Disabled(panel[c])]
          /\ UNCHANGED <<hostVars, used, stale>>
        BY <1>6 DEF PanelDisables, Disabled
    <2>2. c \in Email /\ panel[c] \in Client
        BY <2>1, ClientFacts DEF Email, HostOK, MaybeClient
    <2>3. /\ Disabled(panel[c]) \in Client /\ Disabled(panel[c]) # Absent
          /\ Disabled(panel[c]).secret = panel[c].secret /\ panel[c] # Absent
        BY <2>2, ClientFacts
    <2>4. panel' \in [Email -> MaybeClient]
        BY <2>1, <2>2, <2>3 DEF HostOK, MaybeClient
    <2>5. \A d \in Email : panel'[d] # Absent => Home[d] \in present
        BY <2>1, <2>3 DEF HostOK
    <2>6. \A d \in Owned : Fits(d, panel'[d])
        BY <2>1, <2>2, <2>3 DEF HostOK, Fits, Email
    <2>7. \A d \in Owned : panel'[d] = Absent => used[d] = NoTraffic
        BY <2>1, <2>2, <2>3 DEF HostOK, Email
    <2> QED BY <2>1, <2>4, <2>5, <2>6, <2>7 DEF HostOK, hostVars
<1>7. CASE ApplyBegins \/ ReadInbounds \/ \E i \in Inbound : Converge(i)
    BY <1>1, <1>7 DEF ApplyBegins, ReadInbounds, Converge
<1>8. CASE (\E c \in Owned : SetReset(c)) \/ ResetsDone \/ Mark \/ InboundDone \/ AllConverged
    BY <1>1, <1>8 DEF SetReset, ResetsDone, Mark, InboundDone, AllConverged
<1>9. CASE Unmark \/ Verify \/ KeepOnly \/ Returns
    BY <1>1, <1>9 DEF Unmark, Verify, KeepOnly, Returns
<1>10. CASE SnapshotReads \/ SnapshotLabels \/ Crash
    BY <1>1, <1>10 DEF SnapshotReads, SnapshotLabels, Crash
<1>11. CASE Cloud
    BY <1>1, <1>11 DEF Cloud, CloudResets, CloudWants, CloudNames, CloudOnly
<1>12. CASE UNCHANGED vars
    BY <1>1, <1>12 DEF vars
<1> QED BY <1>2, <1>3, <1>4, <1>5, <1>6, <1>7, <1>8, <1>9, <1>10, <1>11, <1>12 DEF Next, Apply

LEMMA CloudStep ==
    ASSUME CloudOK, [Next]_vars
    PROVE  CloudOK'
<1>1. CASE UNCHANGED cloudVars
    BY <1>1 DEF CloudOK, cloudVars
<1>2. ASSUME NEW c \in Owned, CloudResets(c) PROVE CloudOK'
    BY <1>2, BoundsType DEF CloudResets, CloudOK
<1>3. ASSUME NEW c \in Owned, NEW w \in Wish[c] \cup {Absent}, CloudWants(c, w) PROVE CloudOK'
    <2>1. /\ kind' = [kind EXCEPT ![Home[c]] = "target"] /\ want' = [want EXCEPT ![c] = w]
          /\ seq' = seq
        BY <1>3 DEF CloudWants
    <2>2. w \in MaybeClient /\ Fits(c, w)
        BY WishType DEF MaybeClient, Fits, SecretsOf
    <2>3. want' \in [Owned -> MaybeClient] /\ \A d \in Owned : Fits(d, want'[d])
        BY <2>1, <2>2 DEF CloudOK
    <2> QED BY <2>1, <2>3 DEF CloudOK
<1>4. ASSUME NEW i \in Inbound, NEW k \in {"unnamed", "held"}, CloudNames(i, k) PROVE CloudOK'
    <2>1. /\ kind' = [kind EXCEPT ![i] = k] /\ seq' = seq
          /\ want' = [c \in Owned |-> IF Home[c] = i THEN Absent ELSE want[c]]
        BY <1>4 DEF CloudNames
    <2>2. want' \in [Owned -> MaybeClient] /\ \A d \in Owned : Fits(d, want'[d])
        BY <2>1 DEF CloudOK, MaybeClient, Fits
    <2>3. kind' \in [Inbound -> {"unnamed", "held", "target"}]
        BY <2>1 DEF CloudOK
    <2> QED BY <2>1, <2>2, <2>3 DEF CloudOK
<1>5. CASE ApplyBegins \/ ReadInbounds \/ \E i \in Inbound : Converge(i)
    BY <1>1, <1>5 DEF ApplyBegins, ReadInbounds, Converge
<1>6. CASE \E c \in Owned : ResetTraffic(c) \/ SetReset(c)
    BY <1>1, <1>6 DEF ResetTraffic, SetReset
<1>7. CASE ResetsDone \/ Mark \/ (\E a \in acts : WriteClient(a)) \/ InboundDone \/ AllConverged
    BY <1>1, <1>7 DEF ResetsDone, Mark, WriteClient, InboundDone, AllConverged
<1>8. CASE Restart \/ Unmark \/ Verify \/ KeepOnly \/ Returns
    BY <1>1, <1>8 DEF Restart, Unmark, Verify, KeepOnly, Returns
<1>9. CASE SnapshotReads \/ SnapshotLabels \/ Crash
    BY <1>1, <1>9 DEF SnapshotReads, SnapshotLabels, Crash
<1>10. CASE \E c \in Owned : Traffic(c) \/ PanelDisables(c)
    BY <1>1, <1>10 DEF Traffic, PanelDisables
<1>11. CASE UNCHANGED vars
    BY <1>1, <1>11 DEF vars
<1> QED BY <1>2, <1>3, <1>4, <1>5, <1>6, <1>7, <1>8, <1>9, <1>10, <1>11 DEF Next, Apply, Cloud

\* How memory and the file change; all other steps leave both alone.
LEMMA BeginCases ==
    ASSUME FaultsOK, StateOK, ApplyBegins
    PROVE  /\ pc = "idle" /\ lock = "free" /\ lock' = "apply" /\ mem' = mem
           /\ snap' = [kind |-> kind, want |-> want, seq |-> seq]
           /\ disk' = disk \/ disk' = mem
           /\ dirty' \in BOOLEAN
           /\ \/ pc' = "read" /\ bad' = bad
              \/ pc' = "return" /\ bad' = {i \in Inbound : kind[i] = "target"}
           /\ UNCHANGED <<hostVars, panelVars, cloudVars, seen, todo, cur, acts, reset, wrote, read, ghostVars>>
<1>1. CASE dirty
    <2>1. PICK ok \in BOOLEAN : /\ Save(mem, ok) /\ dirty' = ~ok
                                /\ IF ok THEN pc' = "read" /\ UNCHANGED bad
                                   ELSE pc' = "return" /\ bad' = {i \in Inbound : kind[i] = "target"}
        BY <1>1 DEF ApplyBegins
    <2>2. disk' = mem \/ disk' = disk
        BY <2>1, SaveFile
    <2> QED BY <2>1, <2>2 DEF ApplyBegins
<1>2. CASE ~dirty
    <2>1. dirty' = dirty /\ disk' = disk /\ pc' = "read" /\ bad' = bad
        BY <1>2 DEF ApplyBegins
    <2> QED BY <1>2, <2>1 DEF ApplyBegins, StateOK
<1> QED BY <1>1, <1>2

LEMMA SetResetCases ==
    ASSUME FaultsOK, NEW c \in Owned, SetReset(c)
    PROVE  /\ pc = "record" /\ reset = {c}
           /\ mem' = [mem EXCEPT !.resets[c] = snap.seq[c]]
           /\ disk' = mem' \/ disk' = disk
           /\ dirty' \in BOOLEAN
           /\ \/ pc' = "reset" /\ reset' = {} /\ UNCHANGED <<cur, acts, bad>>
              \/ GiveUp(Home[c])
           /\ UNCHANGED <<hostVars, panelVars, cloudVars, lock, snap, seen, todo, wrote, read, ghostVars>>
<1>1. PICK ok \in BOOLEAN : /\ Save(mem', ok) /\ dirty' = ~ok
                            /\ IF ok THEN pc' = "reset" /\ reset' = {} /\ UNCHANGED <<cur, acts, bad>>
                               ELSE GiveUp(Home[c])
    BY DEF SetReset
<1>2. disk' = mem' \/ disk' = disk
    BY <1>1, SaveFile
<1> QED BY <1>1, <1>2 DEF SetReset

LEMMA KeepCases ==
    ASSUME FaultsOK, StateOK, KeepOnly
    PROVE  /\ pc = "keep" /\ pc' = "return"
           /\ bad' = bad \/ bad' = Targets
           /\ \/ UNCHANGED <<stateVars, done>>
              \/ /\ mem' = [mem EXCEPT !.resets = [c \in Owned |-> IF c \in Forgotten THEN 0 ELSE mem.resets[c]]]
                 /\ disk' = mem' \/ disk' = disk
                 /\ dirty' \in BOOLEAN
                 /\ done' = {r \in done : r[1] \notin Forgotten}
           /\ UNCHANGED <<hostVars, panelVars, cloudVars, lock, snap, seen, todo, cur, acts, reset, wrote, read, twice>>
<1>1. CASE Forgotten = {}
    BY <1>1 DEF KeepOnly
<1>2. CASE Forgotten # {}
    <2>1. PICK ok \in BOOLEAN : /\ Save(mem', ok) /\ dirty' = ~ok
                                /\ IF ok THEN pc' = "return" /\ UNCHANGED bad ELSE FailAll
        BY <1>2 DEF KeepOnly
    <2>2. disk' = mem' \/ disk' = disk
        BY <2>1, SaveFile
    <2>3. mem' = [mem EXCEPT !.resets = [c \in Owned |-> IF c \in Forgotten THEN 0 ELSE mem.resets[c]]]
        BY <1>2 DEF KeepOnly
    <2> QED BY <1>2, <2>1, <2>2, <2>3 DEF KeepOnly, FailAll, Return
<1> QED BY <1>1, <1>2

LEMMA StateStep ==
    ASSUME TypeInv, [Next]_vars
    PROVE  StateOK'
<1> USE DEF TypeInv
<1>1. CASE UNCHANGED stateVars
    BY <1>1 DEF StateOK, stateVars
<1>2. CASE ApplyBegins
    BY <1>2, BeginCases DEF StateOK
<1>3. ASSUME NEW c \in Owned, SetReset(c) PROVE StateOK'
    <2>1. mem' \in Local
        BY <1>3, SetResetCases DEF StateOK, Local, HeldOK
    <2> QED BY <1>3, <2>1, SetResetCases DEF StateOK
<1>4. CASE Mark
    BY <1>1, <1>4, MarkFile DEF Mark
<1>5. CASE Unmark
    BY <1>1, <1>5, MarkFile DEF Unmark
<1>6. CASE KeepOnly
    <2>1. CASE mem' = [mem EXCEPT !.resets = [c \in Owned |-> IF c \in Forgotten THEN 0 ELSE mem.resets[c]]]
        <3> DEFINE left == [c \in Owned |-> IF c \in Forgotten THEN 0 ELSE mem.resets[c]]
        <3>1. left \in [Owned -> 0..MaxSeq]
            BY BoundsType DEF StateOK, Local
        <3>2. mem' = [mem EXCEPT !.resets = left]
            BY <2>1
        <3> HIDE DEF left
        <3>3. mem' \in Local
            BY <3>1, <3>2 DEF StateOK, Local
        <3> QED BY <1>1, <1>6, <3>3, KeepCases DEF StateOK
    <2> QED BY <1>1, <1>6, <2>1, KeepCases
<1>7. CASE ReadInbounds \/ \E i \in Inbound : Converge(i)
    BY <1>1, <1>7 DEF ReadInbounds, Converge
<1>8. CASE (\E c \in Owned : ResetTraffic(c)) \/ ResetsDone
    BY <1>1, <1>8 DEF ResetTraffic, ResetsDone
<1>9. CASE (\E a \in acts : WriteClient(a)) \/ InboundDone \/ AllConverged
    BY <1>1, <1>9 DEF WriteClient, InboundDone, AllConverged
<1>10. CASE Restart \/ Verify \/ Returns
    BY <1>1, <1>10 DEF Restart, Verify, Returns
<1>11. CASE SnapshotReads \/ SnapshotLabels
    BY <1>1, <1>11 DEF SnapshotReads, SnapshotLabels
<1>12. CASE Crash
    BY <1>12 DEF Crash, StateOK
<1>13. CASE Cloud
    BY <1>1, <1>13 DEF Cloud, CloudResets, CloudWants, CloudNames, CloudOnly
<1>14. CASE \E c \in Owned : Traffic(c) \/ PanelDisables(c)
    BY <1>1, <1>14 DEF Traffic, PanelDisables
<1>15. CASE UNCHANGED vars
    BY <1>1, <1>15 DEF vars
<1> QED BY <1>2, <1>3, <1>4, <1>5, <1>6, <1>7, <1>8, <1>9, <1>10, <1>11, <1>12, <1>13, <1>14, <1>15
        DEF Next, Apply

LEMMA HeldStep ==
    ASSUME TypeInv, [Next]_vars
    PROVE  HeldOK'
<1> USE DEF TypeInv
<1>1. CASE UNCHANGED <<snap, seen>>
    BY <1>1 DEF HeldOK, WantsFit
<1>2. CASE ApplyBegins
    <2>1. snap' = [kind |-> kind, want |-> want, seq |-> seq] /\ seen' = seen
        BY <1>2, BeginCases
    <2> QED BY <2>1 DEF HeldOK, WantsFit, CloudOK
<1>3. CASE ReadInbounds
    <2>1. CASE seen' = [panel |-> panel, count |-> [c \in Owned |-> used[c].count]]
        <3>1. [c \in Owned |-> used[c].count] \in [Owned -> 0..MaxTraffic]
            BY DEF HostOK
        <3>2. /\ seen' \in [panel : [Email -> MaybeClient], count : [Owned -> 0..MaxTraffic]]
              /\ \A c \in Owned : Fits(c, seen'.panel[c])
            BY <2>1, <3>1 DEF HostOK
        <3>3. snap' = snap
            BY <1>3 DEF ReadInbounds
        <3> QED BY <3>2, <3>3 DEF HeldOK, WantsFit
    <2> QED BY <1>1, <1>3, <2>1 DEF ReadInbounds
<1>4. ASSUME NEW c \in Owned, ResetTraffic(c) PROVE HeldOK'
    <2>1. CASE seen' = [seen EXCEPT !.count[c] = 0]
        <3>1. /\ seen' \in [panel : [Email -> MaybeClient], count : [Owned -> 0..MaxTraffic]]
              /\ seen'.panel = seen.panel
            BY <2>1, BoundsType DEF HeldOK
        <3>2. snap' = snap
            BY <1>4 DEF ResetTraffic
        <3> QED BY <3>1, <3>2 DEF HeldOK, WantsFit
    <2> QED BY <1>1, <1>4, <2>1 DEF ResetTraffic
<1>5. CASE AllConverged
    <2>1. snap' = snap /\ seen' = NothingSeen
        BY <1>5 DEF AllConverged
    <2> QED BY <2>1, NothingTyped DEF HeldOK, WantsFit, Fits
<1>6. CASE Returns \/ Crash
    <2>1. snap' = NoTargets /\ seen' = NothingSeen
        BY <1>6 DEF Returns, Crash, Idle
    <2> QED BY <2>1, NothingTyped DEF HeldOK, WantsFit, Fits
<1>7. CASE (\E i \in Inbound : Converge(i)) \/ (\E c \in Owned : SetReset(c)) \/ ResetsDone \/ Mark
    BY <1>1, <1>7 DEF Converge, SetReset, ResetsDone, Mark
<1>8. CASE (\E a \in acts : WriteClient(a)) \/ InboundDone \/ Restart \/ Unmark \/ Verify \/ KeepOnly
    BY <1>1, <1>8 DEF WriteClient, InboundDone, Restart, Unmark, Verify, KeepOnly
<1>9. CASE SnapshotReads \/ SnapshotLabels
    BY <1>1, <1>9 DEF SnapshotReads, SnapshotLabels, applyVars
<1>10. CASE Cloud
    BY <1>1, <1>10 DEF Cloud, CloudResets, CloudWants, CloudNames, CloudOnly, applyVars
<1>11. CASE \E c \in Owned : Traffic(c) \/ PanelDisables(c)
    BY <1>1, <1>11 DEF Traffic, PanelDisables, applyVars
<1>12. CASE UNCHANGED vars
    BY <1>1, <1>12 DEF vars, applyVars
<1> QED BY <1>2, <1>3, <1>4, <1>5, <1>6, <1>7, <1>8, <1>9, <1>10, <1>11, <1>12 DEF Next, Apply

LEMMA LockStep ==
    ASSUME TypeInv, [Next]_vars
    PROVE  LockOK'
<1> USE DEF TypeInv
<1>1. CASE lock' = lock /\ pc' # "idle" /\ pc # "idle"
    BY <1>1 DEF LockOK
<1>2. CASE UNCHANGED <<lock, pc>>
    BY <1>2 DEF LockOK
<1>3. CASE ApplyBegins
    BY <1>3, BeginCases DEF LockOK
<1>4. CASE ReadInbounds \/ \E i \in Inbound : Converge(i)
    BY <1>1, <1>4 DEF ReadInbounds, Converge, FailAll, Return
<1>5. CASE \E c \in Owned : ResetTraffic(c) \/ SetReset(c)
    BY <1>1, <1>5 DEF ResetTraffic, SetReset, GiveUp
<1>6. CASE ResetsDone \/ Mark
    BY <1>1, <1>6 DEF ResetsDone, Mark, GiveUp
<1>7. CASE \E a \in acts : WriteClient(a)
    BY <1>1, <1>7 DEF WriteClient, GiveUp
<1>8. CASE InboundDone \/ AllConverged \/ Restart
    BY <1>1, <1>8 DEF InboundDone, AllConverged, Restart, FailAll, Return
<1>9. CASE Unmark \/ Verify \/ KeepOnly
    BY <1>1, <1>9 DEF Unmark, Verify, KeepOnly, FailAll, Return
<1>10. CASE Returns \/ Crash
    BY <1>10 DEF Returns, Crash, Idle, LockOK
<1>11. CASE SnapshotReads \/ SnapshotLabels
    BY <1>11 DEF SnapshotReads, SnapshotLabels, applyVars, LockOK
<1>12. CASE Cloud
    BY <1>2, <1>12 DEF Cloud, CloudResets, CloudWants, CloudNames, CloudOnly, applyVars
<1>13. CASE \E c \in Owned : Traffic(c) \/ PanelDisables(c)
    BY <1>2, <1>13 DEF Traffic, PanelDisables, applyVars
<1>14. CASE UNCHANGED vars
    BY <1>2, <1>14 DEF vars, applyVars
<1> QED BY <1>3, <1>4, <1>5, <1>6, <1>7, <1>8, <1>9, <1>10, <1>11, <1>12, <1>13, <1>14 DEF Next, Apply

\* Converge and ResetsDone end in a plan of the inbound.
LEMMA PlanWorks ==
    ASSUME HeldOK, NEW i, NEW as \in Plans(i, seen.panel, seen.count), NEW a \in as
    PROVE  a.email \in Owned /\ Fits(a.email, a.to) /\ Home[a.email] = i
<1>1. PICK p, count : p = seen.panel /\ count = seen.count
    OBVIOUS
<1>2. WantsFit /\ \A c \in Owned : Fits(c, p[c])
    BY <1>1 DEF HeldOK
<1>3. as \in Plans(i, p, count)
    BY <1>1
<1> QED BY <1>2, <1>3, PlanWrites, Zenon

LEMMA ConvergeCases ==
    ASSUME NEW i \in Inbound, Converge(i)
    PROVE  /\ pc = "converge" /\ i \in todo /\ todo' = todo \ {i}
           /\ \/ ~Named(i) /\ UNCHANGED <<pc, cur, acts, bad>>
              \/ bad' = Code(i) /\ UNCHANGED <<pc, cur, acts>>
              \/ /\ ~Conflict(i, seen.panel) /\ cur' = {i} /\ bad' = bad
                 /\ \/ pc' = "reset" /\ acts' = acts
                    \/ pc' = "mark" /\ acts' \in Plans(i, seen.panel, seen.count)
           /\ UNCHANGED <<hostVars, panelVars, cloudVars, stateVars, lock, snap, seen, reset, wrote, read, ghostVars, faults>>
BY DEF Converge

\* What an answer to the reset of a client may be.
Cleared(c) == /\ used' = [used EXCEPT ![c] = NoTraffic]
              /\ done' = done \cup {<<c, snap.seq[c]>>}
              /\ twice' = twice \cup (done \cap {<<c, snap.seq[c]>>})
LEMMA ResetCases ==
    ASSUME FaultsOK, NEW c \in Owned, ResetTraffic(c)
    PROVE  /\ pc = "reset" /\ cur = {Home[c]} /\ c \in Due(Home[c])
           /\ \/ /\ seen.panel[c] = Absent /\ pc' = "record" /\ reset' = {c}
                 /\ UNCHANGED <<seen, cur, acts, bad, used, ghostVars>>
              \/ /\ pc' = "record" /\ reset' = {c} /\ Cleared(c)
                 /\ seen' = [seen EXCEPT !.count[c] = 0] /\ UNCHANGED <<cur, acts, bad>>
              \/ GiveUp(Home[c]) /\ UNCHANGED <<seen, used, ghostVars>>
              \/ GiveUp(Home[c]) /\ seen' = seen /\ Cleared(c) /\ faults'["lost"] > 0
           /\ UNCHANGED <<hostVars, panel, stale, cloudVars, stateVars, lock, snap, todo, wrote, read>>
<1>1. CASE seen.panel[c] = Absent
    BY <1>1 DEF ResetTraffic
<1>2. CASE seen.panel[c] # Absent
    <2>1. PICK ok, happened \in BOOLEAN :
            /\ Call(ok, happened)
            /\ used' = IF happened THEN [used EXCEPT ![c] = NoTraffic] ELSE used
            /\ done' = IF happened THEN done \cup {<<c, snap.seq[c]>>} ELSE done
            /\ twice' = IF happened THEN twice \cup (done \cap {<<c, snap.seq[c]>>}) ELSE twice
            /\ IF ok
               THEN /\ pc' = "record" /\ reset' = {c}
                    /\ seen' = [seen EXCEPT !.count[c] = 0]
                    /\ UNCHANGED <<cur, acts, bad>>
               ELSE GiveUp(Home[c]) /\ UNCHANGED seen
        BY <1>2 DEF ResetTraffic
    <2>2. happened => Cleared(c)
        BY <2>1 DEF Cleared
    <2>3. ~happened => UNCHANGED <<used, ghostVars>>
        BY <2>1 DEF ghostVars
    <2>4. /\ ok => happened
          /\ ~ok /\ happened => Fault("lost")
        BY <2>1 DEF Call
    <2>5. ~ok /\ happened => faults'["lost"] > 0
        BY <2>4, FaultStep DEF FaultKind
    <2>6. CASE ok
        BY <2>1, <2>2, <2>4, <2>6 DEF ResetTraffic
    <2>7. CASE ~ok
        BY <2>1, <2>2, <2>3, <2>5, <2>7 DEF ResetTraffic
    <2> QED BY <2>6, <2>7
<1> QED BY <1>1, <1>2

\* Apply has nothing in hand once it has given up an inbound.
LEMMA GivenUp ==
    ASSUME WorkOK, NEW i, GiveUp(i), UNCHANGED <<present, todo>>, wrote' \in BOOLEAN
    PROVE  WorkOK'
BY DEF WorkOK, GiveUp, Inside

LEMMA WorkStep ==
    ASSUME TypeInv, [Next]_vars
    PROVE  WorkOK'
<1> USE DEF TypeInv
<1>1. CASE UNCHANGED <<present, applyVars>>
    BY <1>1 DEF WorkOK, applyVars
<1>2. CASE /\ pc \notin Inside /\ UNCHANGED <<present, todo, cur, acts, reset, wrote>>
           /\ pc' \in {"read", "converge", "restart", "unmark", "verify", "keep", "return"}
    BY <1>2 DEF WorkOK, Inside
<1>3. CASE ApplyBegins
    BY <1>2, <1>3, BeginCases DEF hostVars, Inside
<1>4. CASE ReadInbounds
    <2>1. pc = "read" /\ UNCHANGED <<present, cur, acts, reset, wrote>>
        BY <1>4 DEF ReadInbounds, hostVars
    <2>2. CASE pc' = "converge" /\ todo' = {i \in present : ~Held(i)}
        BY <2>1, <2>2 DEF WorkOK, Inside
    <2>3. CASE pc' = "return" /\ todo' = todo
        BY <1>2, <2>1, <2>3 DEF Inside
    <2> QED BY <1>4, <2>2, <2>3 DEF ReadInbounds, FailAll, Return
<1>5. ASSUME NEW i \in Inbound, Converge(i) PROVE WorkOK'
    <2>1. /\ pc = "converge" /\ i \in todo /\ todo' = todo \ {i}
          /\ UNCHANGED <<present, reset, wrote>>
        BY <1>5, ConvergeCases DEF hostVars
    <2>2. cur = {} /\ acts = {} /\ reset = {}
        BY <2>1 DEF WorkOK, Inside
    <2>3. CASE UNCHANGED <<pc, cur, acts>>
        BY <2>1, <2>2, <2>3 DEF WorkOK, Inside
    <2>4. CASE cur' = {i} /\ pc' = "reset" /\ acts' = acts
        BY <2>1, <2>2, <2>4 DEF WorkOK, Inside
    <2>5. CASE cur' = {i} /\ pc' = "mark" /\ acts' \in Plans(i, seen.panel, seen.count)
        <3>1. \A a \in acts' : a.email \in Owned /\ Fits(a.email, a.to) /\ Home[a.email] = i
            BY <2>5, PlanWorks
        <3> QED BY <2>1, <2>2, <2>5, <3>1 DEF WorkOK, Inside
    <2> QED BY <1>5, <2>3, <2>4, <2>5, ConvergeCases
<1>6. ASSUME NEW c \in Owned, ResetTraffic(c) PROVE WorkOK'
    <2>1. pc = "reset" /\ cur = {Home[c]} /\ UNCHANGED <<present, todo, wrote>>
        BY <1>6, ResetCases DEF hostVars
    <2>2. CASE GiveUp(Home[c])
        BY <2>1, <2>2, GivenUp DEF WorkOK
    <2>3. CASE pc' = "record" /\ reset' = {c} /\ UNCHANGED <<cur, acts>>
        BY <2>1, <2>3 DEF WorkOK, Inside
    <2> QED BY <1>6, <2>2, <2>3, ResetCases
<1>7. ASSUME NEW c \in Owned, SetReset(c) PROVE WorkOK'
    <2>1. pc = "record" /\ reset = {c} /\ UNCHANGED <<present, todo, wrote>>
        BY <1>7, SetResetCases DEF hostVars
    <2>2. CASE GiveUp(Home[c])
        BY <2>1, <2>2, GivenUp DEF WorkOK
    <2>3. CASE pc' = "reset" /\ reset' = {} /\ UNCHANGED <<cur, acts>>
        BY <2>1, <2>3 DEF WorkOK, Inside
    <2> QED BY <1>7, <2>2, <2>3, SetResetCases
<1>8. CASE ResetsDone
    <2>1. /\ pc = "reset" /\ pc' = "mark" /\ UNCHANGED <<present, todo, cur, reset, wrote>>
          /\ \E i \in cur : acts' \in Plans(i, seen.panel, seen.count)
        BY <1>8 DEF ResetsDone, hostVars
    <2>2. PICK i \in cur : acts' \in Plans(i, seen.panel, seen.count)
        BY <2>1
    <2>3. cur = {i}
        BY <2>2 DEF WorkOK
    <2>4. \A a \in acts' : a.email \in Owned /\ Fits(a.email, a.to) /\ Home[a.email] = i
        BY <2>2, PlanWorks
    <2> QED BY <2>1, <2>3, <2>4 DEF WorkOK, Inside
<1>9. CASE Mark
    <2>1. pc = "mark" /\ UNCHANGED <<present, todo, wrote>>
        BY <1>9 DEF Mark, hostVars
    <2>2. CASE \E i \in cur : GiveUp(i)
        BY <2>1, <2>2, GivenUp DEF WorkOK
    <2>3. CASE pc' = "write" /\ UNCHANGED <<cur, acts, reset>>
        BY <2>1, <2>3 DEF WorkOK, Inside
    <2> QED BY <1>9, <2>2, <2>3 DEF Mark
<1>10. ASSUME NEW a \in acts, WriteClient(a) PROVE WorkOK'
    <2>1. UNCHANGED <<present, todo>> /\ wrote' \in BOOLEAN
        BY <1>10, WriteCases DEF hostVars, WorkOK
    <2>2. CASE GiveUp(Home[a.email])
        BY <2>1, <2>2, GivenUp
    <2>3. CASE acts' = acts \ {a} /\ UNCHANGED <<pc, cur, reset>>
        BY <2>1, <2>3 DEF WorkOK
    <2> QED BY <1>10, <2>2, <2>3, WriteCases
<1>11. CASE InboundDone
    BY <1>11 DEF InboundDone, WorkOK, Inside, hostVars
<1>12. CASE AllConverged \/ Restart \/ Unmark
    BY <1>2, <1>12 DEF AllConverged, Restart, Unmark, FailAll, Return, hostVars, Inside
<1>13. CASE Verify \/ KeepOnly
    BY <1>2, <1>13 DEF Verify, KeepOnly, FailAll, Return, hostVars, Inside
<1>14. CASE Returns \/ Crash
    BY <1>14 DEF Returns, Crash, Idle, WorkOK, Inside
<1>15. CASE SnapshotReads \/ SnapshotLabels
    BY <1>1, <1>15 DEF SnapshotReads, SnapshotLabels, hostVars
<1>16. CASE Cloud
    BY <1>1, <1>16 DEF Cloud, CloudResets, CloudWants, CloudNames, CloudOnly, hostVars
<1>17. CASE \E c \in Owned : Traffic(c) \/ PanelDisables(c)
    BY <1>1, <1>17 DEF Traffic, PanelDisables, hostVars
<1>18. CASE UNCHANGED vars
    BY <1>1, <1>18 DEF vars, hostVars
<1> QED BY <1>3, <1>4, <1>5, <1>6, <1>7, <1>8, <1>9, <1>10, <1>11, <1>12, <1>13, <1>14,
           <1>15, <1>16, <1>17, <1>18 DEF Next, Apply

LEMMA TypeStep == TypeInv /\ [Next]_vars => TypeInv'
<1> SUFFICES ASSUME TypeInv, [Next]_vars PROVE TypeInv'
    OBVIOUS
<1>1. HostOK' /\ StateOK' /\ HeldOK' /\ LockOK' /\ WorkOK'
    BY HostStep, StateStep, HeldStep, LockStep, WorkStep
<1>2. CloudOK' /\ FaultsOK'
    BY CloudStep, FaultsGrow DEF TypeInv
<1> QED BY <1>1, <1>2 DEF TypeInv

\* Every variable keeps its type (TypeOK): Apply works on one inbound at a time,
\* under the lock, and every client in the panel is of an inbound it has.
THEOREM TypeCorrect == Spec => []TypeOK
<1>1. Init => TypeInv
    BY TypeInit
<1>2. TypeInv /\ [Next]_vars => TypeInv'
    BY TypeStep
<1>3. TypeInv => TypeOK
    BY TypeInvTypes
<1> QED BY <1>1, <1>2, <1>3, PTL DEF Spec

-----------------------------------------------------------------------------
(* What Apply read of the panel is still so where it is used. *)

Working == {"converge"} \cup Inside
\* Inbounds Apply has yet to write to.
Ahead == todo \cup {i \in cur : pc # "write"}
SeenInv ==
    /\ pc \in Working => \A f \in Foreign : seen.panel[f] = panel[f]
    /\ \A i \in cur : ~Conflict(i, seen.panel)
    /\ pc \in Working => \A c \in Owned : Home[c] \in Ahead => Same(seen.panel[c], panel[c])

\* A conflict is one of the target, the inbound's protocol and the clients read.
LEMMA ConflictFrame ==
    ASSUME UNCHANGED <<snap, ss2022>>, seen'.panel = seen.panel, NEW i
    PROVE  Conflict(i, seen.panel)' <=> Conflict(i, seen.panel)
BY DEF Conflict, Wanted, Named, Of

\* Steps of Apply that leave the panel alone.
LEMMA SeenFrame ==
    ASSUME SeenInv, pc \in Working, UNCHANGED <<snap, ss2022, panel>>, seen'.panel = seen.panel,
           \A i \in cur' : i \in cur \/ ~Conflict(i, seen.panel),
           Ahead' \subseteq Ahead
    PROVE  SeenInv'
<1>1. \A i \in cur' : ~Conflict(i, seen.panel)'
    BY ConflictFrame DEF SeenInv
<1> QED BY <1>1 DEF SeenInv

\* The states in which nothing that was read is used.
LEMMA SeenVoid ==
    ASSUME pc' \notin Working, cur' = {}
    PROVE  SeenInv'
BY DEF SeenInv

\* No foreign client has the secret of the client written to.
LEMMA ForeignMissed ==
    ASSUME TypeInv, SeenInv, NEW a \in acts, pc = "write", NEW f \in Foreign
    PROVE  f \notin Reached(Home[a.email], a)
<1> USE DEF TypeInv
<1> SUFFICES ASSUME f \in Reached(Home[a.email], a) PROVE FALSE
    OBVIOUS
<1>1. a.email \in Owned /\ Home[a.email] \in cur /\ f # a.email /\ f \in Email
    BY EmailsDisjoint DEF WorkOK, Email
<1>2. seen.panel[a.email] # Absent /\ Matches(Home[a.email], a.email, f)
    BY <1>1 DEF Reached
<1>3. /\ Home[f] = Home[a.email] /\ panel[f] # Absent /\ Home[a.email] \notin ss2022
      /\ panel[f].secret = seen.panel[a.email].secret
    BY <1>1, <1>2 DEF Matches
<1>4. seen.panel[f] = panel[f]
    BY DEF SeenInv, Working, Inside
<1>5. Conflict(Home[a.email], seen.panel)
    <2> DEFINE i == Home[a.email]
               p == seen.panel
               taken == {p[g].secret : g \in {g \in Foreign : Home[g] = i /\ p[g] # Absent}}
    <2>1. p[a.email].secret \in taken
        BY <1>3, <1>4
    <2>2. a.email \in Of(i)
        BY <1>1 DEF Of
    <2> QED BY <1>2, <1>3, <2>1, <2>2 DEF Conflict
<1> QED BY <1>1, <1>5 DEF SeenInv

LEMMA SeenStep == TypeInv /\ SeenInv /\ [Next]_vars => SeenInv'
<1> SUFFICES ASSUME TypeInv, SeenInv, [Next]_vars PROVE SeenInv'
    OBVIOUS
<1> USE DEF TypeInv
<1>1. CASE UNCHANGED <<panel, ss2022, applyVars>>
    <2>1. \A i \in cur' : ~Conflict(i, seen.panel)'
        BY <1>1, ConflictFrame DEF SeenInv, applyVars
    <2>2. Ahead' = Ahead
        BY <1>1 DEF Ahead, applyVars
    <2> QED BY <1>1, <2>1, <2>2 DEF SeenInv, applyVars
<1>2. CASE ApplyBegins
    <2>1. cur = {}
        BY <1>2, BeginCases DEF WorkOK, Inside
    <2> QED BY <1>2, <2>1, BeginCases, SeenVoid DEF Working, Inside
<1>3. CASE ReadInbounds
    <2>1. cur = {} /\ cur' = cur /\ panel' = panel
        BY <1>3 DEF ReadInbounds, WorkOK, Inside, panelVars
    <2>2. CASE seen' = [panel |-> panel, count |-> [c \in Owned |-> used[c].count]]
        BY <2>1, <2>2 DEF SeenInv, Same
    <2>3. CASE pc' = "return"
        BY <2>1, <2>3, SeenVoid DEF Working, Inside
    <2> QED BY <1>3, <2>2, <2>3 DEF ReadInbounds, FailAll, Return
<1>4. ASSUME NEW i \in Inbound, Converge(i) PROVE SeenInv'
    <2>1. /\ pc = "converge" /\ i \in todo /\ todo' = todo \ {i}
          /\ UNCHANGED <<snap, ss2022, panel, seen>>
        BY <1>4, ConvergeCases DEF hostVars, panelVars
    <2>2. cur = {}
        BY <2>1 DEF WorkOK, Inside
    <2>3. \A j \in cur' : ~Conflict(j, seen.panel)
        BY <1>4, <2>2, ConvergeCases
    <2>4. cur' \subseteq {i}
        BY <1>4, <2>2, ConvergeCases
    <2>5. Ahead' \subseteq Ahead
        BY <2>1, <2>4 DEF Ahead
    <2> QED BY <2>1, <2>3, <2>5, SeenFrame DEF Working
<1>5. ASSUME NEW c \in Owned, ResetTraffic(c) PROVE SeenInv'
    <2>1. pc = "reset" /\ UNCHANGED <<snap, ss2022, panel, todo>>
        BY <1>5, ResetCases DEF hostVars
    <2>2. seen'.panel = seen.panel
        BY <1>5, ResetCases DEF HeldOK
    <2>3. cur' \subseteq cur /\ Ahead' \subseteq Ahead
        BY <1>5, <2>1, ResetCases DEF GiveUp, Ahead
    <2> QED BY <2>1, <2>2, <2>3, SeenFrame DEF Working, Inside
<1>6. ASSUME NEW c \in Owned, SetReset(c) PROVE SeenInv'
    <2>1. pc = "record" /\ UNCHANGED <<snap, ss2022, panel, todo, seen>>
        BY <1>6, SetResetCases DEF hostVars, panelVars
    <2>2. cur' \subseteq cur /\ Ahead' \subseteq Ahead
        BY <1>6, <2>1, SetResetCases DEF GiveUp, Ahead
    <2> QED BY <2>1, <2>2, SeenFrame DEF Working, Inside
<1>7. CASE ResetsDone
    <2>1. pc = "reset" /\ pc' = "mark" /\ UNCHANGED <<snap, ss2022, panel, todo, seen, cur>>
        BY <1>7 DEF ResetsDone, hostVars, panelVars
    <2>2. Ahead' \subseteq Ahead
        BY <2>1 DEF Ahead
    <2> QED BY <2>1, <2>2, SeenFrame DEF Working, Inside
<1>8. CASE Mark
    <2>1. pc = "mark" /\ UNCHANGED <<snap, ss2022, panel, todo, seen>>
        BY <1>8 DEF Mark, hostVars, panelVars
    <2>2. cur' \subseteq cur /\ Ahead' \subseteq Ahead
        BY <1>8, <2>1 DEF Mark, GiveUp, Ahead
    <2> QED BY <2>1, <2>2, SeenFrame DEF Working, Inside
<1>9. ASSUME NEW a \in acts, WriteClient(a) PROVE SeenInv'
    <2>1. pc = "write" /\ UNCHANGED <<snap, ss2022, seen, todo>>
        BY <1>9, WriteCases DEF hostVars, WriteClient
    <2>2. cur' \subseteq cur /\ Ahead' \subseteq todo
        BY <1>9, <2>1, WriteCases DEF GiveUp, Ahead
    <2>3. CASE UNCHANGED panelVars
        BY <2>1, <2>2, <2>3, SeenFrame DEF panelVars, Working, Inside, Ahead
    <2>4. CASE Rewritten(a)
        <3>1. \A c \in Email : c \notin Reached(Home[a.email], a) => panel'[c] = panel[c]
            BY <2>4 DEF Rewritten
        <3>2. \A f \in Foreign : panel'[f] = panel[f]
            BY <2>1, <3>1, ForeignMissed DEF Email
        <3>3. \A c \in Owned : Home[c] \in todo => panel'[c] = panel[c]
            BY <3>1, ReachesOne DEF Email, WorkOK
        <3>4. \A i \in cur' : ~Conflict(i, seen.panel)'
            BY <2>1, <2>2, ConflictFrame DEF SeenInv
        <3> QED BY <2>1, <2>2, <3>2, <3>3, <3>4 DEF SeenInv, Working, Inside, Ahead
    <2> QED BY <1>9, <2>3, <2>4, WriteCases
<1>10. CASE InboundDone
    <2>1. pc = "write" /\ cur' = {} /\ UNCHANGED <<snap, ss2022, panel, todo, seen>>
        BY <1>10 DEF InboundDone, hostVars, panelVars
    <2>2. Ahead' \subseteq Ahead
        BY <2>1 DEF Ahead
    <2> QED BY <2>1, <2>2, SeenFrame DEF Working, Inside
<1>11. CASE AllConverged \/ Restart \/ Unmark
    <2>1. cur' = {} /\ pc' \notin Working
        BY <1>11 DEF AllConverged, Restart, Unmark, FailAll, Return, WorkOK, Working, Inside
    <2> QED BY <2>1, SeenVoid
<1>12. CASE Verify \/ KeepOnly
    <2>1. cur' = {} /\ pc' \notin Working
        BY <1>12 DEF Verify, KeepOnly, FailAll, Return, WorkOK, Working, Inside
    <2> QED BY <2>1, SeenVoid
<1>13. CASE Returns \/ Crash
    <2>1. cur' = {} /\ pc' \notin Working
        BY <1>13 DEF Returns, Crash, Idle, Working, Inside
    <2> QED BY <2>1, SeenVoid
<1>14. ASSUME NEW c \in Owned, PanelDisables(c) PROVE SeenInv'
    <2>1. /\ panel[c].limit # 0 /\ panel' = [panel EXCEPT ![c] = Disabled(panel[c])]
          /\ UNCHANGED <<ss2022, applyVars>>
        BY <1>14 DEF PanelDisables, Disabled, hostVars
    <2>2. c \in Email /\ c \notin Foreign
        BY EmailsDisjoint DEF Email
    <2>3. \A f \in Foreign : panel'[f] = panel[f]
        BY <2>1, <2>2 DEF HostOK, Email
    <2>4. \A d \in Owned : Same(seen.panel[d], panel[d]) => Same(seen.panel[d], panel'[d])
        <3> SUFFICES ASSUME NEW d \in Owned, Same(seen.panel[d], panel[d])
                     PROVE  Same(seen.panel[d], panel'[d])
            OBVIOUS
        <3>1. seen.panel[d] \in MaybeClient /\ d \in Email
            BY DEF HeldOK, Email
        <3>2. CASE d = c
            <4>1. panel'[d] = Disabled(panel[d]) /\ panel[d].limit # 0
                BY <2>1, <3>1, <3>2 DEF HostOK
            <4> QED BY <3>1, <4>1, SameFacts
        <3>3. CASE d # c
            BY <2>1, <3>1, <3>3 DEF HostOK
        <3> QED BY <3>2, <3>3
    <2>5. \A i \in cur' : ~Conflict(i, seen.panel)'
        BY <2>1, ConflictFrame DEF SeenInv, applyVars
    <2>6. Ahead' = Ahead
        BY <2>1 DEF Ahead, applyVars
    <2> QED BY <2>1, <2>3, <2>4, <2>5, <2>6 DEF SeenInv, applyVars
<1>15. CASE SnapshotReads \/ SnapshotLabels
    BY <1>1, <1>15 DEF SnapshotReads, SnapshotLabels, hostVars, panelVars
<1>16. CASE Cloud
    BY <1>1, <1>16 DEF Cloud, CloudResets, CloudWants, CloudNames, CloudOnly, hostVars, panelVars
<1>17. CASE \E c \in Owned : Traffic(c)
    BY <1>1, <1>17 DEF Traffic, hostVars
<1>18. CASE UNCHANGED vars
    BY <1>1, <1>18 DEF vars, hostVars, panelVars
<1> QED BY <1>2, <1>3, <1>4, <1>5, <1>6, <1>7, <1>8, <1>9, <1>10, <1>11, <1>12, <1>13, <1>14,
           <1>15, <1>16, <1>17, <1>18 DEF Next, Apply

LEMMA ForeignStep ==
    ASSUME TypeInv, SeenInv, [Next]_vars
    PROVE  \A f \in Foreign : panel'[f] = panel[f]
<1> USE DEF TypeInv
<1>1. CASE panel' = panel
    BY <1>1
<1>2. ASSUME NEW a \in acts, WriteClient(a) PROVE \A f \in Foreign : panel'[f] = panel[f]
    <2>1. CASE UNCHANGED panelVars
        BY <2>1 DEF panelVars
    <2>2. CASE Rewritten(a)
        <3>1. \A c \in Email : c \notin Reached(Home[a.email], a) => panel'[c] = panel[c]
            BY <2>2 DEF Rewritten
        <3>2. pc = "write"
            BY <1>2 DEF WriteClient
        <3> QED BY <3>1, <3>2, ForeignMissed DEF Email
    <2> QED BY <1>2, <2>1, <2>2, WriteCases
<1>3. ASSUME NEW c \in Owned, PanelDisables(c) PROVE \A f \in Foreign : panel'[f] = panel[f]
    <2>1. panel' = [panel EXCEPT ![c] = Disabled(panel[c])]
        BY <1>3 DEF PanelDisables, Disabled
    <2> QED BY <2>1, EmailsDisjoint DEF HostOK, Email
<1>4. CASE ApplyBegins \/ ReadInbounds \/ \E i \in Inbound : Converge(i)
    BY <1>1, <1>4 DEF ApplyBegins, ReadInbounds, Converge, panelVars
<1>5. CASE (\E c \in Owned : ResetTraffic(c) \/ SetReset(c)) \/ ResetsDone \/ Mark
    BY <1>1, <1>5 DEF ResetTraffic, SetReset, ResetsDone, Mark, panelVars
<1>6. CASE InboundDone \/ AllConverged \/ Restart \/ Unmark
    BY <1>1, <1>6 DEF InboundDone, AllConverged, Restart, Unmark, panelVars
<1>7. CASE Verify \/ KeepOnly \/ Returns \/ SnapshotReads \/ SnapshotLabels \/ Crash
    BY <1>1, <1>7 DEF Verify, KeepOnly, Returns, SnapshotReads, SnapshotLabels, Crash, panelVars
<1>8. CASE Cloud
    BY <1>1, <1>8 DEF Cloud, CloudResets, CloudWants, CloudNames, CloudOnly, panelVars
<1>9. CASE \E c \in Owned : Traffic(c)
    BY <1>1, <1>9 DEF Traffic
<1>10. CASE UNCHANGED vars
    BY <1>1, <1>10 DEF vars, panelVars
<1> QED BY <1>2, <1>3, <1>4, <1>5, <1>6, <1>7, <1>8, <1>9, <1>10 DEF Next, Apply

LEMMA SeenInit == Init => SeenInv
BY SeenVoid DEF Init, SeenInv, Working, Inside

\* No request of Apply changes a client Cloud does not own (ForeignUntouched),
\* though the panel acts on every client with the secret it is given: the plan is
\* refused when a foreign client of the inbound has that secret, and nothing Apply
\* read of foreign clients changes under it.
THEOREM ForeignersAreUntouched == Spec => ForeignUntouched
<1>1. Init => TypeInv /\ SeenInv
    BY TypeInit, SeenInit
<1>2. TypeInv /\ SeenInv /\ [Next]_vars => TypeInv' /\ SeenInv'
    BY TypeStep, SeenStep
<1>3. TypeInv /\ SeenInv /\ [Next]_vars => [\A f \in Foreign : panel'[f] = panel[f]]_vars
    BY ForeignStep
<1> QED BY <1>1, <1>2, <1>3, PTL DEF Spec, ForeignUntouched

-----------------------------------------------------------------------------
(* Resets are executed once. *)

ResetInv ==
    /\ done \subseteq Owned \X (0..MaxSeq)
    /\ \A c \in reset : snap.seq[c] > mem.resets[c]
    /\ faults["crash"] = 0 /\ faults["lost"] = 0 =>
          /\ twice = {}
          /\ \A r \in done : r[2] <= mem.resets[r[1]] \/ (r[1] \in reset /\ r[2] = snap.seq[r[1]])

\* Without a new fault of these kinds there was none.
LEMMA StillNone ==
    ASSUME FaultsOK, [Next]_vars, NEW f \in FaultKind, faults'[f] = 0
    PROVE  faults[f] = 0
BY FaultsGrow DEF FaultsOK

LEMMA ResetFrame ==
    ASSUME TypeInv, ResetInv, [Next]_vars, mem'.resets = mem.resets, UNCHANGED <<done, twice>>,
           UNCHANGED <<reset, snap>> \/ (reset = {} /\ reset' = {})
    PROVE  ResetInv'
<1>1. /\ faults'["crash"] = 0 => faults["crash"] = 0
      /\ faults'["lost"] = 0 => faults["lost"] = 0
    BY StillNone DEF FaultKind, TypeInv
<1>2. CASE UNCHANGED <<reset, snap>>
    BY <1>1, <1>2 DEF ResetInv
<1>3. CASE reset = {} /\ reset' = {}
    BY <1>1, <1>3 DEF ResetInv
<1> QED BY <1>2, <1>3

LEMMA ResetStep == TypeInv /\ ResetInv /\ [Next]_vars => ResetInv'
<1> SUFFICES ASSUME TypeInv, ResetInv, [Next]_vars PROVE ResetInv'
    OBVIOUS
<1> USE DEF TypeInv
<1>1. CASE UNCHANGED <<mem, done, twice, reset, snap>>
    BY <1>1, ResetFrame
<1>2. /\ faults'["crash"] = 0 => faults["crash"] = 0
      /\ faults'["lost"] = 0 => faults["lost"] = 0
    BY StillNone DEF FaultKind
<1>3. CASE ApplyBegins
    <2>1. reset = {} /\ reset' = {} /\ UNCHANGED <<mem, done, twice>>
        BY <1>3, BeginCases DEF WorkOK, ghostVars
    <2> QED BY <2>1, ResetFrame
<1>4. ASSUME NEW c \in Owned, ResetTraffic(c) PROVE ResetInv'
    <2>1. pc = "reset" /\ reset = {} /\ snap.seq[c] > mem.resets[c] /\ UNCHANGED <<mem, snap>>
        BY <1>4, ResetCases DEF WorkOK, Due, stateVars
    <2>2. CASE reset' = {c} /\ UNCHANGED ghostVars
        BY <1>2, <2>1, <2>2 DEF ResetInv, ghostVars
    <2>3. CASE reset' = {c} /\ Cleared(c)
        <3>1. PICK r : r = <<c, snap.seq[c]>>
            OBVIOUS
        <3>2. r \in Owned \X (0..MaxSeq) /\ r[1] = c /\ r[2] = snap.seq[c] /\ r[2] \in Nat
            BY <3>1, BoundsType DEF HeldOK
        <3>3. done' = done \cup {r} /\ twice' = twice \cup (done \cap {r})
            BY <2>3, <3>1 DEF Cleared
        <3>4. faults["crash"] = 0 /\ faults["lost"] = 0 => r \notin done
            <4> SUFFICES ASSUME faults["crash"] = 0 /\ faults["lost"] = 0, r \in done PROVE FALSE
                OBVIOUS
            <4>1. r[2] <= mem.resets[c] /\ mem.resets[c] \in Nat
                BY <2>1, <3>2, BoundsType DEF ResetInv, StateOK, Local
            <4> QED BY <2>1, <3>2, <4>1
        <3> QED BY <1>2, <2>1, <2>3, <3>2, <3>3, <3>4 DEF ResetInv
    <2>4. CASE GiveUp(Home[c]) /\ UNCHANGED ghostVars
        BY <2>1, <2>4, ResetFrame DEF GiveUp, ghostVars
    <2>5. CASE GiveUp(Home[c]) /\ Cleared(c) /\ faults'["lost"] > 0
        <3>1. <<c, snap.seq[c]>> \in Owned \X (0..MaxSeq)
            BY DEF HeldOK
        <3>2. done' \subseteq Owned \X (0..MaxSeq)
            BY <2>5, <3>1 DEF Cleared, ResetInv
        <3>3. faults'["lost"] # 0
            BY <2>5
        <3> QED BY <2>5, <3>2, <3>3 DEF ResetInv, GiveUp
    <2> QED BY <1>4, <2>2, <2>3, <2>4, <2>5, ResetCases
<1>5. ASSUME NEW c \in Owned, SetReset(c) PROVE ResetInv'
    <2>1. /\ reset = {c} /\ reset' = {} /\ UNCHANGED <<snap, done, twice>>
          /\ mem' = [mem EXCEPT !.resets[c] = snap.seq[c]]
        BY <1>5, SetResetCases DEF GiveUp, ghostVars
    <2>2. snap.seq[c] > mem.resets[c] /\ snap.seq[c] \in Nat /\ mem.resets \in [Owned -> 0..MaxSeq]
        BY <2>1, BoundsType DEF ResetInv, HeldOK, StateOK, Local
    <2>3. mem'.resets = [mem.resets EXCEPT ![c] = snap.seq[c]]
        BY <2>1 DEF StateOK, Local
    <2>4. ASSUME NEW r \in done, faults["crash"] = 0, faults["lost"] = 0
          PROVE  r[2] <= mem'.resets[r[1]]
        <3>1. r[1] \in Owned /\ r[2] \in 0..MaxSeq
            BY DEF ResetInv
        <3>2. r[2] <= mem.resets[r[1]] \/ (r[1] = c /\ r[2] = snap.seq[r[1]])
            BY <2>1, <2>4 DEF ResetInv
        <3> QED BY <2>2, <2>3, <3>1, <3>2, BoundsType
    <2> QED BY <1>2, <2>1, <2>4 DEF ResetInv
<1>6. CASE Mark
    <2>1. reset = {} /\ UNCHANGED <<done, twice>>
        BY <1>6 DEF Mark, WorkOK, ghostVars
    <2>2. reset' = {}
        BY <1>6, <2>1 DEF Mark, GiveUp
    <2>3. mem'.resets = mem.resets
        BY <1>6, MarkFile DEF Mark, stateVars
    <2> QED BY <2>1, <2>2, <2>3, ResetFrame
<1>7. CASE Unmark
    <2>1. UNCHANGED <<reset, snap, done, twice>>
        BY <1>7 DEF Unmark, ghostVars
    <2>2. mem'.resets = mem.resets
        BY <1>7, MarkFile DEF Unmark, stateVars
    <2> QED BY <2>1, <2>2, ResetFrame
<1>8. ASSUME NEW a \in acts, WriteClient(a) PROVE ResetInv'
    <2>1. reset = {} /\ UNCHANGED <<mem, done, twice>>
        BY <1>8, WriteCases DEF WriteClient, WorkOK, stateVars, ghostVars
    <2>2. reset' = {}
        BY <1>8, <2>1, WriteCases DEF GiveUp
    <2> QED BY <2>1, <2>2, ResetFrame
<1>9. CASE KeepOnly
    <2>1. reset = {} /\ reset' = {} /\ twice' = twice
        BY <1>9, KeepCases DEF WorkOK
    <2>2. CASE UNCHANGED <<stateVars, done>>
        BY <2>1, <2>2, ResetFrame DEF stateVars
    <2>3. CASE /\ mem' = [mem EXCEPT !.resets = [c \in Owned |-> IF c \in Forgotten THEN 0 ELSE mem.resets[c]]]
               /\ done' = {r \in done : r[1] \notin Forgotten}
        <3>1. mem'.resets = [c \in Owned |-> IF c \in Forgotten THEN 0 ELSE mem.resets[c]]
            BY <2>3 DEF StateOK, Local
        <3>2. ASSUME NEW r \in done', faults["crash"] = 0, faults["lost"] = 0
              PROVE  r[2] <= mem'.resets[r[1]]
            <4>1. r \in done /\ r[1] \notin Forgotten /\ r[1] \in Owned
                BY <2>3 DEF ResetInv
            <4>2. r[2] <= mem.resets[r[1]]
                BY <2>1, <3>2, <4>1 DEF ResetInv
            <4> QED BY <3>1, <4>1, <4>2
        <3>3. done' \subseteq done
            BY <2>3
        <3> QED BY <1>2, <2>1, <3>2, <3>3 DEF ResetInv
    <2> QED BY <1>9, <2>2, <2>3, KeepCases
<1>10. CASE Returns
    <2>1. reset = {} /\ reset' = {} /\ UNCHANGED <<mem, done, twice>>
        BY <1>10 DEF Returns, Idle, WorkOK, stateVars, ghostVars
    <2> QED BY <2>1, ResetFrame
<1>11. CASE Crash
    <2>1. reset' = {} /\ done' = done
        BY <1>11 DEF Crash, Idle, ghostVars
    <2>2. faults'["crash"] # 0
        BY <1>11, FaultStep DEF Crash, FaultKind
    <2> QED BY <2>1, <2>2 DEF ResetInv
<1>12. CASE ReadInbounds \/ (\E i \in Inbound : Converge(i)) \/ ResetsDone \/ InboundDone
    BY <1>1, <1>12 DEF ReadInbounds, Converge, ResetsDone, InboundDone, stateVars, ghostVars
<1>13. CASE AllConverged \/ Restart \/ Verify
    BY <1>1, <1>13 DEF AllConverged, Restart, Verify, stateVars, ghostVars
<1>14. CASE SnapshotReads \/ SnapshotLabels
    BY <1>1, <1>14 DEF SnapshotReads, SnapshotLabels, stateVars, ghostVars, applyVars
<1>15. CASE Cloud
    BY <1>1, <1>15 DEF Cloud, CloudResets, CloudWants, CloudNames, CloudOnly, stateVars, ghostVars, applyVars
<1>16. CASE \E c \in Owned : Traffic(c) \/ PanelDisables(c)
    BY <1>1, <1>16 DEF Traffic, PanelDisables, stateVars, ghostVars, applyVars
<1>17. CASE UNCHANGED vars
    BY <1>1, <1>17 DEF vars, stateVars, ghostVars, applyVars
<1> QED BY <1>3, <1>4, <1>5, <1>6, <1>7, <1>8, <1>9, <1>10, <1>11, <1>12, <1>13, <1>14,
           <1>15, <1>16, <1>17 DEF Next, Apply

\* While the process lives and the panel's answers arrive, a reset Cloud asked for
\* is executed once, whatever saves fail (ResetOnce): each one done is in memory or
\* is being recorded, and a client is reset only for a number above that.
THEOREM ResetsHappenOnce == Spec => []ResetOnce
<1>1. Init => TypeInv /\ ResetInv
    BY TypeInit DEF Init, ResetInv
<1>2. TypeInv /\ ResetInv /\ [Next]_vars => TypeInv' /\ ResetInv'
    BY TypeStep, ResetStep
<1>3. ResetInv => ResetOnce
    BY DEF ResetInv, ResetOnce
<1> QED BY <1>1, <1>2, <1>3, PTL DEF Spec

-----------------------------------------------------------------------------
(* Labels of the traffic snapshots. *)

\* No number of a reset is beyond Cloud's.
BelowInv == \A c \in Owned : mem.resets[c] <= seq[c] /\ disk.resets[c] <= seq[c] /\ snap.seq[c] <= seq[c]
\* Traffic began after the resets memory and the file know of, and the one that
\* is about to be recorded.
SinceInv ==
    /\ \A c \in Owned : used[c].count > 0 => used[c].since >= mem.resets[c] /\ used[c].since >= disk.resets[c]
    /\ \A c \in reset : used[c].count > 0 => used[c].since >= snap.seq[c]
ReadInv == (lock # "snapshot" => read = {}) /\ LabelIsHonest
LabelInv == BelowInv /\ SinceInv /\ ReadInv

\* The numbers compared are natural.
LEMMA Numbers ==
    ASSUME TypeInv, NEW c \in Owned
    PROVE  /\ mem.resets[c] \in Nat /\ disk.resets[c] \in Nat /\ snap.seq[c] \in Nat /\ seq[c] \in Nat
           /\ used[c] \in [count : Nat, since : Nat]
BY BoundsType DEF TypeInv, StateOK, Local, HeldOK, CloudOK, HostOK

LEMMA LabelFrame ==
    ASSUME LabelInv, UNCHANGED <<seq, used, mem, disk, lock, read>>,
           UNCHANGED <<snap, reset>> \/ (snap' = snap /\ reset' = {})
    PROVE  LabelInv'
BY DEF LabelInv, BelowInv, SinceInv, ReadInv, LabelIsHonest

\* While Apply holds the lock no snapshot is being taken.
LEMMA ReadVoid ==
    ASSUME LabelInv, lock # "snapshot", lock' = lock, read' = read
    PROVE  ReadInv'
BY DEF LabelInv, ReadInv, LabelIsHonest

LEMMA LabelStep == TypeInv /\ SeenInv /\ LabelInv /\ [Next]_vars => LabelInv'
<1> SUFFICES ASSUME TypeInv, SeenInv, LabelInv, [Next]_vars PROVE LabelInv'
    OBVIOUS
<1> USE DEF TypeInv
<1>0. TypeInv'
    BY TypeStep
<1>1. CASE UNCHANGED <<seq, used, mem, disk, lock, read, snap>> /\ (reset' = reset \/ reset' = {})
    BY <1>1, LabelFrame
<1>2. CASE ApplyBegins
    <2>1. /\ mem' = mem /\ (disk' = disk \/ disk' = mem) /\ lock = "free" /\ lock' = "apply"
          /\ snap' = [kind |-> kind, want |-> want, seq |-> seq]
          /\ UNCHANGED <<seq, used, read, reset>> /\ reset = {}
        BY <1>2, BeginCases DEF cloudVars, panelVars, WorkOK
    <2>2. BelowInv'
        BY <2>1, Numbers DEF LabelInv, BelowInv
    <2>3. SinceInv'
        BY <2>1 DEF LabelInv, SinceInv
    <2>4. ReadInv'
        BY <2>1 DEF LabelInv, ReadInv, LabelIsHonest
    <2> QED BY <2>2, <2>3, <2>4 DEF LabelInv
<1>3. ASSUME NEW c \in Owned, ResetTraffic(c) PROVE LabelInv'
    <2>1. /\ UNCHANGED <<seq, mem, disk, lock, read, snap, panel>> /\ pc = "reset" /\ reset = {}
          /\ lock = "apply" /\ Home[c] \in cur
        BY <1>3, ResetCases DEF cloudVars, stateVars, WorkOK, LockOK
    <2>2. BelowInv' /\ ReadInv'
        BY <2>1, ReadVoid DEF LabelInv, BelowInv
    <2>3. \A d \in Owned : used'[d] = used[d] \/ used'[d] = NoTraffic
        BY <1>3, ResetCases DEF Cleared, HostOK
    <2>4. NoTraffic.count = 0
        BY DEF NoTraffic
    <2>5. \A d \in Owned : used'[d].count > 0 => used'[d].since >= mem.resets[d] /\ used'[d].since >= disk.resets[d]
        BY <2>3, <2>4 DEF LabelInv, SinceInv
    <2>6. \A d \in reset' : d = c /\ used'[c].count = 0
        <3>1. CASE seen.panel[c] = Absent /\ reset' = {c} /\ used' = used
            <4>1. Same(seen.panel[c], panel[c]) /\ seen.panel[c] \in MaybeClient
                BY <2>1 DEF SeenInv, Working, Inside, Ahead, HeldOK, Email
            <4>2. panel[c] = Absent
                BY <3>1, <4>1, SameFacts
            <4> QED BY <2>4, <3>1, <4>2 DEF HostOK
        <3>2. CASE reset' = {c} /\ Cleared(c)
            BY <2>4, <3>2 DEF Cleared, HostOK
        <3> QED BY <1>3, <3>1, <3>2, ResetCases DEF GiveUp
    <2>7. SinceInv'
        BY <2>1, <2>5, <2>6 DEF SinceInv
    <2> QED BY <2>2, <2>7 DEF LabelInv
<1>4. ASSUME NEW c \in Owned, SetReset(c) PROVE LabelInv'
    <2>1. /\ mem' = [mem EXCEPT !.resets[c] = snap.seq[c]] /\ (disk' = mem' \/ disk' = disk)
          /\ UNCHANGED <<seq, used, lock, read, snap>> /\ reset = {c} /\ reset' = {}
          /\ lock = "apply"
        BY <1>4, SetResetCases DEF cloudVars, panelVars, GiveUp, LockOK
    <2>2. mem'.resets = [mem.resets EXCEPT ![c] = snap.seq[c]] /\ mem.resets \in [Owned -> 0..MaxSeq]
        BY <2>1 DEF StateOK, Local
    <2>3. BelowInv'
        BY <2>1, <2>2 DEF LabelInv, BelowInv
    <2>4. \A d \in Owned : /\ mem'.resets[d] = IF d = c THEN snap.seq[c] ELSE mem.resets[d]
                           /\ disk'.resets[d] = mem'.resets[d] \/ disk'.resets[d] = disk.resets[d]
        BY <2>1, <2>2
    <2>5. used[c].count > 0 => used[c].since >= snap.seq[c]
        BY <2>1 DEF LabelInv, SinceInv
    <2>6. SinceInv'
        <3>1. ASSUME NEW d \in Owned, used[d].count > 0
              PROVE  used[d].since >= mem'.resets[d] /\ used[d].since >= disk'.resets[d]
            BY <2>4, <2>5, <3>1 DEF LabelInv, SinceInv
        <3> QED BY <2>1, <3>1 DEF SinceInv
    <2> QED BY <2>1, <2>3, <2>6, ReadVoid DEF LabelInv
<1>5. CASE Mark
    <2>1. UNCHANGED <<seq, used, lock, read, snap>> /\ lock = "apply" /\ reset = {}
        BY <1>5 DEF Mark, cloudVars, panelVars, LockOK, WorkOK
    <2>2. reset' = {}
        BY <1>5, <2>1 DEF Mark, GiveUp
    <2>3. mem'.resets = mem.resets /\ (disk'.resets = mem.resets \/ disk'.resets = disk.resets)
        BY <1>5, MarkFile DEF Mark, stateVars
    <2>4. BelowInv' /\ SinceInv'
        BY <2>1, <2>2, <2>3 DEF LabelInv, BelowInv, SinceInv
    <2> QED BY <2>1, <2>4, ReadVoid DEF LabelInv
<1>6. CASE Unmark
    <2>1. UNCHANGED <<seq, used, lock, read, snap, reset>> /\ lock = "apply"
        BY <1>6 DEF Unmark, cloudVars, panelVars, LockOK
    <2>2. mem'.resets = mem.resets /\ (disk'.resets = mem.resets \/ disk'.resets = disk.resets)
        BY <1>6, MarkFile DEF Unmark, stateVars
    <2>3. BelowInv' /\ SinceInv'
        BY <2>1, <2>2 DEF LabelInv, BelowInv, SinceInv
    <2> QED BY <2>1, <2>3, ReadVoid DEF LabelInv
<1>7. ASSUME NEW a \in acts, WriteClient(a) PROVE LabelInv'
    <2>1. UNCHANGED <<seq, mem, disk, lock, read, snap>> /\ lock = "apply" /\ reset = {}
        BY <1>7, WriteCases DEF WriteClient, cloudVars, stateVars, LockOK, WorkOK
    <2>2. reset' = {}
        BY <1>7, <2>1, WriteCases DEF GiveUp
    <2>3. \A d \in Owned : used'[d] = used[d] \/ used'[d] = NoTraffic
        BY <1>7, WriteCases DEF HostOK, panelVars
    <2>4. NoTraffic.count = 0
        BY DEF NoTraffic
    <2>5. BelowInv' /\ SinceInv'
        BY <2>1, <2>2, <2>3, <2>4 DEF LabelInv, BelowInv, SinceInv
    <2> QED BY <2>1, <2>5, ReadVoid DEF LabelInv
<1>8. CASE KeepOnly
    <2>1. UNCHANGED <<seq, used, lock, read, snap, reset>> /\ lock = "apply" /\ reset = {}
        BY <1>8, KeepCases DEF cloudVars, panelVars, LockOK, WorkOK
    <2>2. CASE UNCHANGED stateVars
        BY <1>1, <2>1, <2>2 DEF stateVars
    <2>3. CASE /\ mem' = [mem EXCEPT !.resets = [c \in Owned |-> IF c \in Forgotten THEN 0 ELSE mem.resets[c]]]
               /\ disk' = mem' \/ disk' = disk
        <3>1. mem'.resets = [c \in Owned |-> IF c \in Forgotten THEN 0 ELSE mem.resets[c]]
            BY <2>3 DEF StateOK, Local
        <3>2. \A c \in Owned : /\ mem'.resets[c] = 0 \/ mem'.resets[c] = mem.resets[c]
                               /\ disk'.resets[c] \in {0, mem.resets[c], disk.resets[c]}
            BY <2>3, <3>1
        <3>3. BelowInv'
            BY <2>1, <3>2, Numbers DEF LabelInv, BelowInv
        <3>4. SinceInv'
            BY <2>1, <3>2, Numbers DEF LabelInv, SinceInv
        <3> QED BY <2>1, <3>3, <3>4, ReadVoid DEF LabelInv
    <2> QED BY <1>8, <2>2, <2>3, KeepCases
<1>9. CASE Returns
    <2>1. /\ UNCHANGED <<seq, used, mem, disk, read>> /\ reset' = {} /\ snap' = NoTargets
          /\ lock = "apply" /\ lock' = "free"
        BY <1>9 DEF Returns, Idle, cloudVars, panelVars, stateVars, LockOK
    <2>2. BelowInv'
        BY <2>1, Numbers, NothingTyped DEF LabelInv, BelowInv
    <2>3. SinceInv' /\ ReadInv'
        BY <2>1 DEF LabelInv, SinceInv, ReadInv, LabelIsHonest
    <2> QED BY <2>2, <2>3 DEF LabelInv
<1>10. CASE Crash
    <2>1. /\ UNCHANGED <<seq, used, disk>> /\ mem' = disk /\ reset' = {} /\ snap' = NoTargets /\ read' = {}
        BY <1>10 DEF Crash, Idle, cloudVars, panelVars, NotReading
    <2>2. BelowInv'
        BY <2>1, Numbers, NothingTyped DEF LabelInv, BelowInv
    <2>3. SinceInv' /\ ReadInv'
        BY <2>1 DEF LabelInv, SinceInv, ReadInv, LabelIsHonest
    <2> QED BY <2>2, <2>3 DEF LabelInv
<1>11. CASE SnapshotReads
    <2>1. UNCHANGED <<seq, used, mem, disk, snap, reset>> /\ lock' = "snapshot"
        BY <1>11 DEF SnapshotReads, cloudVars, panelVars, stateVars, applyVars
    <2>2. read' = {[email |-> c, count |-> used[c].count, since |-> used[c].since] :
                      c \in {c \in Owned : panel[c] # Absent}}
        BY <1>11 DEF SnapshotReads
    <2>3. ReadInv'
        BY <2>1, <2>2 DEF LabelInv, SinceInv, ReadInv, LabelIsHonest
    <2>4. BelowInv' /\ SinceInv'
        BY <2>1 DEF LabelInv, BelowInv, SinceInv
    <2> QED BY <2>3, <2>4 DEF LabelInv
<1>12. CASE SnapshotLabels
    <2>1. UNCHANGED <<seq, used, mem, disk, snap, reset>> /\ read' = {}
        BY <1>12 DEF SnapshotLabels, cloudVars, panelVars, stateVars, applyVars, NotReading
    <2> QED BY <2>1 DEF LabelInv, BelowInv, SinceInv, ReadInv, LabelIsHonest
<1>13. ASSUME NEW c \in Owned, CloudResets(c) PROVE LabelInv'
    <2>1. seq' = [seq EXCEPT ![c] = seq[c] + 1] /\ UNCHANGED <<used, mem, disk, lock, read, snap, reset>>
        BY <1>13 DEF CloudResets, CloudOnly, panelVars, stateVars, applyVars
    <2>2. \A d \in Owned : seq'[d] >= seq[d] /\ seq'[d] \in Nat
        BY <2>1, BoundsType DEF CloudOK
    <2>3. BelowInv'
        <3> SUFFICES ASSUME NEW d \in Owned
                     PROVE  mem.resets[d] <= seq'[d] /\ disk.resets[d] <= seq'[d] /\ snap.seq[d] <= seq'[d]
            BY <2>1 DEF BelowInv
        <3> QED BY <2>2, Numbers DEF LabelInv, BelowInv
    <2>4. SinceInv' /\ ReadInv'
        BY <2>1 DEF LabelInv, SinceInv, ReadInv, LabelIsHonest
    <2> QED BY <2>3, <2>4 DEF LabelInv
<1>14. ASSUME NEW c \in Owned, Traffic(c) PROVE LabelInv'
    <2> DEFINE u == [count |-> used[c].count + 1,
                     since |-> IF used[c].count = 0 THEN seq[c] ELSE used[c].since]
    <2>1. used' = [used EXCEPT ![c] = u] /\ UNCHANGED <<seq, mem, disk, lock, read, snap, reset>>
        BY <1>14 DEF Traffic, cloudVars, stateVars, applyVars
    <2>2. /\ mem.resets[c] <= u.since /\ disk.resets[c] <= u.since
          /\ c \in reset => snap.seq[c] <= u.since
        BY Numbers DEF LabelInv, BelowInv, SinceInv
    <2>3. u.since \in Nat /\ mem.resets[c] \in Nat /\ disk.resets[c] \in Nat /\ snap.seq[c] \in Nat
        BY Numbers
    <2> HIDE DEF u
    <2>4. SinceInv'
        <3>1. \A d \in Owned : used'[d] = IF d = c THEN u ELSE used[d]
            BY <2>1 DEF HostOK
        <3>2. \A d \in reset : d \in Owned
            BY DEF WorkOK
        <3> QED BY <2>1, <2>2, <2>3, <3>1, <3>2 DEF LabelInv, SinceInv
    <2>5. BelowInv' /\ ReadInv'
        BY <2>1 DEF LabelInv, BelowInv, ReadInv, LabelIsHonest
    <2> QED BY <2>4, <2>5 DEF LabelInv
<1>15. CASE ReadInbounds \/ (\E i \in Inbound : Converge(i)) \/ ResetsDone \/ InboundDone
    BY <1>1, <1>15 DEF ReadInbounds, Converge, ResetsDone, InboundDone, cloudVars, panelVars, stateVars
<1>16. CASE AllConverged \/ Restart \/ Verify
    BY <1>1, <1>16 DEF AllConverged, Restart, Verify, cloudVars, panelVars, stateVars
<1>17. CASE \E c \in Owned : PanelDisables(c) \/ \E w \in Wish[c] \cup {Absent} : CloudWants(c, w)
    BY <1>1, <1>17 DEF PanelDisables, CloudWants, CloudOnly, cloudVars, panelVars, stateVars, applyVars
<1>18. CASE \E i \in Inbound : \E k \in {"unnamed", "held"} : CloudNames(i, k)
    BY <1>1, <1>18 DEF CloudNames, CloudOnly, panelVars, stateVars, applyVars
<1>19. CASE UNCHANGED vars
    BY <1>1, <1>19 DEF vars, cloudVars, panelVars, stateVars, applyVars
<1> QED BY <1>2, <1>3, <1>4, <1>5, <1>6, <1>7, <1>8, <1>9, <1>10, <1>11, <1>12, <1>13, <1>14,
           <1>15, <1>16, <1>17, <1>18, <1>19 DEF Next, Apply, Cloud

LEMMA LabelInit == Init => LabelInv
<1> SUFFICES ASSUME Init PROVE LabelInv
    OBVIOUS
<1>1. /\ mem.resets = NoResets /\ disk = mem /\ seq = NoResets /\ snap = NoTargets
      /\ reset = {} /\ read = {} /\ used = [c \in Owned |-> NoTraffic]
    BY DEF Init, NotReading
<1>2. BelowInv
    BY <1>1, NothingTyped DEF BelowInv
<1>3. SinceInv /\ ReadInv
    BY <1>1 DEF SinceInv, ReadInv, LabelIsHonest, NoTraffic
<1> QED BY <1>2, <1>3 DEF LabelInv

\* Traffic labelled with a reset contains none that flowed before Cloud asked for it
\* (LabelIsHonest): a snapshot reads the counts and the resets under the lock that
\* Apply holds from the reset of a client until it is recorded.
THEOREM LabelsAreHonest == Spec => []LabelIsHonest
<1>1. Init => TypeInv /\ SeenInv /\ LabelInv
    BY TypeInit, SeenInit, LabelInit
<1>2. TypeInv /\ SeenInv /\ LabelInv /\ [Next]_vars => TypeInv' /\ SeenInv' /\ LabelInv'
    BY TypeStep, SeenStep, LabelStep
<1>3. LabelInv => LabelIsHonest
    BY DEF LabelInv, ReadInv
<1> QED BY <1>1, <1>2, <1>3, PTL DEF Spec

-----------------------------------------------------------------------------
(* What Apply reports. *)

\* What is written but not loaded is marked in memory and in the file, up to the
\* restart; after it nothing is.
RestartInv == faults["late"] = 0 =>
    /\ mem.restart = disk.restart
    /\ stale # {} => mem.restart
    /\ pc = "write" /\ acts # {} /\ cur \cap ss2022 # {} => mem.restart
    /\ pc \in {"unmark", "verify", "keep"} => stale = {}
    /\ pc = "return" => stale = {} \/ Targets \subseteq bad

LEMMA TargetsFrame == ASSUME snap' = snap PROVE Targets' = Targets
BY DEF Targets, Named

\* Steps of other actors, and those of Apply that neither write nor save.
LEMMA RestartFrame ==
    ASSUME TypeInv, RestartInv, [Next]_vars, UNCHANGED <<mem, disk, stale, ss2022>>,
           \/ UNCHANGED <<pc, acts, cur, snap, bad>>
           \/ pc' \in {"converge", "reset", "record", "mark"}
           \/ pc' = "return" /\ Targets' \subseteq bad'
           \/ pc' \in {"idle", "read"}
    PROVE  RestartInv'
<1>1. faults'["late"] = 0 => faults["late"] = 0
    BY StillNone DEF FaultKind, TypeInv
<1>2. CASE UNCHANGED <<pc, acts, cur, snap, bad>>
    BY <1>1, <1>2, TargetsFrame DEF RestartInv
<1>3. CASE pc' \in {"converge", "reset", "record", "mark"}
    BY <1>1, <1>3 DEF RestartInv
<1>4. CASE pc' = "return" /\ Targets' \subseteq bad'
    BY <1>1, <1>4 DEF RestartInv
<1>5. CASE pc' \in {"idle", "read"}
    BY <1>1, <1>5 DEF RestartInv
<1> QED BY <1>2, <1>3, <1>4, <1>5

LEMMA MarkCases ==
    ASSUME TypeInv, Mark
    PROVE  /\ pc = "mark" /\ StateOK' /\ (mem.restart => mem'.restart)
           /\ faults'["late"] = 0 /\ mem.restart = disk.restart => mem'.restart = disk'.restart
           /\ \/ /\ pc' = "write" /\ UNCHANGED <<cur, acts, reset, bad>>
                 /\ acts = {} \/ cur \cap ss2022 = {} \/ mem'.restart
              \/ \E i \in cur : GiveUp(i)
           /\ UNCHANGED <<hostVars, panelVars, cloudVars, lock, snap, seen, todo, wrote, read, ghostVars>>
<1>1. PICK i \in cur :
          IF acts # {} /\ i \in ss2022
          THEN \E ok \in BOOLEAN :
                  /\ SetRestartPending(TRUE, ok)
                  /\ IF ok THEN pc' = "write" /\ UNCHANGED <<cur, acts, reset, bad>>
                     ELSE GiveUp(i)
          ELSE pc' = "write" /\ UNCHANGED <<cur, acts, reset, bad, stateVars, faults>>
    BY DEF Mark
<1>2. cur = {i}
    BY DEF TypeInv, WorkOK
<1>3. pc = "mark" /\ UNCHANGED <<hostVars, panelVars, cloudVars, lock, snap, seen, todo, wrote, read, ghostVars>>
    BY DEF Mark
<1>4. CASE acts # {} /\ i \in ss2022
    <2>1. PICK ok \in BOOLEAN :
              /\ SetRestartPending(TRUE, ok)
              /\ IF ok THEN pc' = "write" /\ UNCHANGED <<cur, acts, reset, bad>> ELSE GiveUp(i)
        BY <1>1, <1>4
    <2>2. /\ StateOK' /\ (ok => mem'.restart = TRUE) /\ (~ok => mem' = mem)
          /\ faults'["late"] = 0 /\ mem.restart = disk.restart => mem'.restart = disk'.restart
        BY <2>1, MarkFile DEF TypeInv
    <2> QED BY <1>3, <2>1, <2>2
<1>5. CASE ~(acts # {} /\ i \in ss2022)
    <2>1. pc' = "write" /\ UNCHANGED <<cur, acts, reset, bad>> /\ UNCHANGED stateVars
        BY <1>1, <1>5
    <2>2. acts = {} \/ cur \cap ss2022 = {}
        BY <1>2, <1>5
    <2>3. UNCHANGED <<mem, disk, dirty>>
        BY <2>1 DEF stateVars
    <2>4. StateOK'
        BY <2>3 DEF TypeInv, StateOK
    <2> QED BY <1>3, <2>1, <2>2, <2>3, <2>4
<1> QED BY <1>4, <1>5

LEMMA RestartStep == TypeInv /\ RestartInv /\ [Next]_vars => RestartInv'
<1> SUFFICES ASSUME TypeInv, RestartInv, [Next]_vars PROVE RestartInv'
    OBVIOUS
<1> USE DEF TypeInv
<1>1. faults'["late"] = 0 => faults["late"] = 0
    BY StillNone DEF FaultKind
<1>2. CASE ApplyBegins
    <2>1. mem' = mem /\ (disk' = disk \/ disk' = mem) /\ stale' = stale
        BY <1>2, BeginCases DEF panelVars
    <2>2. CASE pc' = "read"
        BY <1>1, <2>1, <2>2 DEF RestartInv
    <2>3. CASE pc' = "return" /\ bad' = {i \in Inbound : kind[i] = "target"}
        <3>1. snap' = [kind |-> kind, want |-> want, seq |-> seq]
            BY <1>2, BeginCases
        <3>2. Targets' = bad'
            BY <2>3, <3>1 DEF Targets, Named
        <3> QED BY <1>1, <2>1, <2>3, <3>2 DEF RestartInv
    <2> QED BY <1>2, <2>2, <2>3, BeginCases
<1>3. CASE ReadInbounds
    <2>1. UNCHANGED <<mem, disk, stale, ss2022, snap>>
        BY <1>3 DEF ReadInbounds, stateVars, panelVars, hostVars
    <2>2. pc' = "converge" \/ (pc' = "return" /\ bad' = Targets)
        BY <1>3 DEF ReadInbounds, FailAll, Return
    <2> QED BY <2>1, <2>2, RestartFrame, TargetsFrame
<1>4. ASSUME NEW i \in Inbound, Converge(i) PROVE RestartInv'
    <2>1. UNCHANGED <<mem, disk, stale, ss2022>> /\ pc = "converge"
        BY <1>4, ConvergeCases DEF stateVars, panelVars, hostVars
    <2>2. pc' \in {"converge", "reset", "record", "mark"}
        BY <1>4, <2>1, ConvergeCases
    <2> QED BY <2>1, <2>2, RestartFrame
<1>5. ASSUME NEW c \in Owned, ResetTraffic(c) PROVE RestartInv'
    <2>1. UNCHANGED <<mem, disk, stale, ss2022>>
        BY <1>5, ResetCases DEF stateVars, hostVars
    <2>2. pc' \in {"converge", "reset", "record", "mark"}
        BY <1>5, ResetCases DEF GiveUp
    <2> QED BY <2>1, <2>2, RestartFrame
<1>6. ASSUME NEW c \in Owned, SetReset(c) PROVE RestartInv'
    <2>1. /\ mem' = [mem EXCEPT !.resets[c] = snap.seq[c]] /\ (disk' = mem' \/ disk' = disk)
          /\ stale' = stale /\ pc' \in {"reset", "converge"}
        BY <1>6, SetResetCases DEF panelVars, GiveUp
    <2>2. mem'.restart = mem.restart
        BY <2>1 DEF StateOK, Local
    <2> QED BY <1>1, <2>1, <2>2 DEF RestartInv
<1>7. CASE ResetsDone
    <2>1. UNCHANGED <<mem, disk, stale, ss2022>> /\ pc' = "mark"
        BY <1>7 DEF ResetsDone, stateVars, panelVars, hostVars
    <2> QED BY <2>1, RestartFrame
<1>8. CASE Mark
    <2>1. stale' = stale /\ ss2022' = ss2022
        BY <1>8, MarkCases DEF panelVars, hostVars
    <2>2. CASE \E i \in cur : GiveUp(i)
        <3>1. pc' = "converge"
            BY <2>2 DEF GiveUp
        <3> QED BY <1>1, <1>8, <2>1, <3>1, MarkCases DEF RestartInv
    <2>3. CASE pc' = "write" /\ UNCHANGED <<cur, acts>> /\ (acts = {} \/ cur \cap ss2022 = {} \/ mem'.restart)
        BY <1>1, <1>8, <2>1, <2>3, MarkCases DEF RestartInv
    <2> QED BY <1>8, <2>2, <2>3, MarkCases
<1>9. ASSUME NEW a \in acts, WriteClient(a) PROVE RestartInv'
    <2>1. UNCHANGED <<mem, disk, ss2022>> /\ pc = "write" /\ cur = {Home[a.email]}
        BY <1>9, WriteCases DEF WriteClient, stateVars, hostVars, WorkOK
    <2>2. faults["late"] = 0 /\ stale' # {} => mem.restart
        BY <1>9, <2>1, WriteCases DEF RestartInv, panelVars
    <2>3. CASE GiveUp(Home[a.email])
        BY <1>1, <2>1, <2>2, <2>3 DEF RestartInv, GiveUp
    <2>4. CASE acts' = acts \ {a} /\ UNCHANGED <<pc, cur>>
        BY <1>1, <2>1, <2>2, <2>4 DEF RestartInv
    <2> QED BY <1>9, <2>3, <2>4, WriteCases
<1>10. CASE InboundDone
    <2>1. UNCHANGED <<mem, disk, stale, ss2022>> /\ pc' = "converge"
        BY <1>10 DEF InboundDone, stateVars, panelVars, hostVars
    <2> QED BY <2>1, RestartFrame
<1>11. CASE AllConverged
    <2>1. UNCHANGED <<mem, disk, stale>> /\ pc' = IF mem.restart THEN "restart" ELSE IF wrote THEN "verify" ELSE "keep"
        BY <1>11 DEF AllConverged, stateVars, panelVars
    <2> QED BY <1>1, <2>1 DEF RestartInv
<1>12. CASE Restart
    <2>1. UNCHANGED <<mem, disk, snap, ss2022>>
        BY <1>12 DEF Restart, stateVars, hostVars
    <2>2. PICK ok, happened \in BOOLEAN :
              /\ Call(ok, happened)
              /\ stale' = IF happened THEN {} ELSE stale
              /\ IF ok THEN pc' = "unmark" /\ UNCHANGED bad ELSE FailAll
        BY <1>12 DEF Restart
    <2>3. ok => happened
        BY <2>2 DEF Call
    <2>4. CASE ok
        BY <1>1, <2>1, <2>2, <2>3, <2>4 DEF RestartInv
    <2>5. CASE ~ok
        BY <1>1, <2>1, <2>2, <2>5, TargetsFrame DEF RestartInv, FailAll, Return
    <2> QED BY <2>4, <2>5
<1>13. CASE Unmark
    <2>1. pc = "unmark" /\ UNCHANGED <<stale, snap>> /\ pc' \in {"verify", "keep", "return"}
        BY <1>13 DEF Unmark, panelVars, FailAll, Return
    <2>2. faults'["late"] = 0 /\ mem.restart = disk.restart => mem'.restart = disk'.restart
        BY <1>13, MarkFile DEF Unmark
    <2> QED BY <1>1, <2>1, <2>2 DEF RestartInv
<1>14. CASE Verify
    <2>1. pc = "verify" /\ UNCHANGED <<mem, disk, stale, snap>> /\ pc' \in {"keep", "return"}
        BY <1>14 DEF Verify, panelVars, stateVars, FailAll, Return
    <2> QED BY <1>1, <2>1 DEF RestartInv
<1>15. CASE KeepOnly
    <2>1. pc = "keep" /\ pc' = "return" /\ stale' = stale
        BY <1>15, KeepCases DEF panelVars
    <2>2. CASE UNCHANGED stateVars
        BY <1>1, <2>1, <2>2 DEF RestartInv, stateVars
    <2>3. CASE /\ mem' = [mem EXCEPT !.resets = [c \in Owned |-> IF c \in Forgotten THEN 0 ELSE mem.resets[c]]]
               /\ disk' = mem' \/ disk' = disk
        <3>1. mem'.restart = mem.restart
            BY <2>3 DEF StateOK, Local
        <3>2. disk'.restart = mem'.restart \/ disk'.restart = disk.restart
            BY <2>3
        <3> QED BY <1>1, <2>1, <3>1, <3>2 DEF RestartInv
    <2> QED BY <1>15, <2>2, <2>3, KeepCases
<1>16. CASE Returns
    <2>1. UNCHANGED <<mem, disk, stale, ss2022>> /\ pc' = "idle"
        BY <1>16 DEF Returns, Idle, stateVars, panelVars, hostVars
    <2> QED BY <2>1, RestartFrame
<1>17. CASE Crash
    <2>1. mem' = disk /\ disk' = disk /\ stale' = stale /\ pc' = "idle"
        BY <1>17 DEF Crash, Idle, panelVars
    <2> QED BY <1>1, <2>1 DEF RestartInv
<1>18. CASE SnapshotReads \/ SnapshotLabels
    BY <1>18, RestartFrame DEF SnapshotReads, SnapshotLabels, stateVars, panelVars, hostVars, applyVars
<1>19. CASE Cloud
    <2>1. UNCHANGED <<mem, disk, stale, ss2022>> /\ UNCHANGED <<pc, acts, cur, snap, bad>>
        BY <1>19 DEF Cloud, CloudResets, CloudWants, CloudNames, CloudOnly, stateVars, panelVars, hostVars, applyVars
    <2> QED BY <2>1, RestartFrame
<1>20. CASE \E c \in Owned : Traffic(c) \/ PanelDisables(c)
    <2>1. UNCHANGED <<mem, disk, stale, ss2022>> /\ UNCHANGED <<pc, acts, cur, snap, bad>>
        BY <1>20 DEF Traffic, PanelDisables, stateVars, hostVars, applyVars
    <2> QED BY <2>1, RestartFrame
<1>21. CASE UNCHANGED vars
    BY <1>21, RestartFrame DEF vars, stateVars, panelVars, hostVars, applyVars
<1> QED BY <1>2, <1>3, <1>4, <1>5, <1>6, <1>7, <1>8, <1>9, <1>10, <1>11, <1>12, <1>13, <1>14,
           <1>15, <1>16, <1>17, <1>18, <1>19, <1>20, <1>21 DEF Next, Apply

\* Which targets the panel is in, as far as Apply has come: until it writes, the
\* ones it has passed; at the end all those it names no code for.
Fine(i) == i \in bad \/ Met(i)
MetInv ==
    /\ pc \in Working /\ ~wrote => \A i \in Targets \cap present : i \in todo \cup cur \/ Fine(i)
    /\ pc \in {"mark", "write"} /\ ~wrote /\ acts = {} => \A i \in cur \cap Targets : Met(i)
    /\ pc \in {"restart", "unmark", "verify"} => \A i \in Targets \ present : Fine(i)
    /\ pc \in {"restart", "unmark"} /\ ~wrote => \A i \in Targets : Fine(i)
    /\ pc \in {"keep", "return"} => \A i \in Targets : Fine(i)

\* Whether the panel is in a target depends on its own clients only.
LEMMA MetFrame ==
    ASSUME snap' = snap, NEW i, \A c \in Of(i) : panel'[c] = panel[c]
    PROVE  Met(i)' <=> Met(i)
BY DEF Met, Wanted, Named, Of

LEMMA MetIsMetBy == ASSUME NEW i PROVE Met(i) <=> MetBy(i, panel)
BY DEF Met, MetBy

\* A plan without a write, of clients read before.
LEMMA NothingToWrite ==
    ASSUME TypeInv, SeenInv, NEW i \in Ahead, pc \in Working, {} \in Plans(i, seen.panel, seen.count)
    PROVE  Met(i)
<1> USE DEF TypeInv
<1>1. PICK p, count, q : p = seen.panel /\ count = seen.count /\ q = panel
    OBVIOUS
<1>2. WantsFit /\ {} \in Plans(i, p, count)
    BY <1>1 DEF HeldOK
<1>3. MetBy(i, p)
    BY <1>2, EmptyPlan, Zenon
<1>4. \A c \in Of(i) : p[c] \in MaybeClient /\ Same(p[c], q[c])
    BY <1>1 DEF Of, HeldOK, Email, SeenInv
<1>5. MetBy(i, q)
    BY <1>3, <1>4, MetStays, Zenon
<1> QED BY <1>1, <1>5, MetIsMetBy

\* Steps that leave the panel and Apply's report alone.
LEMMA MetQuiet ==
    ASSUME MetInv, UNCHANGED <<present, panel, snap, pc, wrote, todo, cur, acts, bad>>
    PROVE  MetInv'
<1>1. Targets' = Targets /\ \A i : Fine(i)' <=> Fine(i)
    BY TargetsFrame, MetFrame DEF Fine
<1>2. \A i : Met(i)' <=> Met(i)
    BY MetFrame
<1> QED BY <1>1, <1>2 DEF MetInv

\* Steps that end with a code for every target.
LEMMA MetFailed ==
    ASSUME pc' = "return", Targets' \subseteq bad'
    PROVE  MetInv'
BY DEF MetInv, Fine, Working, Inside

\* converge gives an inbound up, having written to no other.
LEMMA MetGivenUp ==
    ASSUME TypeInv, MetInv, NEW i, cur = {i}, pc \in Inside, GiveUp(i), wrote' = wrote,
           UNCHANGED <<present, snap, todo>>,
           \A c \in Owned : Home[c] # i => panel'[c] = panel[c]
    PROVE  MetInv'
<1>1. pc' = "converge" /\ cur' = {} /\ bad' = Code(i)
    BY DEF GiveUp
<1>2. Targets' = Targets
    BY TargetsFrame
<1>3. ASSUME ~wrote, NEW j \in Targets \cap present PROVE j \in todo \/ Fine(j)'
    <2>1. CASE j = i
        BY <1>1, <2>1 DEF Fine, Code
    <2>2. CASE j # i
        <3>1. j \in todo \/ Fine(j)
            BY <1>3, <2>2 DEF MetInv, Working
        <3>2. \A c \in Of(j) : panel'[c] = panel[c]
            BY <2>2 DEF Of
        <3>3. Met(j)' <=> Met(j)
            BY <3>2, MetFrame
        <3> QED BY <1>1, <3>1, <3>3 DEF Fine, Code
    <2> QED BY <2>1, <2>2
<1> QED BY <1>1, <1>2, <1>3 DEF MetInv

LEMMA MetStep == TypeInv /\ SeenInv /\ MetInv /\ [Next]_vars => MetInv'
<1> SUFFICES ASSUME TypeInv, SeenInv, MetInv, [Next]_vars PROVE MetInv'
    OBVIOUS
<1> USE DEF TypeInv
<1>1. ASSUME snap' = snap, panel' = panel
      PROVE  Targets' = Targets /\ \A i : Met(i)' <=> Met(i)
    BY <1>1, TargetsFrame, MetFrame
<1>2. CASE ApplyBegins
    <2>1. CASE pc' = "read"
        BY <2>1 DEF MetInv, Working, Inside
    <2>2. CASE pc' = "return" /\ bad' = {i \in Inbound : kind[i] = "target"}
        <3>1. snap' = [kind |-> kind, want |-> want, seq |-> seq]
            BY <1>2, BeginCases
        <3>2. Targets' = bad'
            BY <2>2, <3>1 DEF Targets, Named
        <3> QED BY <2>2, <3>2, MetFailed
    <2> QED BY <1>2, <2>1, <2>2, BeginCases
<1>3. CASE ReadInbounds
    <2>1. UNCHANGED <<present, snap>>
        BY <1>3 DEF ReadInbounds, hostVars
    <2>2. CASE pc' = "converge" /\ todo' = {i \in present : ~Held(i)}
        <3>1. \A i \in Targets \cap present : i \in todo'
            BY <2>2 DEF Targets, Named, Held
        <3> QED BY <2>1, <2>2, <3>1, TargetsFrame DEF MetInv
    <2>3. CASE FailAll
        BY <2>1, <2>3, TargetsFrame, MetFailed DEF FailAll, Return
    <2> QED BY <1>3, <2>2, <2>3 DEF ReadInbounds
<1>4. ASSUME NEW i \in Inbound, Converge(i) PROVE MetInv'
    <2>1. /\ pc = "converge" /\ i \in todo /\ todo' = todo \ {i}
          /\ UNCHANGED <<present, snap, panel, wrote>>
        BY <1>4, ConvergeCases DEF hostVars, panelVars
    <2>2. cur = {} /\ Targets' = Targets /\ \A j : Met(j)' <=> Met(j)
        BY <1>1, <2>1 DEF WorkOK, Inside
    <2>3. CASE ~Named(i) /\ UNCHANGED <<pc, cur, acts, bad>>
        <3>1. i \notin Targets
            BY <2>3 DEF Targets
        <3>2. \A j : Fine(j)' <=> Fine(j)
            BY <2>2, <2>3 DEF Fine
        <3> QED BY <2>1, <2>2, <2>3, <3>1, <3>2 DEF MetInv, Working
    <2>4. CASE bad' = Code(i) /\ UNCHANGED <<pc, cur, acts>>
        <3>1. \A j \in Targets : j = i \/ Fine(j) => Fine(j)'
            BY <2>2, <2>4 DEF Fine, Code
        <3> QED BY <2>1, <2>2, <2>4, <3>1 DEF MetInv, Working
    <2>5. CASE /\ cur' = {i} /\ bad' = bad
               /\ \/ pc' = "reset" /\ acts' = acts
                  \/ pc' = "mark" /\ acts' \in Plans(i, seen.panel, seen.count)
        <3>1. \A j : Fine(j)' <=> Fine(j)
            BY <2>2, <2>5 DEF Fine
        <3>2. pc' = "mark" /\ acts' = {} => Met(i)
            <4>1. i \in Ahead /\ pc \in Working
                BY <2>1 DEF Ahead, Working
            <4> QED BY <2>5, <4>1, NothingToWrite
        <3> QED BY <2>1, <2>2, <2>5, <3>1, <3>2 DEF MetInv, Working, Inside
    <2> QED BY <1>4, <2>3, <2>4, <2>5, ConvergeCases
<1>5. ASSUME NEW c \in Owned, ResetTraffic(c) PROVE MetInv'
    <2>1. pc = "reset" /\ cur = {Home[c]} /\ UNCHANGED <<present, snap, panel, todo, wrote>>
        BY <1>5, ResetCases DEF hostVars
    <2>2. CASE GiveUp(Home[c])
        BY <2>1, <2>2, MetGivenUp DEF Inside
    <2>3. CASE pc' = "record" /\ UNCHANGED <<cur, bad>>
        <3>1. Targets' = Targets /\ \A j : Fine(j)' <=> Fine(j)
            BY <1>1, <2>1, <2>3 DEF Fine
        <3> QED BY <2>1, <2>3, <3>1 DEF MetInv, Working, Inside
    <2> QED BY <1>5, <2>2, <2>3, ResetCases
<1>6. ASSUME NEW c \in Owned, SetReset(c) PROVE MetInv'
    <2>1. pc = "record" /\ cur = {Home[c]} /\ UNCHANGED <<present, snap, panel, todo, wrote>>
        BY <1>6, SetResetCases DEF hostVars, panelVars, WorkOK
    <2>2. CASE GiveUp(Home[c])
        BY <2>1, <2>2, MetGivenUp DEF Inside
    <2>3. CASE pc' = "reset" /\ UNCHANGED <<cur, bad>>
        <3>1. Targets' = Targets /\ \A j : Fine(j)' <=> Fine(j)
            BY <1>1, <2>1, <2>3 DEF Fine
        <3> QED BY <2>1, <2>3, <3>1 DEF MetInv, Working, Inside
    <2> QED BY <1>6, <2>2, <2>3, SetResetCases
<1>7. CASE ResetsDone
    <2>1. /\ pc = "reset" /\ pc' = "mark" /\ UNCHANGED <<present, snap, panel, todo, cur, wrote, bad>>
          /\ \E i \in cur : acts' \in Plans(i, seen.panel, seen.count)
        BY <1>7 DEF ResetsDone, hostVars, panelVars
    <2>2. PICK i \in cur : acts' \in Plans(i, seen.panel, seen.count)
        BY <2>1
    <2>3. cur = {i}
        BY <2>2 DEF WorkOK
    <2>4. acts' = {} => Met(i)
        <3>1. i \in Ahead /\ pc \in Working
            BY <2>1, <2>2 DEF Ahead, Working, Inside
        <3> QED BY <2>2, <3>1, NothingToWrite
    <2>5. Targets' = Targets /\ (\A j : Met(j)' <=> Met(j)) /\ \A j : Fine(j)' <=> Fine(j)
        BY <1>1, <2>1 DEF Fine
    <2> QED BY <2>1, <2>3, <2>4, <2>5 DEF MetInv, Working, Inside
<1>8. CASE Mark
    <2>1. pc = "mark" /\ UNCHANGED <<present, snap, panel, todo, wrote>>
        BY <1>8, MarkCases DEF hostVars, panelVars
    <2>2. ASSUME NEW i \in cur, GiveUp(i) PROVE MetInv'
        <3>1. cur = {i}
            BY DEF WorkOK
        <3> QED BY <2>1, <2>2, <3>1, MetGivenUp DEF Inside
    <2>3. CASE pc' = "write" /\ UNCHANGED <<cur, acts, bad>>
        <3>1. Targets' = Targets /\ (\A j : Met(j)' <=> Met(j)) /\ \A j : Fine(j)' <=> Fine(j)
            BY <1>1, <2>1, <2>3 DEF Fine
        <3> QED BY <2>1, <2>3, <3>1 DEF MetInv, Working, Inside
    <2> QED BY <1>8, <2>2, <2>3, MarkCases
<1>9. ASSUME NEW a \in acts, WriteClient(a) PROVE MetInv'
    <2>1. pc = "write" /\ UNCHANGED <<present, snap, todo>> /\ cur = {Home[a.email]} /\ a.email \in Owned
        BY <1>9, WriteCases DEF WriteClient, hostVars, WorkOK
    <2>2. CASE GiveUp(Home[a.email]) /\ wrote' = wrote
        <3>1. \A c \in Owned : Home[c] # Home[a.email] => panel'[c] = panel[c]
            <4>1. CASE UNCHANGED panelVars
                BY <4>1 DEF panelVars
            <4>2. CASE Rewritten(a)
                BY <4>2, ReachesOne DEF Rewritten, Email
            <4> QED BY <1>9, <4>1, <4>2, WriteCases
        <3> QED BY <2>1, <2>2, <3>1, MetGivenUp DEF Inside
    <2>3. CASE wrote' = TRUE /\ pc' = pc
        BY <2>1, <2>3 DEF MetInv
    <2> QED BY <1>9, <2>2, <2>3, WriteCases
<1>10. CASE InboundDone
    <2>1. /\ pc = "write" /\ pc' = "converge" /\ acts = {} /\ cur' = {}
          /\ UNCHANGED <<present, snap, panel, todo, wrote, bad>>
        BY <1>10 DEF InboundDone, hostVars, panelVars
    <2>2. Targets' = Targets /\ \A j : Fine(j)' <=> Fine(j)
        BY <1>1, <2>1 DEF Fine
    <2>3. ~wrote => \A i \in cur \cap Targets : Fine(i)
        BY <2>1 DEF MetInv, Fine
    <2> QED BY <2>1, <2>2, <2>3 DEF MetInv, Working, Inside
<1>11. CASE AllConverged
    <2>1. /\ pc = "converge" /\ todo = {} /\ bad' = bad \cup Missing
          /\ pc' = IF mem.restart THEN "restart" ELSE IF wrote THEN "verify" ELSE "keep"
          /\ UNCHANGED <<present, snap, panel, wrote>>
        BY <1>11 DEF AllConverged, hostVars, panelVars
    <2>2. cur = {} /\ Targets' = Targets /\ \A j : Met(j)' <=> Met(j)
        BY <1>1, <2>1 DEF WorkOK, Inside
    <2>3. \A i \in Targets \ present : Fine(i)'
        <3> SUFFICES ASSUME NEW i \in Targets \ present, i \notin bad' PROVE Met(i)
            BY <2>2 DEF Fine
        <3>1. \A c \in Of(i) : snap.want[c] = Absent
            BY <2>1 DEF Missing
        <3>2. \A c \in Of(i) : Wanted(c) = Absent
            BY <3>1 DEF Wanted
        <3>3. \A c \in Of(i) : panel[c] = Absent
            BY DEF Of, HostOK, Email
        <3> QED BY <3>2, <3>3, ClientFacts DEF Met
    <2>4. ~wrote => \A i \in Targets : Fine(i)'
        <3>1. ASSUME ~wrote, NEW i \in Targets, i \in present PROVE Fine(i)'
            <4>1. Fine(i)
                BY <2>1, <2>2, <3>1 DEF MetInv, Working
            <4> QED BY <2>1, <2>2, <4>1 DEF Fine
        <3> QED BY <2>3, <3>1
    <2> QED BY <2>1, <2>2, <2>3, <2>4 DEF MetInv, Working, Inside
<1>12. CASE Restart
    <2>1. pc = "restart" /\ UNCHANGED <<present, snap, panel, wrote>>
        BY <1>12 DEF Restart, hostVars
    <2>2. CASE pc' = "unmark" /\ bad' = bad
        <3>1. Targets' = Targets /\ \A j : Fine(j)' <=> Fine(j)
            BY <1>1, <2>1, <2>2 DEF Fine
        <3> QED BY <2>1, <2>2, <3>1 DEF MetInv, Working, Inside
    <2>3. CASE FailAll
        BY <2>1, <2>3, TargetsFrame, MetFailed DEF FailAll, Return
    <2> QED BY <1>12, <2>2, <2>3 DEF Restart
<1>13. CASE Unmark
    <2>1. pc = "unmark" /\ UNCHANGED <<present, snap, panel, wrote>>
        BY <1>13 DEF Unmark, hostVars, panelVars
    <2>2. CASE pc' = (IF wrote THEN "verify" ELSE "keep") /\ bad' = bad
        <3>1. Targets' = Targets /\ \A j : Fine(j)' <=> Fine(j)
            BY <1>1, <2>1, <2>2 DEF Fine
        <3> QED BY <2>1, <2>2, <3>1 DEF MetInv, Working, Inside
    <2>3. CASE FailAll
        BY <2>1, <2>3, TargetsFrame, MetFailed DEF FailAll, Return
    <2> QED BY <1>13, <2>2, <2>3 DEF Unmark
<1>14. CASE Verify
    <2>1. pc = "verify" /\ UNCHANGED <<present, snap, panel>>
        BY <1>14 DEF Verify, hostVars, panelVars
    <2>2. Targets' = Targets /\ \A j : Met(j)' <=> Met(j)
        BY <1>1, <2>1
    <2>3. CASE pc' = "keep" /\ bad' = bad \cup {i \in Targets \cap present : Unconfirmed(i)}
        <3>1. ASSUME NEW i \in Targets PROVE Fine(i)'
            <4>1. CASE i \notin present
                BY <2>1, <2>2, <2>3, <4>1 DEF MetInv, Fine
            <4>2. CASE i \in present /\ Unconfirmed(i)
                BY <2>3, <4>2 DEF Fine
            <4>3. CASE ~Unconfirmed(i)
                <5>1. PICK p, count : p = panel /\ count = [c \in Owned |-> used[c].count]
                    OBVIOUS
                <5>2. Plans(i, p, count) = {{}}
                    BY <4>3, <5>1 DEF Unconfirmed
                <5>3. WantsFit /\ {} \in Plans(i, p, count)
                    BY <5>2 DEF HeldOK
                <5>4. MetBy(i, p)
                    BY <5>3, EmptyPlan, Zenon
                <5> QED BY <2>2, <5>1, <5>4, MetIsMetBy DEF Fine
            <4> QED BY <4>1, <4>2, <4>3
        <3> QED BY <2>2, <2>3, <3>1 DEF MetInv, Working, Inside
    <2>4. CASE FailAll
        BY <2>1, <2>4, TargetsFrame, MetFailed DEF FailAll, Return
    <2> QED BY <1>14, <2>3, <2>4 DEF Verify
<1>15. CASE KeepOnly
    <2>1. pc = "keep" /\ pc' = "return" /\ UNCHANGED <<present, snap, panel>>
        BY <1>15, KeepCases DEF hostVars, panelVars
    <2>2. CASE bad' = bad
        <3>1. Targets' = Targets /\ \A j : Fine(j)' <=> Fine(j)
            BY <1>1, <2>1, <2>2 DEF Fine
        <3> QED BY <2>1, <3>1 DEF MetInv, Working, Inside
    <2>3. CASE bad' = Targets
        BY <2>1, <2>3, TargetsFrame, MetFailed
    <2> QED BY <1>15, <2>2, <2>3, KeepCases
<1>16. CASE Returns \/ Crash
    <2>1. pc' = "idle"
        BY <1>16 DEF Returns, Crash, Idle
    <2> QED BY <2>1 DEF MetInv, Working, Inside
<1>17. ASSUME NEW c \in Owned, PanelDisables(c) PROVE MetInv'
    <2>1. /\ panel[c].limit # 0 /\ panel' = [panel EXCEPT ![c] = Disabled(panel[c])]
          /\ UNCHANGED <<present, snap, pc, wrote, todo, cur, acts, bad>>
        BY <1>17 DEF PanelDisables, Disabled, hostVars, applyVars
    <2>2. PICK p, q : p = panel /\ q = panel'
        OBVIOUS
    <2>3. \A d \in Owned : p[d] \in MaybeClient /\ Same(p[d], q[d])
        BY <2>1, <2>2 DEF HostOK, Email, Same
    <2>4. \A i : Met(i) => Met(i)'
        <3> SUFFICES ASSUME NEW i, Met(i) PROVE Met(i)'
            OBVIOUS
        <3>1. MetBy(i, p)
            BY <2>2, MetIsMetBy
        <3>2. \A d \in Of(i) : p[d] \in MaybeClient /\ Same(p[d], q[d])
            BY <2>3 DEF Of
        <3>3. MetBy(i, q)
            BY <3>1, <3>2, MetStays, Zenon
        <3> QED BY <2>1, <2>2, <3>3 DEF Met, MetBy, Wanted, Named, Of
    <2>5. Targets' = Targets /\ \A i : Fine(i) => Fine(i)'
        BY <2>1, <2>4, TargetsFrame DEF Fine
    <2> QED BY <2>1, <2>4, <2>5 DEF MetInv
<1>18. CASE SnapshotReads \/ SnapshotLabels
    BY <1>18, MetQuiet DEF SnapshotReads, SnapshotLabels, hostVars, panelVars, applyVars
<1>19. CASE Cloud
    BY <1>19, MetQuiet DEF Cloud, CloudResets, CloudWants, CloudNames, CloudOnly, hostVars, panelVars, applyVars
<1>20. CASE \E c \in Owned : Traffic(c)
    BY <1>20, MetQuiet DEF Traffic, hostVars, applyVars
<1>21. CASE UNCHANGED vars
    BY <1>21, MetQuiet DEF vars, hostVars, panelVars, applyVars
<1> QED BY <1>2, <1>3, <1>4, <1>5, <1>6, <1>7, <1>8, <1>9, <1>10, <1>11, <1>12, <1>13, <1>14,
           <1>15, <1>16, <1>17, <1>18, <1>19, <1>20, <1>21 DEF Next, Apply

\* A target Apply returns without a code is met by the panel and, on a Shadowsocks
\* 2022 inbound, loaded by Xray (StatusIsTrue), whichever pass wrote it and whatever
\* failed since, but for a save that fails after its rename: what is not loaded is
\* marked for a restart, and a pass that wrote nothing has found no write to make.
THEOREM StatusesAreTrue == Spec => []StatusIsTrue
<1> DEFINE Inv == TypeInv /\ SeenInv /\ RestartInv /\ MetInv
<1>1. Init => Inv
    <2>1. Init => RestartInv /\ MetInv
        BY DEF Init, RestartInv, MetInv, Working, Inside
    <2> QED BY <2>1, TypeInit, SeenInit
<1>2. Inv /\ [Next]_vars => Inv'
    BY TypeStep, SeenStep, RestartStep, MetStep
<1>3. Inv => StatusIsTrue
    BY DEF RestartInv, MetInv, Fine, StatusIsTrue
<1> QED BY <1>1, <1>2, <1>3, PTL DEF Spec
=============================================================================
