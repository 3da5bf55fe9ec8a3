---------------------------- MODULE DesiredProofs ----------------------------
(***************************************************************************)
(* Proofs about Desired for every set of keys, every number of versions    *)
(* and every number of faults.                                             *)
(***************************************************************************)
EXTENDS Desired, SequenceTheorems, FiniteSetTheorems, TLAPS

-----------------------------------------------------------------------------
(* The inductive invariants. *)

Message == [type : {"put"}, key : Key, target : Target]
               \cup [type : {"keys"}, keys : SUBSET Key]
Told == [key : Key, status : Status]

\* What is in flight, and what a pass is reporting, has its type.
WireOK ==
    /\ down \in Seq(Message)
    /\ up \in Seq(Told)
    /\ session \notin {"active", "ready"} => down = <<>>
    /\ pc \notin {"send", "record"} => cur = {}
    /\ \A k \in todo \cup cur : results[k] \in Status

\* NoLostWake at every step of the goroutine but those with a snapshot to come.
WakeInv ==
    ~wake /\ ~signalling /\ complete /\ pc \notin {"settle", "pass"}
        => snap = [targets |-> targets, invalid |-> invalid]

IsPut(i, k) == down[i].type = "put" /\ down[i].key = k
IsList(i) == down[i].type = "keys"

\* No version is newer than the last Cloud used, and Cloud's target is of that one.
Bounded(k) ==
    /\ want[k] # None => want[k].ver = last[k]
    /\ since[k] <= last[k]
    /\ targets[k].ver <= last[k] /\ snap.targets[k].ver <= last[k] /\ node[k] <= last[k]
    /\ \A i \in DOMAIN down : IsPut(i, k) => down[i].target.ver <= last[k]

\* Nor is the version of any status.
Reported(k) ==
    /\ invalid[k] <= last[k] /\ snap.invalid[k] <= last[k]
    /\ results[k].ver <= last[k] /\ known[k].ver <= last[k]
    /\ \A i \in DOMAIN up : up[i].key = k => up[i].status.ver <= last[k]

\* From the snapshot over the unit to what is in flight, a key's targets never get
\* older.
Ordered(k) ==
    /\ targets[k] = None \/ snap.targets[k].ver <= targets[k].ver
    /\ \A i \in DOMAIN down : IsPut(i, k) =>
          snap.targets[k].ver <= down[i].target.ver /\ targets[k].ver <= down[i].target.ver
    /\ \A i, j \in DOMAIN down :
          IsPut(i, k) /\ IsPut(j, k) /\ i < j => down[i].target.ver <= down[j].target.ver

\* Nothing the Agent holds of a key is as recent as Cloud's naming of it.
Unseen(k) == /\ targets[k].ver < since[k]
             /\ snap.targets[k].ver < since[k]
             /\ node[k] < since[k]

\* A key list without a key that Cloud names is older than the naming, whether the
\* list is in flight, in force or in the snapshot being applied.
ListOlder(k) ==
    want[k] # None =>
        /\ \A i \in DOMAIN down : IsList(i) /\ k \notin down[i].keys =>
              /\ Unseen(k)
              /\ \A j \in 1..(i - 1) : IsPut(j, k) => down[j].target.ver < since[k]
        /\ complete /\ ~Named(k) => Unseen(k)
        /\ pc = "apply" /\ k \notin SnapKeys => node[k] < since[k]

\* Before the first key list of a process, the targets it names are there or arrive
\* ahead of it.
ListComplete(k) ==
    ~complete =>
        /\ session \in {"active", "ready"} => \E i \in DOMAIN down : IsList(i)
        /\ \A i \in DOMAIN down :
              IsList(i) /\ k \in down[i].keys /\ (\A j \in 1..(i - 1) : ~IsList(j))
                  => Named(k) \/ \E j \in 1..(i - 1) : IsPut(j, k)

RemoveInv == \A k \in Key : Bounded(k) /\ Ordered(k) /\ ListOlder(k) /\ ListComplete(k)

\* All that is left of a key, wherever it is, is of the last version.
OnlyLast(k) ==
    /\ node[k] \in {0, last[k]}
    /\ targets[k].ver \in {0, last[k]}
    /\ snap.targets[k].ver \in {0, last[k]}
    /\ \A i \in DOMAIN down : IsPut(i, k) => down[i].target.ver = last[k]

\* Someone holds the confirmation of the last version of a key.
Confirmed(k) ==
    LET ok == [ver |-> last[k], code |-> "ok"]
    IN  \/ results[k] = ok
        \/ known[k] = ok
        \/ \E i \in DOMAIN up : up[i] = [key |-> k, status |-> ok]

CleanInv == \A k \in Key : Reported(k) /\ (want[k] = None \/ Confirmed(k) => OnlyLast(k))

-----------------------------------------------------------------------------
(* Types. *)

\* Versions are positive numbers.
LEMMA VersionPositive == \A v \in Version : v \in Nat /\ v > 0
BY MaxVersionType DEF Version

\* A version Cloud still has to use is a version.
LEMMA NextVersion ==
    ASSUME NEW k \in Key, NEW n \in Nat, n < MaxVersion[k]
    PROVE  n + 1 \in Version
<1>1. n + 1 \in 1..MaxVersion[k]
  BY MaxVersionType
<1> QED BY <1>1 DEF Version

\* An order of a finite set has every member of the set.
LEMMA OrderHasAll ==
    ASSUME NEW S, IsFiniteSet(S), NEW q \in Orders(S)
    PROVE  /\ Cardinality(S) \in Nat
           /\ q \in [1..Cardinality(S) -> S]
           /\ \A x \in S : \E i \in 1..Cardinality(S) : q[i] = x
<1> DEFINE n == Cardinality(S)
<1>1. n \in Nat
  BY FS_CardinalityType
<1>2. q \in Injection(1..n, S)
  BY DEF Orders, Injection, IsInjective
<1>3. IsFiniteSet(1..n) /\ Cardinality(1..n) = n
  BY <1>1, FS_Interval
<1>4. q \in Surjection(1..n, S)
  BY <1>2, <1>3, FS_Injection
<1> QED BY <1>1, <1>2, <1>4 DEF Surjection, Injection

\* What Connect puts in flight: a target of every named key, then the list.
LEMMA GreetingType ==
    ASSUME TypeOK, NEW q \in Orders(CloudNamed)
    PROVE  LET g == Append([i \in DOMAIN q |-> PutMsg(q[i], want[q[i]])], KeysMsg(CloudNamed))
               n == Cardinality(CloudNamed)
           IN  /\ n \in Nat
               /\ g \in Seq(Message)
               /\ Len(g) = n + 1
               /\ \A i \in 1..n : q[i] \in CloudNamed /\ g[i] = PutMsg(q[i], want[q[i]])
               /\ g[n + 1] = KeysMsg(CloudNamed)
               /\ \A k \in CloudNamed : \E i \in 1..n : q[i] = k
<1> DEFINE n == Cardinality(CloudNamed)
           p == [i \in DOMAIN q |-> PutMsg(q[i], want[q[i]])]
<1>1. IsFiniteSet(CloudNamed)
  BY KeyFinite, FS_Subset DEF CloudNamed
<1>2. n \in Nat /\ q \in [1..n -> CloudNamed] /\ \A x \in CloudNamed : \E i \in 1..n : q[i] = x
  BY <1>1, OrderHasAll
<1>3. \A i \in 1..n : PutMsg(q[i], want[q[i]]) \in Message
  BY <1>2 DEF CloudNamed, TypeOK, PutMsg, Message
<1>4. p \in Seq(Message) /\ Len(p) = n /\ \A i \in 1..n : p[i] = PutMsg(q[i], want[q[i]])
  BY <1>2, <1>3
<1>5. KeysMsg(CloudNamed) \in Message
  BY DEF KeysMsg, Message, CloudNamed
<1> HIDE DEF p
<1>6. /\ Append(p, KeysMsg(CloudNamed)) \in Seq(Message)
      /\ Len(Append(p, KeysMsg(CloudNamed))) = n + 1
      /\ \A i \in 1..n : Append(p, KeysMsg(CloudNamed))[i] = p[i]
      /\ Append(p, KeysMsg(CloudNamed))[n + 1] = KeysMsg(CloudNamed)
  BY <1>4, <1>5, AppendProperties
<1> QED BY <1>2, <1>4, <1>6 DEF p

\* What is left in flight when the reader has taken a message.
LEMMA Popped ==
    ASSUME down \in Seq(Message), NEW m, Receive(m), down' = Tail(down)
    PROVE  /\ down' \in Seq(Message)
           /\ session = "ready" /\ ~signalling
           /\ 1 \in DOMAIN down /\ down[1] = m
           /\ \A i \in DOMAIN down' : i \in Nat \ {0} /\ i + 1 \in DOMAIN down /\ down'[i] = down[i + 1]
<1>1. down # <<>> /\ Head(down) = m
  BY DEF Receive
<1>2. /\ Tail(down) \in Seq(Message)
      /\ Len(Tail(down)) = Len(down) - 1
      /\ \A i \in 1..Len(Tail(down)) : Tail(down)[i] = down[i + 1]
  BY <1>1, HeadTailProperties
<1>3. Len(down) \in Nat \ {0}
  BY <1>1, EmptySeq
<1> QED BY <1>1, <1>2, <1>3 DEF Receive

\* What is in flight when Cloud has told the Agent something.
LEMMA ToldMore ==
    ASSUME down \in Seq(Message), NEW msgs \in Seq(Message), Tell(msgs),
           session \in {"active", "ready"}
    PROVE  /\ down' \in Seq(Message)
           /\ Len(down) \in Nat /\ Len(msgs) \in Nat
           /\ DOMAIN down = 1..Len(down)
           /\ DOMAIN down' = 1..(Len(down) + Len(msgs))
           /\ \A i \in 1..Len(down) : down'[i] = down[i]
           /\ \A i \in 1..Len(msgs) : down'[Len(down) + i] = msgs[i]
<1>1. down' = down \o msgs
  BY DEF Tell
<1>2. Len(down) \in Nat /\ Len(msgs) \in Nat
  OBVIOUS
<1>3. /\ down \o msgs \in Seq(Message)
      /\ Len(down \o msgs) = Len(down) + Len(msgs)
      /\ \A i \in 1..(Len(down) + Len(msgs)) :
             (down \o msgs)[i] = IF i <= Len(down) THEN down[i] ELSE msgs[i - Len(down)]
  BY ConcatProperties
<1>4. \A i \in 1..Len(down) : down'[i] = down[i]
  BY <1>1, <1>2, <1>3
<1>5. ASSUME NEW i \in 1..Len(msgs) PROVE down'[Len(down) + i] = msgs[i]
  <2>1. Len(down) + i \in 1..(Len(down) + Len(msgs)) /\ ~(Len(down) + i <= Len(down))
    BY <1>2
  <2>2. (Len(down) + i) - Len(down) = i
    BY <1>2
  <2> QED BY <2>1, <2>2, <1>1, <1>3
<1> QED BY <1>1, <1>2, <1>3, <1>4, <1>5

\* The initial state has its type.
LEMMA InitType == Init => TypeOK /\ WireOK
<1> SUFFICES ASSUME Init PROVE TypeOK /\ WireOK
  OBVIOUS
<1>1. down \in Seq(Message) /\ up \in Seq(Told) /\ DOMAIN up = {}
  BY EmptySeq DEF Init
<1>2. WireOK
  BY <1>1 DEF Init, WireOK
<1>3. TypeOK
  BY <1>1 DEF Init, TypeOK, NoTargets, NothingYet
<1> QED BY <1>2, <1>3

\* Every step keeps the types.
LEMMA StepType == TypeOK /\ WireOK /\ [Next]_vars => TypeOK' /\ WireOK'
<1> SUFFICES ASSUME TypeOK, WireOK, [Next]_vars
             PROVE  TypeOK' /\ WireOK'
  OBVIOUS
<1> USE VersionPositive DEF unitVars, passVars, wireVars, cloudVars, passUnchanged
<1>1. ASSUME NEW k \in Key, NEW t \in Target, Put(k, t) PROVE TypeOK' /\ WireOK'
  <2>1. down' \in Seq(Message) /\ session = "ready"
    BY <1>1, Popped DEF Put, WireOK
  <2>2. targets' \in [Key -> Target \cup {None}] /\ invalid' \in [Key -> Version \cup {0}]
    <3>1. t.ver \in Version
      BY DEF Target
    <3>2. CASE t.kind # "bad"
      BY <1>1, <3>2 DEF Put, TypeOK
    <3>3. CASE t.kind = "bad"
      BY <1>1, <3>1, <3>3 DEF Put, TypeOK
    <3> QED BY <3>2, <3>3
  <2>3. TypeOK'
    BY <1>1, <2>2 DEF Put, TypeOK
  <2> QED BY <1>1, <2>1, <2>3 DEF Put, WireOK
<1>2. ASSUME NEW ks \in SUBSET Key, Keys(ks) PROVE TypeOK' /\ WireOK'
  <2>1. down' \in Seq(Message) /\ session = "ready"
    BY <1>2, Popped DEF Keys, WireOK
  <2>2. TypeOK'
    BY <1>2 DEF Keys, TypeOK
  <2> QED BY <1>2, <2>1, <2>2 DEF Keys, WireOK
<1>3. CASE Signal
  BY <1>3 DEF Signal, TypeOK, WireOK
<1>4. CASE Woken \/ Settled \/ TimerFires \/ PassEarly
  BY <1>4 DEF Woken, Settled, TimerFires, PassEarly, TypeOK, WireOK
<1>5. CASE TakeSnapshot
  BY <1>5 DEF TakeSnapshot, TypeOK, WireOK
<1>6. CASE Apply
  <2>1. PICK failed \in SUBSET Key, removed \in BOOLEAN, done \in SUBSET Key :
          /\ node' = [k \in Key |-> Applied(k, failed, done, removed)]
          /\ results' = [k \in Key |-> IF k \in SnapKeys THEN ResultOf(k, failed) ELSE NoStatus]
    BY <1>6 DEF Apply
  <2>2. ASSUME NEW k \in Key PROVE Applied(k, failed, done, removed) \in Version \cup {0}
    BY DEF Applied, TypeOK, Target
  <2>3. ASSUME NEW k \in SnapKeys PROVE ResultOf(k, failed) \in Status
    BY DEF ResultOf, SnapKeys, TypeOK, Target, Status, Code
  <2>4. node' \in [Key -> Version \cup {0}] /\ results' \in [Key -> Status \cup {NoStatus}]
    BY <2>1, <2>2, <2>3
  <2>5. todo' = SnapKeys /\ SnapKeys \subseteq Key /\ cur' = {}
    BY <1>6 DEF Apply, SnapKeys, WireOK
  <2>6. \A k \in todo' \cup cur' : results'[k] \in Status
    BY <2>1, <2>3, <2>5
  <2>7. TypeOK'
    BY <1>6, <2>4, <2>5 DEF Apply, TypeOK
  <2> QED BY <1>6, <2>5, <2>6, <2>7 DEF Apply, WireOK
<1>7. ASSUME NEW k \in Key, Check(k) PROVE TypeOK' /\ WireOK'
  BY <1>7 DEF Check, TypeOK, WireOK
<1>8. ASSUME NEW k \in Key, Send(k) PROVE TypeOK' /\ WireOK'
  <2>1. [key |-> k, status |-> results[k]] \in Told
    BY <1>8 DEF Send, WireOK, Told
  <2>2. up' \in Seq(Told) /\ \A i \in DOMAIN up' : up'[i] \in Told
    <3>1. up' = up \/ up' = Append(up, [key |-> k, status |-> results[k]])
      BY <1>8 DEF Send
    <3>2. up' \in Seq(Told)
      BY <3>1, <2>1, AppendProperties DEF WireOK
    <3> QED BY <3>2
  <2>3. TypeOK'
    BY <1>8, <2>2 DEF Send, TypeOK, Told
  <2> QED BY <1>8, <2>2, <2>3 DEF Send, WireOK
<1>9. ASSUME NEW k \in Key, Sent(k) PROVE TypeOK' /\ WireOK'
  BY <1>9 DEF Sent, TypeOK, WireOK
<1>10. CASE PassEnds
  BY <1>10 DEF PassEnds, TypeOK, WireOK, NothingYet
<1>11. CASE Connect
  <2>1. down' \in Seq(Message)
    BY <1>11, GreetingType DEF Connect
  <2> QED BY <1>11, <2>1 DEF Connect, TypeOK, WireOK
<1>12. CASE ControlReady
  BY <1>12 DEF ControlReady, TypeOK, WireOK, NothingYet
<1>13. CASE Break
  BY <1>13 DEF Break, TypeOK, WireOK
<1>14. CASE EndSession
  BY <1>14 DEF EndSession, TypeOK, WireOK
<1>15. CASE Crash
  <2>1. down' \in Seq(Message) /\ up' \in Seq(Told) /\ DOMAIN up' = {}
    BY <1>15, EmptySeq DEF Crash
  <2>2. TypeOK'
    BY <1>15, <2>1 DEF Crash, TypeOK, NothingYet, NoTargets
  <2> QED BY <1>15, <2>1, <2>2 DEF Crash, WireOK
<1>16. ASSUME NEW k \in Key, NEW kind \in Kind, CloudPut(k, kind) PROVE TypeOK' /\ WireOK'
  <2> DEFINE t == [ver |-> last[k] + 1, kind |-> kind]
  <2>1. last[k] + 1 \in Version
    <3>1. last[k] \in Version \cup {0}
      BY DEF TypeOK
    <3>2. last[k] \in Nat
      BY <3>1, VersionPositive
    <3>3. last[k] < MaxVersion[k]
      BY <1>16 DEF CloudPut
    <3> QED BY <3>2, <3>3, NextVersion
  <2>2. t \in Target
    BY <2>1 DEF Target
  <2>3. PutMsg(k, t) \in Message /\ KeysMsg(CloudNamed \cup {k}) \in Message
    BY <2>2 DEF PutMsg, KeysMsg, Message, CloudNamed
  <2>4. PICK msgs \in Seq(Message) : Tell(msgs)
    <3>1. <<PutMsg(k, t)>> \in Seq(Message)
          /\ <<PutMsg(k, t), KeysMsg(CloudNamed \cup {k})>> \in Seq(Message)
      BY <2>3
    <3>2. \/ Tell(<<PutMsg(k, t)>>)
          \/ Tell(<<PutMsg(k, t), KeysMsg(CloudNamed \cup {k})>>)
      BY <1>16 DEF CloudPut
    <3> QED BY <3>1, <3>2
  <2>5. down' \in Seq(Message) /\ (session \notin {"active", "ready"} => down' = down)
    BY <2>4, ToldMore DEF Tell, WireOK
  <2>6. TypeOK'
    BY <1>16, <2>1, <2>2 DEF CloudPut, TypeOK
  <2> QED BY <1>16, <2>5, <2>6 DEF CloudPut, WireOK
<1>17. ASSUME NEW k \in Key, CloudRetire(k) PROVE TypeOK' /\ WireOK'
  <2>1. KeysMsg(CloudNamed \ {k}) \in Message
    BY DEF KeysMsg, Message, CloudNamed
  <2>2. PICK msgs \in Seq(Message) : Tell(msgs)
    <3>1. <<KeysMsg(CloudNamed \ {k})>> \in Seq(Message)
      BY <2>1
    <3> QED BY <1>17, <3>1 DEF CloudRetire
  <2>3. down' \in Seq(Message) /\ (session \notin {"active", "ready"} => down' = down)
    BY <2>2, ToldMore DEF Tell, WireOK
  <2>4. TypeOK'
    BY <1>17 DEF CloudRetire, TypeOK
  <2> QED BY <1>17, <2>3, <2>4 DEF CloudRetire, WireOK
<1>18. CASE CloudRecords
  <2>1. up # <<>> /\ up' = Tail(up)
    BY <1>18 DEF CloudRecords
  <2>2. Head(up) \in Told /\ up' \in Seq(Told) /\ \A i \in DOMAIN up' : up'[i] \in Told
    BY <2>1, HeadTailProperties DEF WireOK
  <2>3. known' \in [Key -> Status \cup {NoStatus}]
    BY <1>18, <2>2 DEF CloudRecords, TypeOK, Told
  <2>4. TypeOK'
    BY <1>18, <2>2, <2>3 DEF CloudRecords, TypeOK, Told
  <2> QED BY <1>18, <2>2, <2>4 DEF CloudRecords, WireOK
<1>19. CASE UNCHANGED vars
  BY <1>19 DEF vars, TypeOK, WireOK
<1> QED BY <1>1, <1>2, <1>3, <1>4, <1>5, <1>6, <1>7, <1>8, <1>9, <1>10, <1>11, <1>12,
           <1>13, <1>14, <1>15, <1>16, <1>17, <1>18, <1>19 DEF Next, Unit

\* Every variable keeps its type, what is in flight included.
THEOREM TypeCorrect == Spec => [](TypeOK /\ WireOK)
<1>1. Init => TypeOK /\ WireOK
  BY InitType
<1>2. TypeOK /\ WireOK /\ [Next]_vars => TypeOK' /\ WireOK'
  BY StepType
<1> QED BY <1>1, <1>2, PTL DEF Spec

-----------------------------------------------------------------------------
(* No wake-up is lost. *)

\* Every step keeps WakeInv: what changes the targets signals afterwards, and what
\* takes the signal has its snapshot still to take.
LEMMA StepWake == TypeOK /\ WakeInv /\ [Next]_vars => WakeInv'
<1> SUFFICES ASSUME TypeOK, WakeInv, [Next]_vars
             PROVE  WakeInv'
  OBVIOUS
<1> USE DEF unitVars, passVars, wireVars, cloudVars, passUnchanged, WakeInv
<1>1. ASSUME NEW k \in Key, NEW t \in Target, Put(k, t) PROVE WakeInv'
  BY <1>1 DEF Put
<1>2. ASSUME NEW ks \in SUBSET Key, Keys(ks) PROVE WakeInv'
  BY <1>2 DEF Keys
<1>3. CASE Signal
  BY <1>3 DEF Signal
<1>4. CASE Woken \/ Settled \/ TimerFires \/ PassEarly \/ TakeSnapshot
  BY <1>4 DEF Woken, Settled, TimerFires, PassEarly, TakeSnapshot
<1>5. CASE Apply
  BY <1>5 DEF Apply
<1>6. ASSUME NEW k \in Key, Check(k) \/ Send(k) \/ Sent(k) PROVE WakeInv'
  BY <1>6 DEF Check, Send, Sent
<1>7. CASE PassEnds
  BY <1>7 DEF PassEnds
<1>8. CASE Connect \/ ControlReady \/ Break \/ EndSession
  BY <1>8 DEF Connect, ControlReady, Break, EndSession
<1>9. CASE Crash
  BY <1>9 DEF Crash
<1>10. ASSUME NEW k \in Key, CloudRetire(k) \/ \E kind \in Kind : CloudPut(k, kind) PROVE WakeInv'
  BY <1>10 DEF CloudRetire, CloudPut
<1>11. CASE CloudRecords \/ UNCHANGED vars
  BY <1>11 DEF CloudRecords, vars
<1> QED BY <1>1, <1>2, <1>3, <1>4, <1>5, <1>6, <1>7, <1>8, <1>9, <1>10, <1>11 DEF Next, Unit

\* The unit's goroutine never sleeps over a change of the targets: NoLostWake, for
\* every interleaving of Put, Keys and their signals with run and pass.
THEOREM WakesAreKept == Spec => []NoLostWake
<1>1. Init => WakeInv
  BY DEF Init, WakeInv
<1>2. TypeOK /\ WakeInv /\ [Next]_vars => WakeInv'
  BY StepWake
<1>3. WakeInv => NoLostWake
  BY DEF WakeInv, NoLostWake
<1> QED BY <1>1, <1>2, <1>3, TypeCorrect, PTL DEF Spec

-----------------------------------------------------------------------------
(* What a pass removes. *)

\* The versions held for a key are numbers, and only no target has version 0.
LEMMA Numbers ==
    ASSUME TypeOK, WireOK, NEW k \in Key
    PROVE  /\ last[k] \in Nat /\ since[k] \in Nat /\ node[k] \in Nat
           /\ want[k].ver \in Nat /\ (want[k] = None <=> want[k].ver = 0)
           /\ targets[k].ver \in Nat /\ (targets[k] = None <=> targets[k].ver = 0)
           /\ snap.targets[k].ver \in Nat
           /\ (snap.targets[k] = None <=> snap.targets[k].ver = 0)
           /\ invalid[k] \in Nat /\ snap.invalid[k] \in Nat
           /\ results[k].ver \in Nat /\ known[k].ver \in Nat
           /\ \A i \in DOMAIN down : i \in Nat \ {0} /\ \A j \in 1..(i - 1) : j \in DOMAIN down
           /\ \A i \in DOMAIN down : IsPut(i, k) =>
                  down[i].target \in Target /\ down[i].target.ver \in Nat \ {0}
<1>1. \A t \in Target \cup {None} : t.ver \in Nat /\ (t = None <=> t.ver = 0)
  BY VersionPositive DEF Target, None
<1>2. \A t \in Status \cup {NoStatus} : t.ver \in Nat
  BY VersionPositive DEF Status, NoStatus
<1>3. \A v \in Version \cup {0} : v \in Nat
  BY VersionPositive
<1>4. ASSUME NEW i \in DOMAIN down
      PROVE  /\ i \in Nat \ {0} /\ \A j \in 1..(i - 1) : j \in DOMAIN down
             /\ IsPut(i, k) => down[i].target \in Target /\ down[i].target.ver \in Nat \ {0}
  <2>1. i \in Nat \ {0} /\ down[i] \in Message /\ \A j \in 1..(i - 1) : j \in DOMAIN down
    BY DEF WireOK
  <2>2. ASSUME IsPut(i, k) PROVE down[i].target \in Target
    BY <2>1, <2>2 DEF IsPut, Message
  <2> QED BY <2>1, <2>2, VersionPositive DEF Target
<1>5. /\ want[k] \in Target \cup {None} /\ targets[k] \in Target \cup {None}
      /\ snap.targets[k] \in Target \cup {None}
      /\ last[k] \in Version \cup {0} /\ since[k] \in Version \cup {0}
      /\ node[k] \in Version \cup {0} /\ invalid[k] \in Version \cup {0}
      /\ snap.invalid[k] \in Version \cup {0}
      /\ results[k] \in Status \cup {NoStatus} /\ known[k] \in Status \cup {NoStatus}
  BY DEF TypeOK
<1> QED BY <1>1, <1>2, <1>3, <1>4, <1>5

\* A status is passed on or dropped, never made: from the results to the wire and from
\* the wire to Cloud.
Relayed ==
    /\ \A k \in Key : results'[k] \in {results[k], NoStatus}
    /\ \A i \in DOMAIN up' :
          \/ \E j \in DOMAIN up : up'[i] = up[j]
          \/ \E k \in Key : up'[i] = [key |-> k, status |-> results[k]]
    /\ \A k \in Key :
          \/ known'[k] = known[k]
          \/ \E j \in DOMAIN up : up[j] = [key |-> k, status |-> known'[k]]

\* The steps that touch neither a target, nor the list, nor what is in flight to the
\* Agent, nor Cloud's mind, nor the node.
Quiet ==
    /\ UNCHANGED <<targets, invalid, complete, snap, down, want, since, last, node>>
    /\ pc' = "apply" => pc = "apply"
    /\ session' \in {"active", "ready"} => session \in {"active", "ready"}
    /\ Relayed

\* A step is quiet or one of the ten that are not.
LEMMA Steps ==
    ASSUME TypeOK, WireOK, [Next]_vars
    PROVE  \/ \E k \in Key : \E t \in Target : Put(k, t)
           \/ \E ks \in SUBSET Key : Keys(ks)
           \/ TakeSnapshot \/ Apply \/ Connect \/ Break \/ Crash
           \/ \E k \in Key : CloudRetire(k) \/ \E kind \in Kind : CloudPut(k, kind)
           \/ Quiet
<1> USE DEF Quiet, unitVars, passVars, wireVars, cloudVars, passUnchanged
<1>1. CASE Signal
  BY <1>1 DEF Signal, Relayed
<1>2. CASE Woken \/ Settled \/ TimerFires \/ PassEarly
  BY <1>2 DEF Woken, Settled, TimerFires, PassEarly, Relayed
<1>3. CASE PassEnds
  BY <1>3 DEF PassEnds, Relayed, NothingYet
<1>4. ASSUME NEW k \in Key, Check(k) \/ Sent(k) PROVE Quiet
  BY <1>4 DEF Check, Sent, Relayed
<1>5. ASSUME NEW k \in Key, Send(k) PROVE Quiet
  <2>1. results' = results /\ known' = known
    BY <1>5 DEF Send
  <2>2. ASSUME NEW i \in DOMAIN up'
        PROVE  \/ \E j \in DOMAIN up : up'[i] = up[j]
               \/ up'[i] = [key |-> k, status |-> results[k]]
    <3>1. CASE up' = up
      BY <3>1
    <3>2. CASE up' = Append(up, [key |-> k, status |-> results[k]])
      <4>1. [key |-> k, status |-> results[k]] \in Told
        BY <1>5 DEF Send, WireOK, Told
      <4>2. /\ up \in Seq(Told) /\ Len(up) \in Nat /\ up' \in Seq(Told)
            /\ Len(up') = Len(up) + 1
            /\ \A j \in 1..Len(up) : up'[j] = up[j]
            /\ up'[Len(up) + 1] = [key |-> k, status |-> results[k]]
        BY <3>2, <4>1, AppendProperties DEF WireOK
      <4>3. i \in 1..Len(up) \/ i = Len(up) + 1
        BY <4>2
      <4> QED BY <4>2, <4>3
    <3> QED BY <1>5, <3>1, <3>2 DEF Send
  <2>3. Relayed
    BY <2>1, <2>2 DEF Relayed
  <2> QED BY <1>5, <2>3 DEF Send
<1>6. CASE ControlReady \/ EndSession
  BY <1>6 DEF ControlReady, EndSession, Relayed
<1>7. CASE CloudRecords
  <2>1. up # <<>> /\ up' = Tail(up) /\ results' = results
    BY <1>7 DEF CloudRecords
  <2>2. /\ Len(up) \in Nat \ {0}
        /\ Head(up) = up[1]
        /\ up' \in Seq(Told) /\ Len(up') = Len(up) - 1
        /\ \A i \in 1..Len(up') : up'[i] = up[i + 1]
    BY <2>1, HeadTailProperties, EmptySeq DEF WireOK
  <2>3. \A i \in DOMAIN up' : \E j \in DOMAIN up : up'[i] = up[j]
    BY <2>2 DEF WireOK
  <2>4. 1 \in DOMAIN up /\ up[1] \in Told
    BY <2>2 DEF WireOK
  <2>5. \A k \in Key : known'[k] = known[k] \/ up[1] = [key |-> k, status |-> known'[k]]
    BY <1>7, <2>2, <2>4 DEF CloudRecords, TypeOK, Told
  <2>6. Relayed
    BY <2>1, <2>3, <2>4, <2>5 DEF Relayed
  <2> QED BY <1>7, <2>6 DEF CloudRecords
<1>8. CASE UNCHANGED vars
  BY <1>8 DEF vars, Relayed
<1> QED BY <1>1, <1>2, <1>3, <1>4, <1>5, <1>6, <1>7, <1>8 DEF Next, Unit

\* What Put takes off the wire and does to the targets of a key.
LEMMA PutFacts ==
    ASSUME TypeOK, WireOK, NEW h \in Key, NEW t \in Target, Put(h, t), NEW k \in Key
    PROVE  /\ session = "ready"
           /\ 1 \in DOMAIN down /\ IsPut(1, h) /\ ~IsList(1) /\ down[1].target = t
           /\ \A i \in DOMAIN down' : i \in Nat \ {0} /\ i + 1 \in DOMAIN down /\ down'[i] = down[i + 1]
           /\ targets'[k] = IF k = h /\ t.kind # "bad" THEN t ELSE targets[k]
           /\ invalid'[k] = IF k = h THEN IF t.kind # "bad" THEN 0 ELSE t.ver ELSE invalid[k]
           /\ UNCHANGED <<complete, snap, want, since, last, node, pc, session, known, up, results>>
<1>1. /\ session = "ready" /\ 1 \in DOMAIN down /\ down[1] = PutMsg(h, t)
      /\ \A i \in DOMAIN down' : i \in Nat \ {0} /\ i + 1 \in DOMAIN down /\ down'[i] = down[i + 1]
  BY Popped DEF Put, WireOK
<1>2. IsPut(1, h) /\ ~IsList(1) /\ down[1].target = t
  BY <1>1 DEF PutMsg, IsPut, IsList
<1>3. /\ targets'[k] = IF k = h /\ t.kind # "bad" THEN t ELSE targets[k]
      /\ invalid'[k] = IF k = h THEN IF t.kind # "bad" THEN 0 ELSE t.ver ELSE invalid[k]
  BY DEF Put, TypeOK
<1>4. UNCHANGED <<complete, snap, want, since, last, node, pc, session, known, up, results>>
  BY DEF Put, cloudVars, passVars
<1> QED BY <1>1, <1>2, <1>3, <1>4

\* What Keys takes off the wire and does to the targets of a key.
LEMMA KeysFacts ==
    ASSUME TypeOK, WireOK, NEW ks \in SUBSET Key, Keys(ks), NEW k \in Key
    PROVE  /\ session = "ready"
           /\ 1 \in DOMAIN down /\ IsList(1) /\ down[1].keys = ks
           /\ \A i \in DOMAIN down' : i \in Nat \ {0} /\ i + 1 \in DOMAIN down /\ down'[i] = down[i + 1]
           /\ targets'[k] = IF k \in ks THEN targets[k] ELSE None
           /\ invalid'[k] = IF k \in ks THEN invalid[k] ELSE 0
           /\ complete'
           /\ UNCHANGED <<snap, want, since, last, node, pc, session, known, up, results>>
<1>1. /\ session = "ready" /\ 1 \in DOMAIN down /\ down[1] = KeysMsg(ks)
      /\ \A i \in DOMAIN down' : i \in Nat \ {0} /\ i + 1 \in DOMAIN down /\ down'[i] = down[i + 1]
  BY Popped DEF Keys, WireOK
<1>2. IsList(1) /\ down[1].keys = ks
  BY <1>1 DEF KeysMsg, IsList
<1>3. /\ targets'[k] = IF k \in ks THEN targets[k] ELSE None
      /\ invalid'[k] = IF k \in ks THEN invalid[k] ELSE 0
      /\ complete'
  BY DEF Keys
<1>4. UNCHANGED <<snap, want, since, last, node, pc, session, known, up, results>>
  BY DEF Keys, cloudVars, passVars
<1> QED BY <1>1, <1>2, <1>3, <1>4

\* What Connect puts in flight.
LEMMA ConnectFacts ==
    ASSUME TypeOK, WireOK, Connect, NEW k \in Key
    PROVE  /\ \A i \in DOMAIN down' : IsPut(i, k)' => want[k] # None /\ down'[i].target = want[k]
           /\ \A i \in DOMAIN down' : IsList(i)' => down'[i].keys = CloudNamed
           /\ \E i \in DOMAIN down' :
                 /\ i \in Nat \ {0}
                 /\ IsList(i)'
                 /\ \A j \in DOMAIN down' : j # i => j \in Nat /\ j < i /\ ~IsList(j)'
                 /\ want[k] # None => \E j \in 1..(i - 1) : IsPut(j, k)'
           /\ UNCHANGED <<targets, invalid, complete, snap, want, since, last, node, pc,
                          known, up, results>>
<1>1. PICK q \in Orders(CloudNamed) :
        down' = Append([i \in DOMAIN q |-> PutMsg(q[i], want[q[i]])], KeysMsg(CloudNamed))
  BY DEF Connect
<1>2. PICK n \in Nat :
        /\ down' \in Seq(Message)
        /\ Len(down') = n + 1
        /\ \A i \in 1..n : q[i] \in CloudNamed /\ down'[i] = PutMsg(q[i], want[q[i]])
        /\ down'[n + 1] = KeysMsg(CloudNamed)
        /\ \A x \in CloudNamed : \E i \in 1..n : q[i] = x
  BY <1>1, GreetingType
<1>3. DOMAIN down' = 1..(n + 1)
  BY <1>2
<1>4. /\ n + 1 \in DOMAIN down' /\ IsList(n + 1)' /\ down'[n + 1].keys = CloudNamed
      /\ \A x \in Key : ~IsPut(n + 1, x)'
  BY <1>2, <1>3 DEF IsList, IsPut, KeysMsg
<1>5. ASSUME NEW i \in 1..n
      PROVE  /\ i \in DOMAIN down' /\ ~IsList(i)'
             /\ q[i] \in Key /\ want[q[i]] # None
             /\ down'[i].target = want[q[i]]
             /\ \A x \in Key : IsPut(i, x)' <=> q[i] = x
  <2>1. i \in DOMAIN down' /\ q[i] \in Key /\ want[q[i]] # None
    BY <1>2, <1>3 DEF CloudNamed
  <2>2. down'[i] = [type |-> "put", key |-> q[i], target |-> want[q[i]]]
    BY <1>2 DEF PutMsg
  <2>3. down'[i].type = "put" /\ down'[i].key = q[i] /\ down'[i].target = want[q[i]]
    BY <2>2
  <2> QED BY <2>1, <2>3 DEF IsList, IsPut
<1>6. \A i \in DOMAIN down' : i # n + 1 => i \in 1..n
  BY <1>2, <1>3
<1>7. want[k] # None => \E j \in 1..n : IsPut(j, k)'
  BY <1>2, <1>5 DEF CloudNamed
<1>8. UNCHANGED <<targets, invalid, complete, snap, want, since, last, node, pc, known, up, results>>
  BY DEF Connect, unitVars, passVars, cloudVars
<1>9. /\ \A i \in DOMAIN down' : IsPut(i, k)' => want[k] # None /\ down'[i].target = want[k]
      /\ \A i \in DOMAIN down' : IsList(i)' => down'[i].keys = CloudNamed
  BY <1>4, <1>5, <1>6
<1>10. n + 1 \in Nat \ {0} /\ (n + 1) - 1 = n
  BY <1>2
<1>11. \A j \in DOMAIN down' : j # n + 1 => j \in Nat /\ j < n + 1 /\ ~IsList(j)'
  BY <1>2, <1>5, <1>6
<1> QED BY <1>4, <1>7, <1>8, <1>9, <1>10, <1>11

\* What CloudPut makes of Cloud's mind.
LEMMA CloudPutMind ==
    ASSUME TypeOK, NEW h \in Key, NEW kind \in Kind, CloudPut(h, kind), NEW k \in Key
    PROVE  /\ last'[k] = IF k = h THEN last[k] + 1 ELSE last[k]
           /\ want'[k] = IF k = h THEN [ver |-> last[h] + 1, kind |-> kind] ELSE want[k]
           /\ known'[k] = IF k = h THEN NoStatus ELSE known[k]
           /\ UNCHANGED <<targets, invalid, complete, snap, node, pc, session, up, results>>
<1>1. /\ last'[k] = IF k = h THEN last[k] + 1 ELSE last[k]
      /\ want'[k] = IF k = h THEN [ver |-> last[h] + 1, kind |-> kind] ELSE want[k]
      /\ known'[k] = IF k = h THEN NoStatus ELSE known[k]
  BY DEF CloudPut, TypeOK
<1>2. UNCHANGED <<targets, invalid, complete, snap, node, pc, session, up, results>>
  BY DEF CloudPut, unitVars, passVars
<1> QED BY <1>1, <1>2

\* What CloudPut puts in flight, and what it makes of Cloud's mind.
LEMMA CloudPutFacts ==
    ASSUME TypeOK, WireOK, NEW h \in Key, NEW kind \in Kind, CloudPut(h, kind), NEW k \in Key
    PROVE  /\ \A i \in DOMAIN down : i \in DOMAIN down' /\ down'[i] = down[i]
           /\ \A i \in DOMAIN down' : i \notin DOMAIN down =>
                 /\ session \in {"active", "ready"}
                 /\ \A j \in DOMAIN down : j < i
                 /\ IsPut(i, k)' => k = h /\ down'[i].target.ver = last[k] + 1
                 /\ IsList(i)' => down'[i].keys = CloudNamed \cup {h}
           /\ \A i, j \in DOMAIN down' :
                 i \notin DOMAIN down /\ j \notin DOMAIN down /\ IsPut(i, k)' /\ IsPut(j, k)' => i = j
           /\ last'[k] = IF k = h THEN last[k] + 1 ELSE last[k]
           /\ want'[k] = IF k = h THEN [ver |-> last[h] + 1, kind |-> kind] ELSE want[k]
           /\ known'[k] = IF k = h THEN NoStatus ELSE known[k]
           /\ since'[k] = IF k = h /\ want[k] = None THEN last[k] + 1 ELSE since[k]
           /\ UNCHANGED <<targets, invalid, complete, snap, node, pc, session, up, results>>
<1> DEFINE t == [ver |-> last[h] + 1, kind |-> kind]
<1>1. last[h] + 1 \in Version /\ last[h] \in Nat
  <2>1. last[h] \in Nat
    BY Numbers
  <2>2. last[h] < MaxVersion[h]
    BY DEF CloudPut
  <2> QED BY <2>1, <2>2, NextVersion
<1>2. PutMsg(h, t) \in Message /\ KeysMsg(CloudNamed \cup {h}) \in Message
  BY <1>1 DEF PutMsg, KeysMsg, Message, CloudNamed, Target
<1>3. /\ last'[k] = IF k = h THEN last[k] + 1 ELSE last[k]
      /\ want'[k] = IF k = h THEN t ELSE want[k]
      /\ known'[k] = IF k = h THEN NoStatus ELSE known[k]
  BY DEF CloudPut, TypeOK
<1>4. since'[k] = IF k = h /\ want[k] = None THEN last[k] + 1 ELSE since[k]
  BY DEF CloudPut, TypeOK
<1>5. UNCHANGED <<targets, invalid, complete, snap, node, pc, session, up, results>>
  BY DEF CloudPut, unitVars, passVars
<1>6. PICK msgs \in Seq(Message) :
        /\ Tell(msgs)
        /\ Len(msgs) \in {1, 2}
        /\ msgs[1] = PutMsg(h, t)
        /\ Len(msgs) = 2 => msgs[2] = KeysMsg(CloudNamed \cup {h})
  <2>1. <<PutMsg(h, t)>> \in Seq(Message)
        /\ <<PutMsg(h, t), KeysMsg(CloudNamed \cup {h})>> \in Seq(Message)
    BY <1>2
  <2>2. CASE Tell(<<PutMsg(h, t)>>)
    <3> DEFINE one == <<PutMsg(h, t)>>
    <3>1. Len(one) = 1 /\ one[1] = PutMsg(h, t) /\ Len(one) # 2
      OBVIOUS
    <3> HIDE DEF one
    <3> QED BY <2>1, <2>2, <3>1 DEF one
  <2>3. CASE Tell(<<PutMsg(h, t), KeysMsg(CloudNamed \cup {h})>>)
    <3> DEFINE two == <<PutMsg(h, t), KeysMsg(CloudNamed \cup {h})>>
    <3>1. Len(two) = 2 /\ two[1] = PutMsg(h, t) /\ two[2] = KeysMsg(CloudNamed \cup {h})
      OBVIOUS
    <3> QED BY <2>1, <2>3, <3>1
  <2> QED BY <2>2, <2>3 DEF CloudPut
<1> HIDE DEF t
<1>7. CASE session \notin {"active", "ready"}
  <2>1. down' = down
    BY <1>6, <1>7 DEF Tell
  <2> QED BY <2>1, <1>3, <1>4, <1>5 DEF t
<1>8. CASE session \in {"active", "ready"}
  <2>1. /\ Len(down) \in Nat /\ Len(msgs) \in Nat
        /\ DOMAIN down = 1..Len(down)
        /\ DOMAIN down' = 1..(Len(down) + Len(msgs))
        /\ \A i \in 1..Len(down) : down'[i] = down[i]
        /\ \A i \in 1..Len(msgs) : down'[Len(down) + i] = msgs[i]
    BY <1>6, <1>8, ToldMore DEF WireOK
  <2>2. \A i \in DOMAIN down : i \in DOMAIN down' /\ down'[i] = down[i]
    BY <2>1
  <2>3. ASSUME NEW i \in DOMAIN down', i \notin DOMAIN down
        PROVE  /\ \A j \in DOMAIN down : j < i
               /\ \/ i = Len(down) + 1 /\ down'[i] = PutMsg(h, t)
                  \/ i = Len(down) + 2 /\ down'[i] = KeysMsg(CloudNamed \cup {h})
    <3>1. i \in (Len(down) + 1)..(Len(down) + Len(msgs))
      BY <2>1, <2>3
    <3>2. i = Len(down) + 1 \/ (i = Len(down) + 2 /\ Len(msgs) = 2)
      BY <3>1, <2>1, <1>6
    <3>3. 1 \in 1..Len(msgs) /\ (Len(msgs) = 2 => 2 \in 1..Len(msgs))
      BY <1>6
    <3> QED BY <3>1, <3>2, <3>3, <2>1, <1>6
  <2>4. ASSUME NEW i \in DOMAIN down', i \notin DOMAIN down
        PROVE  /\ IsPut(i, k)' => i = Len(down) + 1 /\ k = h /\ down'[i].target.ver = last[k] + 1
               /\ IsList(i)' => down'[i].keys = CloudNamed \cup {h}
    BY <2>3, <2>4 DEF PutMsg, KeysMsg, IsPut, IsList, t
  <2> QED BY <1>3, <1>4, <1>5, <1>8, <2>2, <2>3, <2>4 DEF t
<1> QED BY <1>7, <1>8

\* What CloudRetire puts in flight, and what it makes of Cloud's mind.
LEMMA CloudRetireFacts ==
    ASSUME TypeOK, WireOK, NEW h \in Key, CloudRetire(h), NEW k \in Key
    PROVE  /\ \A i \in DOMAIN down : i \in DOMAIN down' /\ down'[i] = down[i]
           /\ \A i \in DOMAIN down' : i \notin DOMAIN down =>
                 /\ session \in {"active", "ready"}
                 /\ \A j \in DOMAIN down : j < i
                 /\ IsList(i)' /\ down'[i].keys = CloudNamed \ {h}
                 /\ \A x \in Key : ~IsPut(i, x)'
           /\ want'[k] = IF k = h THEN None ELSE want[k]
           /\ known'[k] = IF k = h THEN NoStatus ELSE known[k]
           /\ UNCHANGED <<targets, invalid, complete, snap, node, pc, session, up, results,
                          since, last>>
<1> DEFINE msgs == <<KeysMsg(CloudNamed \ {h})>>
<1>1. KeysMsg(CloudNamed \ {h}) \in Message
  BY DEF KeysMsg, Message, CloudNamed
<1>2. Tell(msgs) /\ msgs \in Seq(Message) /\ Len(msgs) = 1 /\ msgs[1] = KeysMsg(CloudNamed \ {h})
  BY <1>1 DEF CloudRetire
<1>3. /\ want'[k] = IF k = h THEN None ELSE want[k]
      /\ known'[k] = IF k = h THEN NoStatus ELSE known[k]
  BY DEF CloudRetire, TypeOK
<1>4. UNCHANGED <<targets, invalid, complete, snap, node, pc, session, up, results, since, last>>
  BY DEF CloudRetire, unitVars, passVars
<1> HIDE DEF msgs
<1>5. CASE session \notin {"active", "ready"}
  <2>1. down' = down
    BY <1>2, <1>5 DEF Tell
  <2> QED BY <2>1, <1>3, <1>4
<1>6. CASE session \in {"active", "ready"}
  <2>1. /\ Len(down) \in Nat
        /\ DOMAIN down = 1..Len(down)
        /\ DOMAIN down' = 1..(Len(down) + 1)
        /\ \A i \in 1..Len(down) : down'[i] = down[i]
        /\ down'[Len(down) + 1] = KeysMsg(CloudNamed \ {h})
    <3>1. /\ Len(down) \in Nat
          /\ DOMAIN down = 1..Len(down)
          /\ DOMAIN down' = 1..(Len(down) + Len(msgs))
          /\ \A i \in 1..Len(down) : down'[i] = down[i]
          /\ \A i \in 1..Len(msgs) : down'[Len(down) + i] = msgs[i]
      BY <1>2, <1>6, ToldMore DEF WireOK
    <3>2. 1 \in 1..Len(msgs)
      BY <1>2
    <3> QED BY <3>1, <3>2, <1>2
  <2>2. \A i \in DOMAIN down : i \in DOMAIN down' /\ down'[i] = down[i]
    BY <2>1
  <2>3. ASSUME NEW i \in DOMAIN down', i \notin DOMAIN down
        PROVE  /\ \A j \in DOMAIN down : j < i
               /\ down'[i] = KeysMsg(CloudNamed \ {h})
    BY <2>1, <2>3
  <2>4. ASSUME NEW i \in DOMAIN down', i \notin DOMAIN down
        PROVE  IsList(i)' /\ down'[i].keys = CloudNamed \ {h} /\ \A x \in Key : ~IsPut(i, x)'
    BY <2>3, <2>4 DEF KeysMsg, IsPut, IsList
  <2> QED BY <1>3, <1>4, <1>6, <2>2, <2>3, <2>4
<1> QED BY <1>5, <1>6

\* What Apply makes of a key in the node, and what it reports of it.
LEMMA ApplyFacts ==
    ASSUME TypeOK, WireOK, Apply, NEW k \in Key
    PROVE  /\ pc = "apply" /\ pc' # "apply"
           /\ node'[k] \in {0, node[k], snap.targets[k].ver}
           /\ node'[k] = 0 => node[k] = 0 \/ k \notin SnapKeys
           /\ results'[k].ver \in {0, snap.invalid[k], snap.targets[k].ver}
           /\ results'[k].code = "ok" =>
                 results'[k].ver = snap.targets[k].ver /\ node'[k] = snap.targets[k].ver
           /\ UNCHANGED <<targets, invalid, complete, snap, down, want, since, last, session,
                          known, up>>
<1>1. PICK failed \in SUBSET Key, removed \in BOOLEAN, done \in SUBSET Key :
        /\ node' = [x \in Key |-> Applied(x, failed, done, removed)]
        /\ results' = [x \in Key |-> IF x \in SnapKeys THEN ResultOf(x, failed) ELSE NoStatus]
  BY DEF Apply
<1>2. snap.targets[k] # None => snap.targets[k].ver # 0
  BY Numbers
<1>3. node'[k] = Applied(k, failed, done, removed)
  BY <1>1
<1>4. /\ node'[k] \in {0, node[k], snap.targets[k].ver}
      /\ node'[k] = 0 => node[k] = 0 \/ k \notin SnapKeys
  BY <1>2, <1>3 DEF Applied, SnapKeys
<1>5. results'[k] = IF k \in SnapKeys THEN ResultOf(k, failed) ELSE NoStatus
  BY <1>1
<1>6. /\ results'[k].ver \in {0, snap.invalid[k], snap.targets[k].ver}
      /\ results'[k].code = "ok" =>
            results'[k].ver = snap.targets[k].ver /\ node'[k] = snap.targets[k].ver
  BY <1>3, <1>5 DEF ResultOf, NoStatus, Applied, SnapKeys
<1>7. pc = "apply" /\ pc' # "apply"
  BY DEF Apply
<1>8. UNCHANGED <<targets, invalid, complete, snap, down, want, since, last, session, known, up>>
  BY DEF Apply, unitVars, passUnchanged, cloudVars
<1> QED BY <1>4, <1>6, <1>7, <1>8

\* What TakeSnapshot copies.
LEMMA SnapshotFacts ==
    ASSUME TypeOK, TakeSnapshot, NEW k \in Key
    PROVE  /\ complete
           /\ snap'.targets[k] = targets[k] /\ snap'.invalid[k] = invalid[k]
           /\ k \in SnapKeys' <=> Named(k)
           /\ UNCHANGED <<targets, invalid, complete, down, want, since, last, node, session,
                          known, up, results>>
<1>1. snap' = [targets |-> targets, invalid |-> invalid] /\ complete
  BY DEF TakeSnapshot
<1>2. UNCHANGED <<targets, invalid, complete, down, want, since, last, node, session,
                 known, up, results>>
  BY DEF TakeSnapshot, unitVars, passUnchanged, cloudVars
<1> QED BY <1>1, <1>2 DEF SnapKeys, Named

\* A lost connection takes with it what was in flight.
LEMMA BreakFacts ==
    ASSUME Break
    PROVE  /\ DOMAIN down' = {} /\ DOMAIN up' = {} /\ session' \notin {"active", "ready"}
           /\ UNCHANGED <<targets, invalid, complete, snap, want, since, last, node, pc,
                          known, results>>
<1>1. down' = <<>> /\ up' = <<>> /\ session' = "broken"
  BY DEF Break
<1>2. DOMAIN down' = {} /\ DOMAIN up' = {}
  BY <1>1
<1>3. UNCHANGED <<targets, invalid, complete, snap, want, since, last, node, pc, known, results>>
  BY DEF Break, unitVars, passVars, cloudVars
<1> QED BY <1>1, <1>2, <1>3

\* A restart forgets all but what the node has in place.
LEMMA CrashFacts ==
    ASSUME Crash, NEW k \in Key
    PROVE  /\ DOMAIN down' = {} /\ DOMAIN up' = {} /\ session' = "down" /\ pc' = "wait"
           /\ targets'[k] = None /\ snap'.targets[k] = None
           /\ invalid'[k] = 0 /\ snap'.invalid[k] = 0
           /\ ~complete' /\ results'[k] = NoStatus
           /\ UNCHANGED <<want, since, last, node, known>>
<1>1. down' = <<>> /\ up' = <<>> /\ session' = "down" /\ pc' = "wait" /\ ~complete'
  BY DEF Crash
<1>2. DOMAIN down' = {} /\ DOMAIN up' = {}
  BY <1>1
<1>3. /\ targets'[k] = None /\ snap'.targets[k] = None /\ invalid'[k] = 0 /\ snap'.invalid[k] = 0
      /\ results'[k] = NoStatus
  BY DEF Crash, NoTargets, NothingYet
<1>4. UNCHANGED <<want, since, last, node, known>>
  BY DEF Crash, cloudVars
<1> QED BY <1>1, <1>2, <1>3, <1>4

\* No step brings in a version Cloud has not used.
LEMMA StepBounded ==
    ASSUME TypeOK, WireOK, TypeOK', WireOK', [Next]_vars, NEW k \in Key, Bounded(k)
    PROVE  Bounded(k)'
<1> USE DEF Bounded
<1>0. /\ last[k] \in Nat /\ since[k] \in Nat /\ node[k] \in Nat
      /\ targets[k].ver \in Nat /\ snap.targets[k].ver \in Nat
      /\ \A i \in DOMAIN down : IsPut(i, k) => down[i].target.ver \in Nat
      /\ None.ver = 0
  BY Numbers DEF None
<1>1. ASSUME NEW h \in Key, NEW t \in Target, Put(h, t) PROVE Bounded(k)'
  BY <1>0, <1>1, PutFacts DEF IsPut
<1>2. ASSUME NEW ks \in SUBSET Key, Keys(ks) PROVE Bounded(k)'
  BY <1>0, <1>2, KeysFacts DEF IsPut
<1>3. CASE TakeSnapshot
  BY <1>3, SnapshotFacts DEF IsPut
<1>4. CASE Apply
  BY <1>0, <1>4, ApplyFacts DEF IsPut
<1>5. CASE Connect
  BY <1>0, <1>5, ConnectFacts
<1>6. CASE Break
  BY <1>6, BreakFacts
<1>7. CASE Crash
  BY <1>0, <1>7, CrashFacts
<1>8. ASSUME NEW h \in Key, NEW kind \in Kind, CloudPut(h, kind) PROVE Bounded(k)'
  <2>1. ASSUME NEW i \in DOMAIN down', IsPut(i, k)' PROVE down'[i].target.ver <= last'[k]
    <3>1. CASE i \in DOMAIN down
      <4>1. down'[i] = down[i] /\ last'[k] \in {last[k], last[k] + 1}
        BY <1>8, <3>1, CloudPutFacts
      <4>2. IsPut(i, k)
        BY <2>1, <4>1 DEF IsPut
      <4> QED BY <1>0, <3>1, <4>1, <4>2
    <3>2. CASE i \notin DOMAIN down
      <4>1. k = h /\ down'[i].target.ver = last[k] + 1 /\ last'[k] = last[k] + 1
        BY <1>8, <2>1, <3>2, CloudPutFacts
      <4> QED BY <1>0, <4>1
    <3> QED BY <3>1, <3>2
  <2>2. /\ last'[k] = IF k = h THEN last[k] + 1 ELSE last[k]
        /\ want'[k] = IF k = h THEN [ver |-> last[h] + 1, kind |-> kind] ELSE want[k]
        /\ since'[k] = IF k = h /\ want[k] = None THEN last[k] + 1 ELSE since[k]
        /\ UNCHANGED <<targets, snap, node>>
    BY <1>8, CloudPutFacts
  <2> QED BY <1>0, <2>1, <2>2
<1>9. ASSUME NEW h \in Key, CloudRetire(h) PROVE Bounded(k)'
  BY <1>0, <1>9, CloudRetireFacts DEF IsPut
<1>10. CASE Quiet
  BY <1>10 DEF Quiet, IsPut
<1> QED BY <1>1, <1>2, <1>3, <1>4, <1>5, <1>6, <1>7, <1>8, <1>9, <1>10, Steps

\* No step lets an older target of a key overtake a newer one.
LEMMA StepOrdered ==
    ASSUME TypeOK, WireOK, TypeOK', WireOK', [Next]_vars, NEW k \in Key, Bounded(k), Ordered(k)
    PROVE  Ordered(k)'
<1> USE DEF Ordered
<1>0. /\ last[k] \in Nat /\ targets[k].ver \in Nat /\ snap.targets[k].ver \in Nat
      /\ \A i \in DOMAIN down : i \in Nat \ {0}
      /\ \A i \in DOMAIN down : IsPut(i, k) => down[i].target.ver \in Nat
      /\ \A i \in DOMAIN down' : i \in Nat \ {0}
      /\ None.ver = 0
  <2>1. \A i \in DOMAIN down' : i \in Nat \ {0}
    BY DEF WireOK
  <2> QED BY <2>1, Numbers DEF None
<1>1. ASSUME NEW h \in Key, NEW t \in Target, Put(h, t) PROVE Ordered(k)'
  BY <1>0, <1>1, PutFacts DEF IsPut
<1>2. ASSUME NEW ks \in SUBSET Key, Keys(ks) PROVE Ordered(k)'
  BY <1>0, <1>2, KeysFacts DEF IsPut
<1>3. CASE TakeSnapshot
  BY <1>0, <1>3, SnapshotFacts DEF IsPut
<1>4. CASE Apply
  BY <1>4, ApplyFacts DEF IsPut
<1>5. CASE Connect
  BY <1>0, <1>5, ConnectFacts DEF Bounded
<1>6. CASE Break
  BY <1>6, BreakFacts
<1>7. CASE Crash
  BY <1>0, <1>7, CrashFacts
<1>8. ASSUME NEW h \in Key, NEW kind \in Kind, CloudPut(h, kind) PROVE Ordered(k)'
  <2>1. UNCHANGED <<targets, snap>>
    BY <1>8, CloudPutFacts
  <2>2. \A i \in DOMAIN down : down'[i] = down[i] /\ (IsPut(i, k)' <=> IsPut(i, k))
    BY <1>8, CloudPutFacts DEF IsPut
  <2>3. \A i \in DOMAIN down' : i \notin DOMAIN down /\ IsPut(i, k)' =>
           down'[i].target.ver = last[k] + 1 /\ \A j \in DOMAIN down : j < i
    BY <1>8, CloudPutFacts
  <2>4. \A i, j \in DOMAIN down' : i \notin DOMAIN down /\ j \notin DOMAIN down =>
           (IsPut(i, k)' /\ IsPut(j, k)' => i = j)
    BY <1>8, CloudPutFacts
  <2>5. \A i \in DOMAIN down' : IsPut(i, k)' =>
           snap.targets[k].ver <= down'[i].target.ver /\ targets[k].ver <= down'[i].target.ver
    BY <1>0, <2>2, <2>3 DEF Bounded
  <2>6. ASSUME NEW i \in DOMAIN down', NEW j \in DOMAIN down', IsPut(i, k)', IsPut(j, k)', i < j
        PROVE  down'[i].target.ver <= down'[j].target.ver
    BY <1>0, <2>2, <2>3, <2>4, <2>6 DEF Bounded
  <2> QED BY <2>1, <2>5, <2>6
<1>9. ASSUME NEW h \in Key, CloudRetire(h) PROVE Ordered(k)'
  BY <1>0, <1>9, CloudRetireFacts DEF IsPut
<1>10. CASE Quiet
  BY <1>10 DEF Quiet, IsPut
<1> QED BY <1>1, <1>2, <1>3, <1>4, <1>5, <1>6, <1>7, <1>8, <1>9, <1>10, Steps

\* No step makes a list without a named key younger than the naming.
LEMMA StepListOlder ==
    ASSUME TypeOK, WireOK, TypeOK', WireOK', [Next]_vars, NEW k \in Key,
           Bounded(k), ListOlder(k), ListComplete(k)
    PROVE  ListOlder(k)'
<1>0. /\ last[k] \in Nat /\ since[k] \in Nat /\ node[k] \in Nat
      /\ targets[k].ver \in Nat /\ snap.targets[k].ver \in Nat
      /\ \A i \in DOMAIN down : i \in Nat \ {0} /\ \A j \in 1..(i - 1) : j \in DOMAIN down
      /\ \A i \in DOMAIN down : IsPut(i, k) => down[i].target.ver \in Nat \ {0}
      /\ \A i \in DOMAIN down' : i \in Nat \ {0} /\ \A j \in 1..(i - 1) : j \in DOMAIN down'
      /\ None.ver = 0
  <2>1. \A i \in DOMAIN down' : i \in Nat \ {0} /\ \A j \in 1..(i - 1) : j \in DOMAIN down'
    BY DEF WireOK
  <2> QED BY <2>1, Numbers DEF None
<1>1. ASSUME NEW h \in Key, NEW t \in Target, Put(h, t) PROVE ListOlder(k)'
  <2> SUFFICES ASSUME want[k] # None PROVE ListOlder(k)'
    BY <1>1, PutFacts DEF ListOlder
  <2>1. ASSUME NEW i \in DOMAIN down', IsList(i)', k \notin down'[i].keys
        PROVE  /\ Unseen(k)'
               /\ \A j \in 1..(i - 1) : IsPut(j, k)' => down'[j].target.ver < since'[k]
    <3>1. i + 1 \in DOMAIN down /\ IsList(i + 1) /\ k \notin down[i + 1].keys
      BY <1>1, <2>1, PutFacts DEF IsList
    <3>2. Unseen(k) /\ \A j \in 1..i : IsPut(j, k) => down[j].target.ver < since[k]
      BY <1>0, <3>1 DEF ListOlder
    <3>3. 1 \in 1..i
      BY <1>0
    <3>4. k = h => t.ver < since[k]
      BY <1>1, <3>2, <3>3, PutFacts
    <3>5. Unseen(k)'
      BY <1>0, <1>1, <3>2, <3>4, PutFacts DEF Unseen
    <3>6. ASSUME NEW j \in 1..(i - 1), IsPut(j, k)' PROVE down'[j].target.ver < since'[k]
      <4>1. j \in DOMAIN down' /\ j + 1 \in 1..i
        BY <1>0
      <4>2. down'[j] = down[j + 1] /\ since' = since
        BY <1>1, <4>1, PutFacts
      <4> QED BY <3>2, <3>6, <4>1, <4>2 DEF IsPut
    <3> QED BY <3>5, <3>6
  <2>2. ASSUME complete', ~Named(k)' PROVE Unseen(k)'
    <3>1. complete /\ k # h /\ ~Named(k)
      <4>1. complete /\ targets'[k] = None /\ invalid'[k] = 0
        BY <1>1, <2>2, PutFacts DEF Named
      <4>2. t # None /\ t.ver # 0
        BY VersionPositive DEF Target, None
      <4> QED BY <1>1, <4>1, <4>2, PutFacts DEF Named
    <3> QED BY <1>1, <3>1, PutFacts DEF ListOlder, Unseen
  <2>3. (pc = "apply" /\ k \notin SnapKeys => node[k] < since[k])'
    BY <1>1, PutFacts DEF ListOlder, SnapKeys
  <2> QED BY <2>1, <2>2, <2>3 DEF ListOlder
<1>2. ASSUME NEW ks \in SUBSET Key, Keys(ks) PROVE ListOlder(k)'
  <2> SUFFICES ASSUME want[k] # None PROVE ListOlder(k)'
    BY <1>2, KeysFacts DEF ListOlder
  <2>1. ASSUME Unseen(k) PROVE Unseen(k)'
    BY <1>0, <1>2, <2>1, KeysFacts DEF Unseen
  <2>2. ASSUME NEW i \in DOMAIN down', IsList(i)', k \notin down'[i].keys
        PROVE  /\ Unseen(k)'
               /\ \A j \in 1..(i - 1) : IsPut(j, k)' => down'[j].target.ver < since'[k]
    <3>1. i + 1 \in DOMAIN down /\ IsList(i + 1) /\ k \notin down[i + 1].keys
      BY <1>2, <2>2, KeysFacts DEF IsList
    <3>2. Unseen(k) /\ \A j \in 1..i : IsPut(j, k) => down[j].target.ver < since[k]
      BY <1>0, <3>1 DEF ListOlder
    <3>3. ASSUME NEW j \in 1..(i - 1), IsPut(j, k)' PROVE down'[j].target.ver < since'[k]
      <4>1. j \in DOMAIN down' /\ j + 1 \in 1..i
        BY <1>0
      <4>2. down'[j] = down[j + 1] /\ since' = since
        BY <1>2, <4>1, KeysFacts
      <4> QED BY <3>2, <3>3, <4>1, <4>2 DEF IsPut
    <3> QED BY <2>1, <3>2, <3>3
  <2>3. ASSUME ~Named(k)' PROVE Unseen(k)'
    <3>1. CASE k \notin ks
      BY <1>2, <2>1, <3>1, KeysFacts DEF ListOlder
    <3>2. CASE k \in ks
      <4>1. ~Named(k)
        BY <1>2, <2>3, <3>2, KeysFacts DEF Named
      <4>2. CASE complete
        BY <2>1, <4>1, <4>2 DEF ListOlder
      <4>3. CASE ~complete
        <5>1. 1 \in DOMAIN down /\ IsList(1) /\ k \in down[1].keys
          BY <1>2, <3>2, KeysFacts
        <5>2. 1..(1 - 1) = {}
          OBVIOUS
        <5> QED BY <4>1, <4>3, <5>1, <5>2 DEF ListComplete
      <4> QED BY <4>2, <4>3
    <3> QED BY <3>1, <3>2
  <2>4. (pc = "apply" /\ k \notin SnapKeys => node[k] < since[k])'
    BY <1>2, KeysFacts DEF ListOlder, SnapKeys
  <2> QED BY <2>2, <2>3, <2>4 DEF ListOlder
<1>3. CASE TakeSnapshot
  <2>1. ASSUME Unseen(k) PROVE Unseen(k)'
    BY <1>3, <2>1, SnapshotFacts DEF Unseen
  <2>2. want[k] # None /\ k \notin SnapKeys' => node'[k] < since'[k]
    BY <1>3, SnapshotFacts DEF ListOlder, Unseen
  <2> QED BY <1>3, <2>1, <2>2, SnapshotFacts DEF ListOlder, IsList, IsPut, Named
<1>4. CASE Apply
  <2>1. ASSUME Unseen(k) PROVE Unseen(k)'
    BY <1>0, <1>4, <2>1, ApplyFacts DEF Unseen
  <2> QED BY <1>4, <2>1, ApplyFacts DEF ListOlder, IsList, IsPut, Named
<1>5. CASE Connect
  <2> SUFFICES ASSUME want[k] # None PROVE ListOlder(k)'
    BY <1>5, ConnectFacts DEF ListOlder
  <2>1. \A i \in DOMAIN down' : IsList(i)' => k \in down'[i].keys
    BY <1>5, ConnectFacts DEF CloudNamed
  <2> QED BY <1>5, <2>1, ConnectFacts DEF ListOlder, Unseen, Named, SnapKeys
<1>6. CASE Break
  BY <1>6, BreakFacts DEF ListOlder, Unseen, Named, SnapKeys
<1>7. CASE Crash
  BY <1>7, CrashFacts DEF ListOlder
<1>8. ASSUME NEW h \in Key, NEW kind \in Kind, CloudPut(h, kind) PROVE ListOlder(k)'
  <2>0. /\ \A i \in DOMAIN down : down'[i] = down[i]
        /\ \A i \in DOMAIN down' : i \notin DOMAIN down /\ IsList(i)'
              => down'[i].keys = CloudNamed \cup {h}
        /\ k # h => want'[k] = want[k]
        /\ since'[k] = IF k = h /\ want[k] = None THEN last[k] + 1 ELSE since[k]
        /\ UNCHANGED <<targets, invalid, complete, snap, node, pc>>
    <3>1. \A i \in DOMAIN down : down'[i] = down[i]
      BY <1>8, CloudPutFacts
    <3>2. \A i \in DOMAIN down' : i \notin DOMAIN down /\ IsList(i)'
            => down'[i].keys = CloudNamed \cup {h}
      BY <1>8, CloudPutFacts
    <3>3. k # h => want'[k] = want[k]
      BY <1>8, CloudPutFacts
    <3>4. since'[k] = IF k = h /\ want[k] = None THEN last[k] + 1 ELSE since[k]
      <4>1. k = h /\ want[k] = None => since'[k] = last[k] + 1
        BY <1>8, CloudPutFacts
      <4>2. ~(k = h /\ want[k] = None) => since'[k] = since[k]
        BY <1>8, CloudPutFacts
      <4> QED BY <4>1, <4>2
    <3>5. UNCHANGED <<targets, invalid, complete, snap, node, pc>>
      BY <1>8, CloudPutFacts
    <3> QED BY <3>1, <3>2, <3>3, <3>4, <3>5
  <2>1. CASE k = h /\ want[k] = None
    <3>1. since'[k] = last[k] + 1
      BY <2>0, <2>1
    <3>2. Unseen(k)'
      BY <1>0, <2>0, <3>1 DEF Unseen, Bounded
    <3>3. \A i \in DOMAIN down : down'[i] = down[i]
      BY <2>0
    <3>4. \A i \in DOMAIN down : IsPut(i, k)' => down'[i].target.ver < since'[k]
      BY <1>0, <3>1, <3>3 DEF Bounded, IsPut
    <3>5. ASSUME NEW i \in DOMAIN down', IsList(i)', k \notin down'[i].keys
          PROVE  \A j \in 1..(i - 1) : j \in DOMAIN down
      <4>1. i \in DOMAIN down
        BY <2>0, <2>1, <3>5
      <4> QED BY <1>0, <4>1
    <3> QED BY <3>2, <3>4, <3>5 DEF ListOlder, Unseen
  <2>2. CASE ~(k = h /\ want[k] = None)
    <3> SUFFICES ASSUME want[k] # None PROVE ListOlder(k)'
      BY <2>0, <2>2 DEF ListOlder
    <3>1. since'[k] = since[k] /\ UNCHANGED <<targets, invalid, complete, snap, node, pc>>
      BY <2>0, <2>2
    <3>2. \A i \in DOMAIN down : down'[i] = down[i] /\ (IsPut(i, k)' <=> IsPut(i, k))
      BY <2>0 DEF IsPut
    <3>3. ASSUME NEW i \in DOMAIN down', IsList(i)', k \notin down'[i].keys
          PROVE  i \in DOMAIN down /\ IsList(i) /\ k \notin down[i].keys
      <4>1. k \in CloudNamed
        BY DEF CloudNamed
      <4>2. i \in DOMAIN down
        BY <2>0, <3>3, <4>1
      <4> QED BY <3>2, <3>3, <4>2 DEF IsList
    <3>4. ASSUME NEW i \in DOMAIN down', IsList(i)', k \notin down'[i].keys
          PROVE  /\ Unseen(k)'
                 /\ \A j \in 1..(i - 1) : IsPut(j, k)' => down'[j].target.ver < since'[k]
      <4>1. Unseen(k) /\ \A j \in 1..(i - 1) : IsPut(j, k) => down[j].target.ver < since[k]
        BY <3>3, <3>4 DEF ListOlder
      <4>2. \A j \in 1..(i - 1) : j \in DOMAIN down
        BY <1>0, <3>3, <3>4
      <4> QED BY <3>1, <3>2, <4>1, <4>2 DEF Unseen
    <3> QED BY <3>1, <3>4 DEF ListOlder, Unseen, Named, SnapKeys
  <2> QED BY <2>1, <2>2
<1>9. ASSUME NEW h \in Key, CloudRetire(h) PROVE ListOlder(k)'
  <2> SUFFICES ASSUME want[k] # None, k # h PROVE ListOlder(k)'
    BY <1>9, CloudRetireFacts DEF ListOlder
  <2>1. UNCHANGED <<since, targets, invalid, complete, snap, node, pc>>
    BY <1>9, CloudRetireFacts
  <2>2. \A i \in DOMAIN down : down'[i] = down[i] /\ (IsPut(i, k)' <=> IsPut(i, k))
    BY <1>9, CloudRetireFacts DEF IsPut
  <2>3. ASSUME NEW i \in DOMAIN down', IsList(i)', k \notin down'[i].keys
        PROVE  i \in DOMAIN down /\ IsList(i) /\ k \notin down[i].keys
    <3>1. k \in CloudNamed \ {h}
      BY DEF CloudNamed
    <3>2. i \in DOMAIN down
      BY <1>9, <2>3, <3>1, CloudRetireFacts
    <3> QED BY <2>2, <2>3, <3>2 DEF IsList
  <2>4. ASSUME NEW i \in DOMAIN down', IsList(i)', k \notin down'[i].keys
        PROVE  /\ Unseen(k)'
               /\ \A j \in 1..(i - 1) : IsPut(j, k)' => down'[j].target.ver < since'[k]
    <3>1. Unseen(k) /\ \A j \in 1..(i - 1) : IsPut(j, k) => down[j].target.ver < since[k]
      BY <2>3, <2>4 DEF ListOlder
    <3>2. \A j \in 1..(i - 1) : j \in DOMAIN down
      BY <1>0, <2>3, <2>4
    <3> QED BY <2>1, <2>2, <3>1, <3>2 DEF Unseen
  <2> QED BY <2>1, <2>4 DEF ListOlder, Unseen, Named, SnapKeys
<1>10. CASE Quiet
  BY <1>10 DEF Quiet, ListOlder, Unseen, Named, SnapKeys, IsList, IsPut
<1> QED BY <1>1, <1>2, <1>3, <1>4, <1>5, <1>6, <1>7, <1>8, <1>9, <1>10, Steps

\* No step lets the first list of a process arrive ahead of the targets it names.
LEMMA StepListComplete ==
    ASSUME TypeOK, WireOK, TypeOK', WireOK', [Next]_vars, NEW k \in Key, ListComplete(k)
    PROVE  ListComplete(k)'
<1>0. /\ \A i \in DOMAIN down : i \in Nat \ {0} /\ \A j \in 1..(i - 1) : j \in DOMAIN down
      /\ \A i \in DOMAIN down' : i \in Nat \ {0} /\ \A j \in 1..(i - 1) : j \in DOMAIN down'
  <2>1. \A i \in DOMAIN down' : i \in Nat \ {0} /\ \A j \in 1..(i - 1) : j \in DOMAIN down'
    BY DEF WireOK
  <2> QED BY <2>1, Numbers
<1>1. ASSUME NEW h \in Key, NEW t \in Target, Put(h, t) PROVE ListComplete(k)'
  <2> SUFFICES ASSUME ~complete PROVE ListComplete(k)'
    BY <1>1, PutFacts DEF ListComplete
  <2>1. /\ session = "ready" /\ session' = "ready"
        /\ 1 \in DOMAIN down /\ IsPut(1, h) /\ ~IsList(1)
        /\ \A i \in DOMAIN down' : i \in Nat \ {0} /\ i + 1 \in DOMAIN down /\ down'[i] = down[i + 1]
    BY <1>1, PutFacts
  <2>2. \E i \in DOMAIN down' : IsList(i)'
    <3>1. PICK i \in DOMAIN down : IsList(i)
      BY <2>1 DEF ListComplete
    <3>2. i \in Nat /\ i > 1
      BY <1>0, <2>1, <3>1
    <3>3. down' = Tail(down) /\ down # <<>>
      BY <1>1 DEF Put, Receive
    <3>4. i - 1 \in DOMAIN down' /\ (i - 1) + 1 = i
      <4>1. Len(Tail(down)) = Len(down) - 1 /\ Tail(down) \in Seq(Message)
        BY <3>3, HeadTailProperties DEF WireOK
      <4>2. i <= Len(down) /\ Len(down) \in Nat
        BY <3>1 DEF WireOK
      <4> QED BY <3>2, <3>3, <4>1, <4>2
    <3>5. down'[i - 1] = down[i]
      BY <2>1, <3>4
    <3> QED BY <3>1, <3>4, <3>5 DEF IsList
  <2>3. Named(k) \/ k = h => Named(k)'
    <3>1. t # None /\ t.ver # 0
      BY VersionPositive DEF Target, None
    <3>2. /\ targets'[k] = IF k = h /\ t.kind # "bad" THEN t ELSE targets[k]
          /\ invalid'[k] = IF k = h THEN IF t.kind # "bad" THEN 0 ELSE t.ver ELSE invalid[k]
      BY <1>1, PutFacts
    <3> QED BY <3>1, <3>2 DEF Named
  <2>4. ASSUME NEW i \in DOMAIN down', IsList(i)', k \in down'[i].keys,
               \A j \in 1..(i - 1) : ~IsList(j)'
        PROVE  Named(k)' \/ \E j \in 1..(i - 1) : IsPut(j, k)'
    <3>1. i + 1 \in DOMAIN down /\ IsList(i + 1) /\ k \in down[i + 1].keys
      BY <2>1, <2>4 DEF IsList
    <3>2. \A j \in 1..i : j = 1 \/ (j - 1 \in 1..(i - 1) /\ j - 1 \in DOMAIN down' /\ down'[j - 1] = down[j])
      BY <1>0, <2>1
    <3>3. \A j \in 1..i : ~IsList(j)
      BY <2>1, <2>4, <3>2 DEF IsList
    <3>4. (i + 1) - 1 = i
      BY <1>0
    <3>5. Named(k) \/ \E j \in 1..i : IsPut(j, k)
      BY <3>1, <3>3, <3>4 DEF ListComplete
    <3>6. ASSUME NEW j \in 1..i, IsPut(j, k) PROVE k = h \/ \E l \in 1..(i - 1) : IsPut(l, k)'
      <4>1. CASE j = 1
        BY <2>1, <3>6, <4>1 DEF IsPut
      <4>2. CASE j # 1
        BY <3>2, <3>6, <4>2 DEF IsPut
      <4> QED BY <4>1, <4>2
    <3> QED BY <2>3, <3>5, <3>6
  <2> QED BY <2>2, <2>4 DEF ListComplete
<1>2. ASSUME NEW ks \in SUBSET Key, Keys(ks) PROVE ListComplete(k)'
  BY <1>2, KeysFacts DEF ListComplete
<1>3. CASE TakeSnapshot
  BY <1>3, SnapshotFacts DEF ListComplete, IsList, IsPut, Named
<1>4. CASE Apply
  BY <1>4, ApplyFacts DEF ListComplete, IsList, IsPut, Named
<1>5. CASE Connect
  <2>1. PICK n \in DOMAIN down' :
          /\ n \in Nat \ {0}
          /\ IsList(n)'
          /\ \A j \in DOMAIN down' : j # n => ~IsList(j)'
          /\ want[k] # None => \E j \in 1..(n - 1) : IsPut(j, k)'
    BY <1>5, ConnectFacts
  <2>2. \A i \in DOMAIN down' : IsList(i)' /\ k \in down'[i].keys => i = n /\ want[k] # None
    BY <1>5, <2>1, ConnectFacts DEF CloudNamed
  <2> QED BY <2>1, <2>2 DEF ListComplete
<1>6. CASE Break
  BY <1>6, BreakFacts DEF ListComplete
<1>7. CASE Crash
  BY <1>7, CrashFacts DEF ListComplete
<1>8. ASSUME NEW h \in Key,
             CloudRetire(h) \/ \E kind \in Kind : CloudPut(h, kind)
      PROVE  ListComplete(k)'
  <2>1. /\ \A i \in DOMAIN down : i \in DOMAIN down' /\ down'[i] = down[i]
        /\ \A i \in DOMAIN down' : i \notin DOMAIN down =>
              session \in {"active", "ready"} /\ \A j \in DOMAIN down : j < i
        /\ UNCHANGED <<targets, invalid, complete, session>>
    <3>1. CASE CloudRetire(h)
      BY <3>1, CloudRetireFacts
    <3>2. ASSUME NEW kind \in Kind, CloudPut(h, kind) PROVE <2>1!:
      BY <3>2, CloudPutFacts
    <3> QED BY <1>8, <3>1, <3>2
  <2>2. \A i \in DOMAIN down : (IsList(i)' <=> IsList(i)) /\ (IsPut(i, k)' <=> IsPut(i, k))
    BY <2>1 DEF IsList, IsPut
  <2> SUFFICES ASSUME ~complete PROVE ListComplete(k)'
    BY <2>1 DEF ListComplete
  <2>3. session' \in {"active", "ready"} => \E i \in DOMAIN down' : IsList(i)'
    BY <2>1, <2>2 DEF ListComplete
  <2>4. ASSUME NEW i \in DOMAIN down', IsList(i)', k \in down'[i].keys,
               \A j \in 1..(i - 1) : ~IsList(j)'
        PROVE  Named(k)' \/ \E j \in 1..(i - 1) : IsPut(j, k)'
    <3>1. i \in DOMAIN down
      <4> SUFFICES ASSUME i \notin DOMAIN down PROVE FALSE
        OBVIOUS
      <4>1. PICK n \in DOMAIN down : IsList(n)
        BY <2>1 DEF ListComplete
      <4>2. n \in 1..(i - 1)
        BY <1>0, <2>1
      <4> QED BY <2>2, <2>4, <4>1, <4>2
    <3>2. \A j \in 1..(i - 1) : j \in DOMAIN down
      BY <1>0, <3>1
    <3>3. Named(k) \/ \E j \in 1..(i - 1) : IsPut(j, k)
      BY <2>1, <2>2, <2>4, <3>1, <3>2 DEF ListComplete
    <3> QED BY <2>1, <2>2, <3>2, <3>3 DEF Named
  <2> QED BY <2>3, <2>4 DEF ListComplete
<1>9. CASE Quiet
  BY <1>9 DEF Quiet, ListComplete, Named, IsList, IsPut
<1> QED BY <1>1, <1>2, <1>3, <1>4, <1>5, <1>6, <1>7, <1>8, <1>9, Steps

\* Every step keeps RemoveInv.
LEMMA StepRemove == TypeOK /\ WireOK /\ RemoveInv /\ [Next]_vars => RemoveInv'
<1> SUFFICES ASSUME TypeOK, WireOK, RemoveInv, [Next]_vars
             PROVE  RemoveInv'
  OBVIOUS
<1>1. TypeOK' /\ WireOK'
  BY StepType
<1>2. ASSUME NEW k \in Key
      PROVE  Bounded(k)' /\ Ordered(k)' /\ ListOlder(k)' /\ ListComplete(k)'
  <2>1. Bounded(k) /\ Ordered(k) /\ ListOlder(k) /\ ListComplete(k)
    BY DEF RemoveInv
  <2> QED BY <1>1, <2>1, StepBounded, StepOrdered, StepListOlder, StepListComplete
<1> QED BY <1>2 DEF RemoveInv

\* RemoveInv holds at the start.
LEMMA InitRemove == Init => RemoveInv
<1> SUFFICES ASSUME Init, NEW k \in Key
             PROVE  Bounded(k) /\ Ordered(k) /\ ListOlder(k) /\ ListComplete(k)
  BY DEF RemoveInv
<1>1. DOMAIN down = {} /\ None.ver = 0 /\ session = "down" /\ want[k] = None
  BY DEF Init, None, NoTargets
<1>2. /\ last[k] = 0 /\ since[k] = 0 /\ node[k] = 0 /\ targets[k] = None
      /\ snap.targets[k] = None
  BY DEF Init, NoTargets
<1> QED BY <1>1, <1>2 DEF Bounded, Ordered, ListOlder, ListComplete

\* A step removes nothing that a key Cloud still names owns.
LEMMA StepRemoves ==
    ASSUME TypeOK, WireOK, RemoveInv, [Next]_vars, NEW k \in Key, node[k] # 0, node'[k] = 0
    PROVE  want[k] = None \/ node[k] < since[k]
<1>1. Bounded(k) /\ ListOlder(k)
  BY DEF RemoveInv
<1>2. CASE Apply
  BY <1>1, <1>2, ApplyFacts DEF ListOlder
<1>3. CASE ~Apply
  <2>1. node' = node
    <3>1. ASSUME NEW h \in Key, NEW t \in Target, Put(h, t) PROVE node' = node
      BY <3>1 DEF Put
    <3>2. ASSUME NEW ks \in SUBSET Key, Keys(ks) PROVE node' = node
      BY <3>2 DEF Keys
    <3>3. ASSUME NEW h \in Key, CloudRetire(h) \/ \E kind \in Kind : CloudPut(h, kind)
          PROVE  node' = node
      BY <3>3 DEF CloudRetire, CloudPut
    <3>4. TakeSnapshot \/ Connect \/ Break \/ Crash \/ Quiet => node' = node
      BY DEF TakeSnapshot, Connect, Break, Crash, Quiet
    <3> QED BY <1>3, <3>1, <3>2, <3>3, <3>4, Steps
  <2> QED BY <2>1
<1> QED BY <1>2, <1>3

\* A pass removes only what belongs to a key Cloud no longer names or to an earlier
\* life of it, whatever is still in flight, whatever was lost and however often the
\* process restarted: RemovesOnlyRetired.
THEOREM OnlyRetiredIsRemoved == Spec => RemovesOnlyRetired
<1>1. Spec => [](TypeOK /\ WireOK)
  BY TypeCorrect
<1>2. Spec => []RemoveInv
  BY <1>1, InitRemove, StepRemove, PTL DEF Spec
<1>3. TypeOK /\ WireOK /\ RemoveInv /\ [Next]_vars
        => [\A k \in Key : node[k] # 0 /\ node'[k] = 0 => want[k] = None \/ node[k] < since[k]]_vars
  BY StepRemoves
<1> QED BY <1>1, <1>2, <1>3, PTL DEF Spec, RemovesOnlyRetired

-----------------------------------------------------------------------------
(* What is left of a retired key. *)

\* No status in the making, on its way or recorded is of a version Cloud has not used.
LEMMA StepReported ==
    ASSUME TypeOK, WireOK, [Next]_vars, NEW k \in Key, Bounded(k), Reported(k)
    PROVE  Reported(k)'
<1> USE DEF Reported
<1>0. /\ last[k] \in Nat /\ snap.targets[k].ver \in Nat
      /\ invalid[k] \in Nat /\ snap.invalid[k] \in Nat
      /\ results[k].ver \in Nat /\ known[k].ver \in Nat
      /\ NoStatus.ver = 0
  BY Numbers DEF NoStatus
<1>1. ASSUME NEW h \in Key, NEW t \in Target, Put(h, t) PROVE Reported(k)'
  BY <1>0, <1>1, PutFacts DEF Bounded
<1>2. ASSUME NEW ks \in SUBSET Key, Keys(ks) PROVE Reported(k)'
  BY <1>0, <1>2, KeysFacts
<1>3. CASE TakeSnapshot
  BY <1>3, SnapshotFacts
<1>4. CASE Apply
  BY <1>0, <1>4, ApplyFacts DEF Bounded
<1>5. CASE Connect
  BY <1>5, ConnectFacts
<1>6. CASE Break
  BY <1>6, BreakFacts
<1>7. CASE Crash
  BY <1>0, <1>7, CrashFacts
<1>8. ASSUME NEW h \in Key, NEW kind \in Kind, CloudPut(h, kind) PROVE Reported(k)'
  <2>1. /\ last'[k] = IF k = h THEN last[k] + 1 ELSE last[k]
        /\ known'[k] = IF k = h THEN NoStatus ELSE known[k]
        /\ UNCHANGED <<invalid, snap, results, up>>
    BY <1>8, CloudPutMind
  <2>2. \A i \in DOMAIN up : up[i].status.ver \in Nat
    BY VersionPositive DEF TypeOK, Status
  <2> QED BY <1>0, <2>1, <2>2
<1>9. ASSUME NEW h \in Key, CloudRetire(h) PROVE Reported(k)'
  BY <1>0, <1>9, CloudRetireFacts
<1>10. CASE Quiet
  <2>1. UNCHANGED <<invalid, snap, last>> /\ Relayed
    BY <1>10 DEF Quiet
  <2>2. results'[k].ver <= last[k]
    BY <1>0, <2>1 DEF Relayed
  <2>3. known'[k].ver <= last[k]
    BY <2>1 DEF Relayed
  <2>4. \A i \in DOMAIN up' : up'[i].key = k => up'[i].status.ver <= last[k]
    BY <2>1 DEF Relayed
  <2> QED BY <2>1, <2>2, <2>3, <2>4
<1> QED BY <1>1, <1>2, <1>3, <1>4, <1>5, <1>6, <1>7, <1>8, <1>9, <1>10, Steps

\* Where all that is left of a key is of the last version, it stays so, as long as
\* Cloud uses no newer one.
LEMMA StepOnlyLast ==
    ASSUME TypeOK, WireOK, [Next]_vars, NEW k \in Key, Bounded(k), OnlyLast(k), last'[k] = last[k]
    PROVE  OnlyLast(k)'
<1> USE DEF OnlyLast
<1>0. last[k] \in Nat /\ None.ver = 0
  BY Numbers DEF None
<1>1. ASSUME NEW h \in Key, NEW t \in Target, Put(h, t) PROVE OnlyLast(k)'
  BY <1>1, PutFacts DEF IsPut
<1>2. ASSUME NEW ks \in SUBSET Key, Keys(ks) PROVE OnlyLast(k)'
  BY <1>0, <1>2, KeysFacts DEF IsPut
<1>3. CASE TakeSnapshot
  BY <1>3, SnapshotFacts DEF IsPut
<1>4. CASE Apply
  BY <1>4, ApplyFacts DEF IsPut
<1>5. CASE Connect
  BY <1>5, ConnectFacts DEF Bounded
<1>6. CASE Break
  BY <1>6, BreakFacts
<1>7. CASE Crash
  BY <1>0, <1>7, CrashFacts
<1>8. ASSUME NEW h \in Key, NEW kind \in Kind, CloudPut(h, kind) PROVE OnlyLast(k)'
  <2>1. k # h
    <3>1. last'[k] = IF k = h THEN last[k] + 1 ELSE last[k]
      BY <1>8, CloudPutMind
    <3> QED BY <1>0, <3>1
  <2>2. UNCHANGED <<targets, snap, node>>
    BY <1>8, CloudPutFacts
  <2>3. \A i \in DOMAIN down' : IsPut(i, k)' => i \in DOMAIN down
    BY <1>8, <2>1, CloudPutFacts
  <2>4. \A i \in DOMAIN down : down'[i] = down[i]
    BY <1>8, CloudPutFacts
  <2> QED BY <2>2, <2>3, <2>4 DEF IsPut
<1>9. ASSUME NEW h \in Key, CloudRetire(h) PROVE OnlyLast(k)'
  BY <1>9, CloudRetireFacts DEF IsPut
<1>10. CASE Quiet
  BY <1>10 DEF Quiet, IsPut
<1> QED BY <1>1, <1>2, <1>3, <1>4, <1>5, <1>6, <1>7, <1>8, <1>9, <1>10, Steps

\* Every step keeps CleanInv: a confirmation is made by a pass that leaves the last
\* version in place, and only relayed from there.
LEMMA StepClean == TypeOK /\ WireOK /\ RemoveInv /\ CleanInv /\ [Next]_vars => CleanInv'
<1> SUFFICES ASSUME TypeOK, WireOK, RemoveInv, CleanInv, [Next]_vars
             PROVE  CleanInv'
  OBVIOUS
<1> SUFFICES ASSUME NEW k \in Key, want'[k] = None \/ Confirmed(k)'
             PROVE  OnlyLast(k)'
  <2>1. ASSUME NEW k \in Key PROVE Reported(k)'
    BY StepReported DEF RemoveInv, CleanInv
  <2> QED BY <2>1 DEF CleanInv
<1>0. Bounded(k) /\ Ordered(k) /\ Reported(k) /\ (want[k] = None \/ Confirmed(k) => OnlyLast(k))
  BY DEF RemoveInv, CleanInv
<1>1. ASSUME last'[k] = last[k], want[k] = None \/ Confirmed(k) PROVE OnlyLast(k)'
  BY <1>0, <1>1, StepOnlyLast
<1>2. /\ last[k] \in Nat /\ snap.targets[k].ver \in Nat /\ targets[k].ver \in Nat
      /\ (targets[k] = None <=> targets[k].ver = 0)
      /\ \A i \in DOMAIN down : IsPut(i, k) => down[i].target.ver \in Nat
      /\ NoStatus.code = "none"
  BY Numbers DEF NoStatus
<1>3. CASE want'[k] = want[k] /\ last'[k] = last[k] /\ (Confirmed(k)' => Confirmed(k))
  BY <1>1, <1>3
<1>4. ASSUME NEW h \in Key, NEW t \in Target, Put(h, t) PROVE OnlyLast(k)'
  BY <1>3, <1>4, PutFacts DEF Confirmed
<1>5. ASSUME NEW ks \in SUBSET Key, Keys(ks) PROVE OnlyLast(k)'
  BY <1>3, <1>5, KeysFacts DEF Confirmed
<1>6. CASE TakeSnapshot
  BY <1>3, <1>6, SnapshotFacts DEF Confirmed
<1>7. CASE Apply
  <2>1. UNCHANGED <<want, last, known, up, targets, snap, down>>
    BY <1>7, ApplyFacts
  <2>2. CASE results'[k] = [ver |-> last[k], code |-> "ok"]
    <3>1. last[k] = snap.targets[k].ver /\ node'[k] = last[k]
      BY <1>7, <2>2, ApplyFacts
    <3>2. targets[k].ver \in {0, last[k]}
      BY <1>0, <1>2, <3>1 DEF Bounded, Ordered
    <3>3. \A i \in DOMAIN down : IsPut(i, k) => down[i].target.ver = last[k]
      BY <1>0, <1>2, <3>1 DEF Bounded, Ordered
    <3> QED BY <2>1, <3>1, <3>2, <3>3 DEF OnlyLast, IsPut
  <2>3. CASE results'[k] # [ver |-> last[k], code |-> "ok"]
    BY <1>3, <2>1, <2>3 DEF Confirmed
  <2> QED BY <2>2, <2>3
<1>8. CASE Connect
  BY <1>3, <1>8, ConnectFacts DEF Confirmed
<1>9. CASE Break
  BY <1>3, <1>9, BreakFacts DEF Confirmed
<1>10. CASE Crash
  BY <1>2, <1>3, <1>10, CrashFacts DEF Confirmed
<1>11. ASSUME NEW h \in Key, NEW kind \in Kind, CloudPut(h, kind) PROVE OnlyLast(k)'
  <2>1. /\ last'[k] = IF k = h THEN last[k] + 1 ELSE last[k]
        /\ want'[k] = IF k = h THEN [ver |-> last[h] + 1, kind |-> kind] ELSE want[k]
        /\ known'[k] = IF k = h THEN NoStatus ELSE known[k]
        /\ UNCHANGED <<up, results>>
    BY <1>11, CloudPutMind
  <2>2. CASE k # h
    BY <1>3, <2>1, <2>2 DEF Confirmed
  <2>3. CASE k = h
    <3>1. want'[k] # None
      BY <1>2, <2>1, <2>3 DEF None
    <3>2. last'[k] = last[k] + 1 /\ known'[k] = NoStatus
      BY <2>1, <2>3
    <3>3. ~Confirmed(k)'
      BY <1>0, <1>2, <2>1, <3>2 DEF Confirmed, Reported
    <3> QED BY <3>1, <3>3
  <2> QED BY <2>2, <2>3
<1>12. ASSUME NEW h \in Key, CloudRetire(h) PROVE OnlyLast(k)'
  <2>1. /\ want'[k] = IF k = h THEN None ELSE want[k]
        /\ known'[k] = IF k = h THEN NoStatus ELSE known[k]
        /\ UNCHANGED <<up, results, last>>
    BY <1>12, CloudRetireFacts
  <2>2. CASE k # h
    BY <1>3, <2>1, <2>2 DEF Confirmed
  <2>3. CASE k = h
    <3>1. want[k] # None /\ known[k] = [ver |-> want[k].ver, code |-> "ok"]
      BY <1>12, <2>3 DEF CloudRetire, None
    <3>2. Confirmed(k)
      BY <1>0, <3>1 DEF Confirmed, Bounded
    <3> QED BY <1>1, <2>1, <3>2
  <2> QED BY <2>2, <2>3
<1>13. CASE Quiet
  <2>1. UNCHANGED <<want, last>> /\ Relayed
    BY <1>13 DEF Quiet
  <2>2. ASSUME Confirmed(k)' PROVE Confirmed(k)
    <3> DEFINE ok == [ver |-> last[k], code |-> "ok"]
    <3>1. ok # NoStatus
      BY <1>2
    <3>2. CASE results'[k] = ok
      BY <2>1, <3>1, <3>2 DEF Relayed, Confirmed
    <3>3. CASE known'[k] = ok
      BY <2>1, <3>3 DEF Relayed, Confirmed
    <3>4. ASSUME NEW i \in DOMAIN up', up'[i] = [key |-> k, status |-> ok] PROVE Confirmed(k)
      <4>1. CASE \E j \in DOMAIN up : up'[i] = up[j]
        BY <3>4, <4>1 DEF Confirmed
      <4>2. ASSUME NEW x \in Key, up'[i] = [key |-> x, status |-> results[x]]
            PROVE  Confirmed(k)
        <5>1. x = k /\ results[x] = ok
          BY <3>4, <4>2
        <5> QED BY <5>1 DEF Confirmed
      <4> QED BY <2>1, <4>1, <4>2 DEF Relayed
    <3> QED BY <2>1, <2>2, <3>2, <3>3, <3>4 DEF Confirmed
  <2> QED BY <1>3, <2>1, <2>2
<1> QED BY <1>4, <1>5, <1>6, <1>7, <1>8, <1>9, <1>10, <1>11, <1>12, <1>13, Steps

\* CleanInv holds at the start.
LEMMA InitClean == Init => CleanInv
<1> SUFFICES ASSUME Init, NEW k \in Key
             PROVE  Reported(k) /\ OnlyLast(k)
  BY DEF CleanInv
<1>1. DOMAIN down = {} /\ DOMAIN up = {} /\ None.ver = 0 /\ NoStatus.ver = 0
  BY DEF Init, None, NoStatus
<1>2. /\ last[k] = 0 /\ node[k] = 0 /\ targets[k] = None /\ snap.targets[k] = None
      /\ invalid[k] = 0 /\ snap.invalid[k] = 0 /\ results[k] = NoStatus /\ known[k] = NoStatus
  BY DEF Init, NoTargets, NothingYet
<1> QED BY <1>1, <1>2 DEF Reported, OnlyLast

\* When Cloud has retired a key, no older target of it is in place and none can come
\* back, from the snapshot of a pass, from the unit or from what is in flight:
\* RetiredIsClean.
THEOREM RetiredStaysClean == Spec => []RetiredIsClean
<1>1. Spec => [](TypeOK /\ WireOK)
  BY TypeCorrect
<1>2. Spec => []RemoveInv
  BY <1>1, InitRemove, StepRemove, PTL DEF Spec
<1>3. Spec => []CleanInv
  BY <1>1, <1>2, InitClean, StepClean, PTL DEF Spec
<1>4. CleanInv => RetiredIsClean
  BY DEF CleanInv, OnlyLast, RetiredIsClean
<1> QED BY <1>3, <1>4, PTL
==============================================================================
