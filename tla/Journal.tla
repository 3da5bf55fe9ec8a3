------------------------------- MODULE Journal -------------------------------
(***************************************************************************)
(* The operation journal of internal/operation/engine.go: the bounded,     *)
(* crash-safe record of accepted commands.  A snapshot holds at most one   *)
(* running command per exclusive group and the last RecentLimit terminal   *)
(* results.  This module holds the pure functions on snapshots; who calls  *)
(* them, and what a failed save leaves on disk, is in CommandPath.         *)
(*                                                                         *)
(* A record's kind is not kept: each module registers one command type     *)
(* with one exclusive group (internal/app/modules.go), so the command      *)
(* determines its kind and its group.  Times, stable tokens and the 8 KiB  *)
(* limit on results are data no property tells apart.                      *)
(***************************************************************************)
EXTENDS Naturals, Sequences

CONSTANTS
    Command,      \* command ids, the idempotency key of an offer
    Group,        \* exclusive groups
    GroupOf,      \* the group of each command
    NoCommand,    \* a group nobody runs in
    RunResult,    \* what a handler's Run may end with
    RecentLimit   \* recentOperationLimit, 64 in the Agent

ASSUME GroupOfType == GroupOf \in [Command -> Group]
ASSUME NoCommandFresh == NoCommand \notin Command
ASSUME RecentLimitPositive == RecentLimit \in Nat \ {0}

\* What Recover of every module returns, and the reply to an offer that never ran.
Recovered == "recovered"
Busy == "operation_busy"
ASSUME RunResultFresh == Recovered \notin RunResult /\ Busy \notin RunResult

\* Only a run or a recovery is ever journaled; Busy is answered and forgotten.
Terminal == RunResult \cup {Recovered}
Record == [id : Command, res : Terminal]
History == {q \in Seq(Record) : Len(q) <= RecentLimit}
\* A group's record is of a command of that group.
Holders == {a \in [Group -> Command \cup {NoCommand}] :
              \A g \in Group : a[g] # NoCommand => GroupOf[a[g]] = g}
Snapshot == [active : Holders, recent : History]

EmptySnapshot == [active |-> [g \in Group |-> NoCommand], recent |-> <<>>]

Ids(recent) == {recent[i].id : i \in DOMAIN recent}

\* Active[group] is taken, by whoever: ErrConflict.
Conflicts(s, c) == s.active[GroupOf[c]] # NoCommand

IsActive(s, c) == s.active[GroupOf[c]] = c
IsRecent(s, c) == c \in Ids(s.recent)
Known(s, c) == IsActive(s, c) \/ IsRecent(s, c)

\* The snapshot Begin saves.
BeginSnapshot(s, c) == [s EXCEPT !.active[GroupOf[c]] = c]

\* FinishWithResult keeps the newest RecentLimit records.
Trim(recent) ==
    IF Len(recent) > RecentLimit
    THEN SubSeq(recent, Len(recent) - RecentLimit + 1, Len(recent))
    ELSE recent

\* The snapshot FinishWithResult saves for an active command.
FinishSnapshot(s, c, r) ==
    [active |-> [s.active EXCEPT ![GroupOf[c]] = NoCommand],
     recent |-> Trim(Append(s.recent, [id |-> c, res |-> r]))]

\* A full history forgets its oldest command with the next result.
Dropped(s) == IF Len(s.recent) = RecentLimit THEN {s.recent[1].id} ELSE {}

\* replay: the journaled result of a recent command.  Recent scans from the newest
\* record; ids are unique in a valid snapshot, so there is only one to find.
RecentResult(s, c) ==
    s.recent[CHOOSE i \in DOMAIN s.recent : s.recent[i].id = c].res

\* validateSnapshot: what Open demands of the file before the runtime is built.
ValidSnapshot(s) ==
    /\ \A g \in Group : s.active[g] # NoCommand => GroupOf[s.active[g]] = g
    /\ \A c \in Command : ~(IsActive(s, c) /\ IsRecent(s, c))
    /\ \A i, j \in DOMAIN s.recent : s.recent[i].id = s.recent[j].id => i = j
==============================================================================
