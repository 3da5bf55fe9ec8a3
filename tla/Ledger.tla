-------------------------------- MODULE Ledger --------------------------------
(***************************************************************************)
(* internal/xray/ledger: which user each TCP connection of the host        *)
(* belongs to.  The kernel says which connections exist (dumps and close   *)
(* notices), the access log whose they are (lines); the two arrive in any  *)
(* order.  Everything here happens at one address, an inbound port and a   *)
(* client's address and port, because the ledger relates nothing else.     *)
(*                                                                         *)
(* An inbound that is dual takes UDP as well: lines of UDP flows of any    *)
(* user may then carry the same address.  Time is the number of events of  *)
(* the world, so no two have the same; how long keepClosed, claimWait and  *)
(* udpKeep last is left open: where each ends says what has happened by    *)
(* then.                                                                   *)
(***************************************************************************)
EXTENDS Integers, Sequences, FiniteSets

CONSTANTS
    User,
    Local,      \* addresses of the node a client can connect to
    MaxConns,   \* connections opened at the address
    MaxTime,    \* events of the world
    MaxFlows    \* lines of UDP flows

ASSUME BoundsType == MaxConns \in Nat /\ MaxTime \in Nat /\ MaxFlows \in Nat

VARIABLES
    now,
    dual,       \* the inbound takes UDP too
    conns,      \* the kernel's connections, by cookie
    notices,    \* close notices on their way
    log,        \* lines written and not read yet
    flows,      \* lines of UDP flows written
    outran,     \* the connections outran the ledger, see Looked, Late and Dropped
    poll,       \* the dump in progress
    opened,     \* the log is being read
    dumped, started, tail,
    sockets,    \* the ledger's sockets, by cookie
    claim,      \* the line that waits at the address
    ended       \* the ends told, by cookie

worldVars == <<conns, notices, flows, outran>>
ledgerVars == <<dumped, started, tail, sockets, claim, ended>>
vars == <<now, dual, worldVars, log, poll, opened, ledgerVars>>

Cookie == 1..MaxConns
Time == 0..MaxTime   \* 0: the zero time
Nobody == "nobody"
ASSUME NobodyIsNoUser == Nobody \notin User
ASSUME LocalNone == "none" \notin Local

Unborn == [state |-> "unborn", user |-> Nobody, local |-> "none", opened |-> 0, closed |-> 0, spoke |-> FALSE]
NoSocket == [known |-> FALSE, email |-> Nobody, line |-> 0, after |-> 0, closedAt |-> 0,
             noticed |-> FALSE, missing |-> 0, disputed |-> FALSE]
NoClaim == [email |-> Nobody, at |-> 0, rival |-> 0]
NoPoll == [pc |-> "idle", tried |-> TRUE, start |-> 0, shown |-> {}]

Init ==
    /\ now = 0
    /\ dual \in BOOLEAN
    /\ conns = [c \in Cookie |-> Unborn]
    /\ notices = {} /\ log = <<>> /\ flows = 0 /\ outran = FALSE
    /\ poll = [NoPoll EXCEPT !.tried = FALSE] /\ opened = FALSE
    /\ dumped = 0 /\ started = 0 /\ tail = "none"
    /\ sockets = [c \in Cookie |-> NoSocket]
    /\ claim = NoClaim
    /\ ended = [c \in Cookie |-> Nobody]

-----------------------------------------------------------------------------
(* The world: the kernel's connections and Xray's log (external). *)

Event == now < MaxTime /\ now' = now + 1
WorldOnly == UNCHANGED <<dual, poll, opened, ledgerVars>>

\* The ledger has looked since the last connection at the address closed.
Looked == \A c \in Cookie : conns[c].state = "closed" =>
             IF dumped # 0 THEN conns[c].closed < dumped
             ELSE poll.pc # "idle" => conns[c].closed < poll.start

Open(c, u, l) ==
    /\ Event
    /\ conns[c].state = "unborn" /\ \A d \in 1..c - 1 : conns[d].state # "unborn"
    /\ \A d \in Cookie : conns[d].state = "open" => conns[d].local # l
    /\ conns' = [conns EXCEPT ![c] = [state |-> "open", user |-> u, local |-> l,
                                      opened |-> now', closed |-> 0, spoke |-> FALSE]]
    /\ outran' = (outran \/ ~Looked)
    /\ UNCHANGED <<notices, log, flows>> /\ WorldOnly

\* A connection closes; the kernel's notice of it may be lost.
Close(c) ==
    /\ Event
    /\ conns[c].state = "open"
    /\ conns' = [conns EXCEPT ![c].state = "closed", ![c].closed = now']
    /\ notices' \in {notices, notices \cup {c}}
    /\ UNCHANGED <<log, flows, outran>> /\ WorldOnly

\* Xray logs a request on an open connection.
Request(c) ==
    /\ Event
    /\ conns[c].state = "open"
    /\ conns' = [conns EXCEPT ![c].spoke = TRUE]
    /\ log' = Append(log, [email |-> conns[c].user, at |-> now'])
    /\ UNCHANGED <<notices, flows, outran>> /\ WorldOnly

\* Xray logs a UDP flow of u from the same address.
FlowRequest(u) ==
    /\ Event
    /\ dual /\ flows < MaxFlows /\ flows' = flows + 1
    /\ log' = Append(log, [email |-> u, at |-> now'])
    /\ UNCHANGED <<conns, notices, outran>> /\ WorldOnly

-----------------------------------------------------------------------------
(* What a line and a connection have to do with each other. *)

Known == {c \in Cookie : sockets[c].known}
WrittenAfterClose(s, at) == s.closedAt # 0 /\ at > s.closedAt

\* carrier: a connection of the line's user open when it was written.
Carriers(ss, l) == {c \in Cookie : /\ ss[c].known /\ ss[c].email = l.email
                                   /\ ~WrittenAfterClose(ss[c], l.at)}

\* candidate: the unbound connections a line can belong to.  With none or several it
\* binds nothing.
Candidates(ss, l) ==
    {c \in Cookie : /\ ss[c].known /\ ss[c].email = Nobody /\ ~ss[c].disputed
                    /\ l.at >= ss[c].after
                    /\ ~(dual /\ ss[c].after = 0)
                    /\ ~WrittenAfterClose(ss[c], l.at)}

\* Mutant: a rival line is not looked at.
BindIgnoresRival(s, l) == [s EXCEPT !.email = l.email, !.line = l.at]

\* bind: a connection gets its user, or is nobody's when another user's line
\* written since it opened waited at the address.
Bind(s, l) == IF l.rival > s.after THEN [s EXCEPT !.disputed = TRUE]
              ELSE [s EXCEPT !.email = l.email, !.line = l.at]

\* replayed: a connection open at the start that a newer line of the log's tail
\* takes over.
Replayed(l) ==
    IF dual \/ started = 0 \/ l.at > started \/ tail' = "over" THEN {}
    ELSE {c \in Known : /\ sockets[c].after = 0 /\ sockets[c].email # Nobody
                        /\ l.at > sockets[c].line}

\* dispute: the connections of another user that the line, which no connection
\* took, may be the own line of.
Disputable(l) ==
    {c \in Known :
        /\ ~WrittenAfterClose(sockets[c], l.at) /\ ~sockets[c].disputed
        /\ sockets[c].email \notin {Nobody, l.email}
        /\ \/ /\ sockets[c].after = 0 /\ started # 0 /\ l.at > started /\ tail' # "over"
              /\ sockets[c].line <= started
           \/ dual /\ sockets[c].after # 0 /\ l.at > sockets[c].after}
AlreadyDisputed(l) == {c \in Known : /\ dual /\ sockets[c].disputed
                                     /\ ~WrittenAfterClose(sockets[c], l.at)}

-----------------------------------------------------------------------------
(* The ledger. *)

\* Run, poll: a dump starts, is read from the kernel and then taken in.
PollStarts ==
    /\ Event
    /\ poll.pc = "idle"
    /\ poll' = [poll EXCEPT !.pc = "dump", !.start = now']
    /\ UNCHANGED <<dual, worldVars, log, opened, ledgerVars>>

DumpReads ==
    /\ poll.pc = "dump"
    /\ poll' = [poll EXCEPT !.pc = "take", !.shown = {c \in Cookie : conns[c].state = "open"}]
    /\ UNCHANGED <<now, dual, worldVars, log, opened, ledgerVars>>

\* expire: what closed longest ago is forgotten first, and nothing before the lines
\* written until then have been read (keepClosed); a bound connection opened
\* since the start is told to have ended.
Expirable(ss, gone) ==
    \A c \in gone : /\ ss[c].known /\ ss[c].closedAt # 0
                    /\ \A d \in Cookie : ss[d].known /\ ss[d].closedAt # 0
                          /\ ss[d].closedAt < ss[c].closedAt => d \in gone
                    /\ \A n \in 1..Len(log) : log[n].at > ss[c].closedAt

\* Two hours, udpKeep, is longer than dumps and notices keep a connection from the
\* ledger; a TCP line's claimWait may not be.
ClaimExpires(ss) == dual => notices = {} /\ \A c \in Cookie : conns[c].state = "open" => ss[c].known

Expire(ss, cl) ==
    \E gone \in SUBSET Cookie :
        /\ Expirable(ss, gone)
        /\ sockets' = [c \in Cookie |-> IF c \in gone THEN NoSocket ELSE ss[c]]
        /\ ended' = [c \in Cookie |-> IF c \in gone /\ ss[c].email # Nobody /\ ss[c].after # 0
                                      THEN ss[c].email ELSE ended[c]]
        /\ claim' \in {cl} \cup IF ClaimExpires(ss) THEN {NoClaim} ELSE {}

\* add: a connection opened since the dump before the one that shows it.
Added == [NoSocket EXCEPT !.known = TRUE, !.after = dumped]

Shown(c) ==
    LET s == sockets[c] IN
    IF c \in poll.shown
    THEN IF ~s.known THEN Added
         ELSE IF s.noticed THEN s ELSE [s EXCEPT !.missing = 0, !.closedAt = 0]
    ELSE IF s.known /\ s.closedAt = 0 THEN [s EXCEPT !.missing = @ + 1] ELSE s

\* bindSocket: the waiting line binds the one connection it can belong to, if that is new.
BindNew(ss, new) ==
    LET found == Candidates(ss, claim)
    IN  IF claim # NoClaim /\ Cardinality(found) = 1 /\ found \subseteq new THEN found ELSE {}

\* A connection missing from two dumps in a row has closed.
CloseMissing(s) == IF s.known /\ s.closedAt = 0 /\ s.missing >= 2 THEN [s EXCEPT !.closedAt = now] ELSE s

Take ==
    /\ poll.pc = "take"
    /\ LET shown == [c \in Cookie |-> Shown(c)]
           bound == BindNew(shown, poll.shown \ Known)
           ss == [c \in Cookie |-> CloseMissing(IF c \in bound THEN Bind(shown[c], claim) ELSE shown[c])]
       IN  Expire(ss, IF bound = {} THEN claim ELSE NoClaim)
    /\ dumped' = poll.start
    /\ started' = IF dumped = 0 THEN poll.start ELSE started
    /\ poll' = NoPoll
    /\ UNCHANGED <<now, dual, worldVars, log, opened, tail>>

\* A dump that fails only lets time pass.
DumpFails ==
    /\ poll.pc = "dump"
    /\ poll' = NoPoll
    /\ Expire(sockets, claim)
    /\ UNCHANGED <<now, dual, worldVars, log, opened, dumped, started, tail>>

\* The notice is the first the ledger sees of the connection, and comes after a dump
\* that started since it opened.
Late(c) == ~sockets[c].known /\ conns[c].opened < dumped

\* close: the kernel's notice is final; one of an unknown connection adds it.
Notice(c) ==
    /\ c \in notices /\ notices' = notices \ {c}
    /\ IF dumped = 0
       THEN UNCHANGED <<sockets, claim>>
       ELSE LET s == [IF sockets[c].known THEN sockets[c] ELSE Added EXCEPT
                         !.noticed = TRUE, !.closedAt = IF @ = 0 THEN now ELSE @]
                ss == [sockets EXCEPT ![c] = s]
                bound == IF sockets[c].known THEN {} ELSE BindNew(ss, {c})
            IN  /\ sockets' = IF bound = {} THEN ss ELSE [ss EXCEPT ![c] = Bind(s, claim)]
                /\ claim' = IF bound = {} THEN claim ELSE NoClaim
    /\ outran' = (outran \/ Late(c))
    /\ UNCHANGED <<now, dual, conns, flows, log, poll, opened, dumped, started, tail, ended>>

\* A connection opened since the first dump has its line among those not passed on.
Dropped ==
    LET first == IF started # 0 THEN started ELSE poll.start
    IN  dual /\ first # 0 /\ \E c \in Cookie : conns[c].spoke /\ conns[c].opened > first

\* Log.Run opens the log after the first dump, taken or failed; the lines already
\* there are passed on, unless the inbound takes both TCP and UDP.
OpenLog ==
    /\ ~opened /\ poll.tried
    /\ opened' = TRUE
    /\ log' = IF dual THEN <<>> ELSE log
    /\ outran' = (outran \/ Dropped)
    /\ UNCHANGED <<now, dual, conns, notices, flows, poll, ledgerVars>>

\* The claim a line makes: its rival is the newest line of another user that waited
\* at the address, on an inbound that is dual.
Claimed(l) ==
    [email |-> l.email, at |-> l.at,
     rival |-> IF ~dual \/ claim = NoClaim THEN 0
               ELSE IF claim.email # l.email THEN claim.at ELSE claim.rival]

\* A line a connection took ends what waited.
LineTaken(ss) == sockets' = ss /\ claim' = NoClaim

\* A line no connection took leaves those it disputes nobody's, or waits.
LineLeft(c) ==
    LET against == Disputable(c)
    IN  /\ sockets' = [s \in Cookie |-> IF s \in against
                          THEN [sockets[s] EXCEPT !.email = Nobody, !.line = 0, !.disputed = TRUE]
                          ELSE sockets[s]]
        /\ claim' = IF against \cup AlreadyDisputed(c) = {} THEN c ELSE claim

\* claim: the next line of the log, in the order they were written.
ReadLine ==
    /\ opened /\ log # <<>> /\ log' = Tail(log)
    /\ tail' = IF tail = "none" /\ started # 0 THEN "open" ELSE tail
    /\ LET c == Claimed(Head(log))
           newer == Replayed(c)
           found == Candidates(sockets, c)
       IN  IF newer # {}
           THEN \E s \in newer : LineTaken([sockets EXCEPT ![s].email = c.email, ![s].line = c.at])
           ELSE IF Carriers(sockets, c) # {} THEN LineTaken(sockets)
           ELSE IF Cardinality(found) = 1
           THEN \E s \in found : LineTaken([sockets EXCEPT ![s] = Bind(sockets[s], c)])
           ELSE LineLeft(c)
    /\ UNCHANGED <<now, dual, worldVars, poll, opened, dumped, started, ended>>

\* claimWait after the tail began to come in.  By then the lines written before the
\* start have come, and each connection open at the start has written its own.
TailEnds ==
    /\ tail = "open" /\ log = <<>>
    /\ \A c \in Known : sockets[c].after = 0 => conns[c].spoke
    /\ tail' = "over"
    /\ UNCHANGED <<now, dual, worldVars, log, poll, opened, dumped, started, sockets, claim, ended>>

-----------------------------------------------------------------------------
World == \/ \E c \in Cookie, u \in User, l \in Local : Open(c, u, l)
         \/ \E c \in Cookie : Close(c) \/ Request(c)
         \/ \E u \in User : FlowRequest(u)

Account == \/ PollStarts \/ DumpReads \/ Take \/ DumpFails
           \/ \E c \in Cookie : Notice(c)
           \/ OpenLog \/ ReadLine \/ TailEnds

Next == World \/ Account
Spec == Init /\ [][Next]_vars

-----------------------------------------------------------------------------
\* The variables have their types.
TypeOK ==
    /\ now \in Time /\ dual \in BOOLEAN /\ notices \subseteq Cookie
    /\ conns \in [Cookie -> [state : {"unborn", "open", "closed"}, user : User \cup {Nobody},
                             local : Local \cup {"none"}, opened : Time, closed : Time, spoke : BOOLEAN]]
    /\ log \in Seq([email : User, at : Time]) /\ flows \in 0..MaxFlows /\ outran \in BOOLEAN
    /\ poll \in [pc : {"idle", "dump", "take"}, tried : BOOLEAN, start : Time, shown : SUBSET Cookie]
    /\ opened \in BOOLEAN /\ dumped \in Time /\ started \in Time /\ tail \in {"none", "open", "over"}
    /\ sockets \in [Cookie -> [known : BOOLEAN, email : User \cup {Nobody}, line : Time, after : Time,
                               closedAt : Time, noticed : BOOLEAN, missing : 0..2, disputed : BOOLEAN]]
    /\ claim \in [email : User \cup {Nobody}, at : Time, rival : Time]
    /\ ended \in [Cookie -> User \cup {Nobody}]

\* A connection is never counted for another user: once the lines written have been
\* read, the user of a connection that has written a line is its own or nobody, and
\* so is the user its end was told for.
RightUser ==
    opened /\ log = <<>> /\ ~outran =>
        \A c \in Cookie : conns[c].spoke => {sockets[c].email, ended[c]} \subseteq {conns[c].user, Nobody}

=============================================================================
