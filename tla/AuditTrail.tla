----------------------------- MODULE AuditTrail -----------------------------
(***************************************************************************)
(* What the connection records promise Cloud, without queue, batches or    *)
(* connections: a record the module took in waits until Cloud stores it;   *)
(* one it gives up is counted, and Cloud is told of it; only a new process *)
(* forgets what waits.  A record of an earlier process may come again.     *)
(***************************************************************************)
CONSTANT Record

VARIABLES
    waiting,    \* taken in, neither stored nor given up
    stored,     \* Cloud has it
    gone,       \* given up, Cloud does not know yet
    told        \* given up, Cloud was told so

vars == <<waiting, stored, gone, told>>

Init == waiting = {} /\ stored = {} /\ gone = {} /\ told = {}

\* New records are taken in; some of all that wait may be given up for them, and those
\* Cloud does not count already are still to be told.
Take ==
    /\ gone \subseteq gone'
    /\ waiting \subseteq waiting' \cup gone' \cup told
    /\ waiting' \subseteq Record \ (stored \cup gone')
    /\ UNCHANGED <<stored, told>>

\* Cloud stores some that wait and learns of some that were given up.
Store ==
    /\ waiting' \subseteq waiting /\ stored' = stored \cup (waiting \ waiting')
    /\ gone' \subseteq gone /\ told' = told \cup (gone \ gone')

\* A new process remembers neither.
Restart == waiting' = {} /\ gone' = {} /\ UNCHANGED <<stored, told>>

Next == Take \/ Store \/ Restart
Spec == Init /\ [][Next]_vars
=============================================================================
