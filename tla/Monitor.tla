------------------------------ MODULE Monitor ------------------------------
(***************************************************************************)
(* What the lock and condition variables of threads/synch.h promise        *)
(* together: a Mesa-style monitor.  At most one thread is inside.  Waiting *)
(* releases the monitor and joins the wait queue in one atomic step, and a *)
(* signal moves the longest waiting thread to the threads that contend for *)
(* entry.                                                                  *)
(***************************************************************************)
EXTENDS Naturals, Sequences, Functions

CONSTANTS Thread, Cond, NULL

VARIABLES
    owner,  \* the thread inside, or NULL
    entry,  \* threads that wait to enter, in no particular order
    waitq   \* waitq[c]: threads that wait for c, longest first

monitorvars == <<owner, entry, waitq>>

Waiting(t) == \E c \in Cond : t \in Range(waitq[c])

Outside(t) == t # owner /\ t \notin entry /\ ~Waiting(t)

MonitorInit ==
    /\ owner = NULL
    /\ entry = {}
    /\ waitq = [c \in Cond |-> <<>>]

Request(t) ==
    /\ Outside(t)
    /\ entry' = entry \cup {t}
    /\ UNCHANGED <<owner, waitq>>

Enter(t) ==
    /\ owner = NULL
    /\ t \in entry
    /\ owner' = t
    /\ entry' = entry \ {t}
    /\ UNCHANGED waitq

TryEnter(t) ==
    /\ owner = NULL
    /\ Outside(t)
    /\ owner' = t
    /\ UNCHANGED <<entry, waitq>>

Leave(t) ==
    /\ owner = t
    /\ owner' = NULL
    /\ UNCHANGED <<entry, waitq>>

Wait(t, c) ==
    /\ owner = t
    /\ owner' = NULL
    /\ waitq' = [waitq EXCEPT ![c] = Append(@, t)]
    /\ UNCHANGED entry

Signal(t, c) ==
    /\ owner = t
    /\ waitq[c] # <<>>
    /\ entry' = entry \cup {Head(waitq[c])}
    /\ waitq' = [waitq EXCEPT ![c] = Tail(@)]
    /\ UNCHANGED owner

MonitorNext ==
    \E t \in Thread :
        \/ Request(t) \/ Enter(t) \/ TryEnter(t) \/ Leave(t)
        \/ \E c \in Cond : Wait(t, c) \/ Signal(t, c)

MonitorSpec == MonitorInit /\ [][MonitorNext]_monitorvars

=============================================================================
