------------------------------ MODULE MCSynch ------------------------------
(***************************************************************************)
(* Instances of Synch for TLC.                                             *)
(***************************************************************************)
EXTENDS Synch, TLC

CONSTANTS monitor

MCLockOf == [c \in Cond |-> monitor]

\* Threads other than main and idle are only compared for equality.
Symmetry == Permutations(Thread \ {initial_thread, IdlePage})

Mon == INSTANCE Monitor WITH
           Cond <- CondsOf(monitor), owner <- OwnerOf(monitor),
           entry <- EntryOf(monitor), waitq <- WaitqOf(monitor)

\* "Atomically releases LOCK and waits for COND to be signaled by some other
\* piece of code" (synch.c:255): a lock with its condition variables implements
\* the abstract monitor, in which waiting is one step.
ImplementsMonitor == Mon!MonitorSpec

=============================================================================
