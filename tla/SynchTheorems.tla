--------------------------- MODULE SynchTheorems ----------------------------
(***************************************************************************)
(* Proofs about Synch, concluded: the tids, the wait lists, on which every *)
(* thread that sleeps is found and no wakeup is lost, the theorems, and    *)
(* the refinement of Monitor.                                              *)
(***************************************************************************)
EXTENDS SynchCalls, FiniteSetTheorems, MCSynch

-----------------------------------------------------------------------------
(* Thread identifiers.                                                     *)

\* Only the holder of tid_lock is between the halves of next_tid++.
LEMMA TidHolder ==
    ASSUME SynchInv, NEW t \in Thread, NEW u \in Thread,
           pc[t] \in {"tid", "tid_inc"}, pc[u] \in {"tid", "tid_inc"}
    PROVE  t = u
  BY Zenon DEF SynchInv, CallOK

\* allocate_tid() gives every thread a tid of its own.
LEMMA TidsKept ==
    ASSUME SynchInv, CallStep
    PROVE  TidRead' /\ TidsUnique'
  <1>0. /\ new \in [Thread -> Thread \cup {NULL}] /\ NULL \notin Thread /\ current \in Thread
        /\ tid \in [Thread -> Nat] /\ next_tid \in Nat /\ pc \in [Thread -> Label]
    BY SchedulerAssumption, Zenon DEF SynchInv, SynchTypeOK, SchedInv, SchedTypeOK
  <1>1. \A t \in Thread \ {current} : pc'[t] = pc[t] /\ new'[t] = new[t]
    BY CurrentOnly, Zenon
  <1>2. \A t \in Thread : pc[t] = "tid_inc" => new[t] \in Thread /\ tid[new[t]] = next_tid
    BY <1>0 DEF SynchInv, TidRead, NewOK, Creating
  <1>3. /\ \A t, u \in Thread : status[t] # "none" /\ tid[t] # 0 /\ status[u] # "none" /\ tid[u] # 0
                                /\ tid[t] = tid[u] => t = u
        /\ \A t \in Thread : status[t] # "none" /\ tid[t] # 0 =>
             tid[t] < next_tid \/ \E u \in Thread : pc[u] = "tid_inc" /\ new[u] = t
    BY Zenon DEF SynchInv, TidsUnique
  <1>4. CASE tid_read
    <2>1. /\ pc[current] = "tid" /\ tid' = [tid EXCEPT ![new[current]] = next_tid]
          /\ pc'[current] = "tid_inc" /\ UNCHANGED <<status, next_tid, new>>
      BY <1>0, <1>4, Zenon DEF tid_read, At, Goto, schedvars
    <2>2. new[current] \in Thread
      BY <1>0, <2>1 DEF SynchInv, NewOK, Creating
    <2>3. \A u \in Thread : pc[u] # "tid_inc"
      BY <1>0, <2>1, TidHolder, Zenon
    <2>4. \A t \in Thread : status[t] # "none" /\ tid[t] # 0 => tid[t] < next_tid
      BY <1>3, <2>3, Zenon
    <2>5. TidRead'
      BY <1>0, <1>1, <2>1, <2>2, <2>3, Zenon DEF TidRead
    <2>6. \A t \in Thread : tid'[t] = IF t = new[current] THEN next_tid ELSE tid[t]
      BY <1>0, <2>1, Zenon
    <2>7. /\ \A t, u \in Thread : status[t] # "none" /\ tid'[t] # 0 /\ status[u] # "none" /\ tid'[u] # 0
                                  /\ tid'[t] = tid'[u] => t = u
          /\ \A t \in Thread : status[t] # "none" /\ tid'[t] # 0 => tid'[t] < next_tid \/ t = new[current]
      BY <1>0, <1>3, <2>4, <2>6
    <2>8. TidsUnique'
      BY <1>0, <2>1, <2>7, Zenon DEF TidsUnique
    <2>9. QED
      BY <2>5, <2>8, Zenon
  <1>5. CASE tid_inc
    <2>1. /\ pc[current] = "tid_inc" /\ next_tid' = tid[new[current]] + 1
          /\ pc'[current] = "tid_release" /\ UNCHANGED <<status, tid, new>>
      BY <1>0, <1>5, Zenon DEF tid_inc, At, Goto, schedvars
    <2>2. next_tid' = next_tid + 1
      BY <1>0, <1>2, <2>1, Zenon
    <2>3. \A u \in Thread : pc'[u] # "tid_inc"
      BY <1>0, <1>1, <2>1, TidHolder, Zenon
    <2>4. \A t \in Thread : status[t] # "none" /\ tid[t] # 0 => tid[t] < next_tid'
      BY <1>0, <1>2, <1>3, <2>2
    <2>5. QED
      BY <1>3, <2>1, <2>3, <2>4, Zenon DEF TidRead, TidsUnique
  <1>6. CASE \E t \in Thread : call_thread_create(t)
    <2>1. PICK t \in Thread : call_thread_create(t)
      BY <1>6, Zenon
    <2>2. /\ Effect({}, {t}) /\ status[t] = "none" /\ tid' = [tid EXCEPT ![t] = 0] /\ next_tid' = next_tid
          /\ pc[current] = "client" /\ pc'[current] = "acquire"
      BY <1>0, <2>1, CreateEffect, Zenon DEF call_thread_create, Call, At, Goto
    <2>3. \A u \in Thread : new[u] # t
      BY <1>0, <2>2, Zenon DEF SynchInv, NewOK
    <2>4. \A u \in Thread : pc'[u] = "tid_inc" => pc[u] = "tid_inc" /\ new'[u] = new[u] /\ u # current
      BY <1>1, <2>2, Zenon
    <2>5. \A u \in Thread : pc[u] = "tid_inc" => pc'[u] = "tid_inc" /\ new'[u] = new[u]
      BY <1>1, <2>2, Zenon
    <2>6. TidRead'
      BY <1>0, <1>2, <2>2, <2>3, <2>4, Zenon DEF TidRead
    <2>7. \A u \in Thread : status'[u] # "none" /\ tid'[u] # 0 => status[u] # "none" /\ tid'[u] = tid[u]
      BY <1>0, <2>2, Zenon DEF Effect
    <2>8. TidsUnique'
      BY <1>3, <2>2, <2>5, <2>7 DEF TidsUnique
    <2>9. QED
      BY <2>6, <2>8, Zenon
  <1>7. CASE ~tid_read /\ ~tid_inc /\ ~\E t \in Thread : call_thread_create(t)
    <2>1. UNCHANGED <<tid, next_tid>>
      <3>1. CASE Begin
        BY <3>1, BeginFacts, Zenon
      <3>2. CASE Work
        BY <1>7, <3>2, Zenon DEF Work, acquired, wait_release, broadcast_end, tid_release
      <3>3. QED
        BY <1>7, <3>1, <3>2, Zenon DEF CallStep, start, Pop, Down, Up
    <2>2. \A t \in Thread : t = current => (pc'[t] = "tid_inc" <=> pc[t] = "tid_inc")
      <3>1. CASE Begin
        BY <1>0, <3>1, BeginFacts, Zenon DEF Goto
      <3>2. CASE Work \/ start
        BY <1>0, <1>7, <3>2, Zenon DEF Work, acquired, wait_release, broadcast_end, tid_release, start, At, Goto
      <3>3. CASE \E c \in Cond, label \in Label : Pop(c, label)
        BY <1>0, <3>3, Zenon DEF Pop, Goto
      <3>4. ASSUME NEW s \in Semaphore, NEW label \in Label, Down(s, label)
            PROVE  \A t \in Thread : t = current => (pc'[t] = "tid_inc" <=> pc[t] = "tid_inc")
        <4>1. Sleeps(s) \/ Takes(s, label)
          BY <3>4, SemaDown, Zenon DEF Down, At
        <4>2. QED
          BY <1>0, <3>4, <4>1, Zenon DEF Down, At, Sleeps, Takes, Goto
      <3>5. CASE \E s \in Semaphore : Up(s)
        BY <1>0, <3>5, Zenon DEF Up, At, Goto
      <3>6. QED
        BY <1>7, <3>1, <3>2, <3>3, <3>4, <3>5, Zenon DEF CallStep
    <2>3. \A t \in Thread : t = current /\ pc[t] = "tid_inc" => new'[t] = new[t]
      BY <1>7, CreateSteps, Zenon DEF start, At
    <2>4. \A t \in Thread : /\ pc'[t] = "tid_inc" <=> pc[t] = "tid_inc"
                            /\ pc[t] = "tid_inc" => new'[t] = new[t]
      BY <1>1, <2>2, <2>3, Zenon
    <2>5. \A t \in Thread : status'[t] # "none" => status[t] # "none"
      <3>1. InClient => status[current] # "none"
        BY ClientFacts, Zenon
      <3>2. QED
        BY <1>7, <3>1, CallEffects, Zenon DEF Effect
    <2>6. QED
      BY <1>2, <1>3, <2>1, <2>4, <2>5 DEF TidRead, TidsUnique
  <1>8. QED
    BY <1>4, <1>5, <1>6, <1>7, Zenon

-----------------------------------------------------------------------------
(* Wait lists.                                                             *)

\* Wait lists hold exactly the sleeping threads.
LEMMA ListsKept ==
    ASSUME SynchInv, CallStep
    PROVE  WaitListsExact'
  <1>1. \A s \in Semaphore :
          /\ IsInjective(waiters[s]) /\ Range(waiters[s]) \subseteq Thread \ {IdlePage}
          /\ \A t \in Range(waiters[s]) : status[t] = "blocked" /\ InDown(t, s)
    BY ListedThreads, Zenon DEF SynchInv, WaitListsExact
  <1>2. \A s \in Semaphore : \A t \in Range(waiters[s]) : InDown(t, s)'
    <2>1. InClient => \A s \in Semaphore : current \notin Range(waiters[s])
      BY ClientFacts, Zenon
    <2>2. \A s \in Semaphore, label \in Label : Down(s, label) => InClient
      BY Zenon DEF Down, At
    <2>3. QED
      BY <1>1, <2>1, <2>2, DownSteps
  <1>3. CASE UNCHANGED <<status, waiters>>
    BY <1>1, <1>2, <1>3, Zenon DEF WaitListsExact
  <1>4. ASSUME NEW s \in Semaphore, Sleeps(s), Effect({}, {current}), InDown(current, s), InClient, arg' = arg
        PROVE  WaitListsExact'
    <2>1. /\ IsInjective(waiters'[s]) /\ Range(waiters'[s]) = Range(waiters[s]) \cup {current}
          /\ \A r \in Semaphore \ {s} : waiters'[r] = waiters[r]
          /\ pc' = pc
      BY <1>4, Zenon DEF Sleeps
    <2>2. current \in Thread \ {IdlePage}
      BY <1>4, ClientFacts, Zenon
    <2>3. \A t \in Thread : t = current => InDown(t, s)' /\ status'[t] = "blocked"
      BY <1>4, <2>1, <2>2, Zenon DEF InDown, Effect
    <2>4. \A r \in Semaphore : \A t \in Range(waiters[r]) : status'[t] = "blocked"
      BY <1>1, <1>4, Zenon DEF Effect
    <2>5. QED
      BY <1>1, <1>2, <2>1, <2>2, <2>3, <2>4, Zenon DEF WaitListsExact
  <1>5. ASSUME NEW s \in Semaphore, NEW h \in Thread, Wakes(s, h), Effect({h}, {}),
               \A r \in Semaphore \ {s} : waiters'[r] = waiters[r]
        PROVE  WaitListsExact'
    <2>1. /\ IsInjective(waiters'[s]) /\ Range(waiters'[s]) = Range(waiters[s]) \ {h} /\ InDown(h, s)
      BY <1>5, Zenon DEF Wakes
    <2>2. \A r \in Semaphore \ {s} : h \notin Range(waiters[r])
      BY <1>1, <2>1, DownSteps, Zenon
    <2>3. \A r \in Semaphore : \A t \in Range(waiters'[r]) : t # h /\ t \in Range(waiters[r])
      BY <1>5, <2>1, <2>2, Zenon
    <2>4. \A r \in Semaphore : \A t \in Range(waiters'[r]) : status'[t] = "blocked"
      BY <1>1, <1>5, <2>3, Zenon DEF Effect
    <2>5. QED
      BY <1>1, <1>2, <1>5, <2>1, <2>3, <2>4, Zenon DEF WaitListsExact
  <1>6. CASE start /\ Effect({new[current]}, {}) /\ waiters' = waiters
    <2>1. \A s \in Semaphore : new[current] \notin Range(waiters[s])
      <3>1. pc[new[current]] = "client"
        BY <1>6, ClientFacts, Zenon DEF start, At, SynchInv, NewOK, Creating
      <3>2. QED
        BY <1>1, <3>1, Zenon DEF InDown
    <2>2. \A s \in Semaphore : \A t \in Range(waiters[s]) : status'[t] = "blocked"
      BY <1>1, <1>6, <2>1, Zenon DEF Effect
    <2>3. QED
      BY <1>1, <1>2, <1>6, <2>2, Zenon DEF WaitListsExact
  <1>7. ASSUME NEW u \in Thread, Effect({}, {u}), waiters' = waiters
        PROVE  WaitListsExact'
    <2>1. \A s \in Semaphore : \A t \in Range(waiters[s]) : status'[t] = "blocked"
      BY <1>1, <1>7, Zenon DEF Effect
    <2>2. QED
      BY <1>1, <1>2, <1>7, <2>1, Zenon DEF WaitListsExact
  <1>8. QED
    BY <1>3, <1>4, <1>5, <1>6, <1>7, CallEffects, Zenon

\* No thread goes to sleep where nobody can find it.
LEMMA BlockedKept ==
    ASSUME SynchInv, CallStep
    PROVE  BlockedListed'
  <1>0. /\ new \in [Thread -> Thread \cup {NULL}] /\ NULL \notin Thread /\ current \in Thread
    BY SchedulerAssumption, Zenon DEF SynchInv, SynchTypeOK, SchedInv, SchedTypeOK
  <1> SUFFICES ASSUME NEW t \in Thread \ {IdlePage}, status'[t] = "blocked"
               PROVE  \/ \E s \in Semaphore : t \in Range(waiters'[s])
                      \/ \E u \in Thread : new'[u] = t
                      \/ t = initial_thread /\ boot' # "done"
    BY Zenon DEF BlockedListed
  <1>1. status[t] = "blocked" => \/ \E s \in Semaphore : t \in Range(waiters[s])
                                 \/ \E u \in Thread : new[u] = t
                                 \/ t = initial_thread /\ boot # "done"
    BY Zenon DEF SynchInv, BlockedListed
  <1>2. ASSUME NEW u \in Thread, new[u] = t, new'[u] # t PROVE start /\ new[current] = t
    <2>1. u = current
      BY <1>2, CurrentOnly, Zenon
    <2>2. start \/ \E w \in Thread : call_thread_create(w)
      BY <1>2, <2>1, CreateSteps, Zenon
    <2>3. ASSUME NEW w \in Thread, call_thread_create(w) PROVE FALSE
      <3>1. pc[u] = "client"
        BY <2>1, <2>3, Zenon DEF call_thread_create, Call, At
      <3>2. QED
        BY <1>0, <1>2, <3>1, Zenon DEF SynchInv, NewOK, Creating
    <2>4. QED
      BY <1>2, <2>1, <2>2, <2>3, Zenon
  <1>3. CASE start
    <2>1. Effect({new[current]}, {}) /\ waiters' = waiters
      <3>1. InClient /\ pc[current] = "start" /\ thread_unblock(new[current]) /\ boot' = boot /\ waiters' = waiters
        BY <1>3, Zenon DEF start, At, RunOn
      <3>2. new[current] \in Thread /\ status[new[current]] = "blocked" /\ boot = "done"
        BY <1>0, <3>1, ClientFacts, Zenon DEF SynchInv, NewOK, Creating
      <3>3. QED
        BY <3>1, <3>2, WakeEffect, Zenon
    <2>2. t # new[current] /\ status[t] = "blocked" /\ boot = "done"
      BY <2>1, Zenon DEF Effect
    <2>3. QED
      BY <1>1, <1>2, <2>1, <2>2, Zenon
  <1>4. CASE UNCHANGED <<status, boot, waiters>> /\ ~start
    BY <1>1, <1>2, <1>4, Zenon
  <1>5. ASSUME NEW s \in Semaphore, Sleeps(s), Effect({}, {current}), new' = new
        PROVE  \/ \E r \in Semaphore : t \in Range(waiters'[r])
               \/ \E u \in Thread : new'[u] = t
    <2>1. /\ Range(waiters'[s]) = Range(waiters[s]) \cup {current}
          /\ \A r \in Semaphore \ {s} : waiters'[r] = waiters[r]
      BY <1>5, Zenon DEF Sleeps
    <2>2. (status[t] = "blocked" \/ t = current) /\ boot = "done"
      BY <1>5, Zenon DEF Effect
    <2>3. QED
      BY <1>1, <1>5, <2>1, <2>2, Zenon
  <1>6. ASSUME NEW s \in Semaphore, NEW h \in Thread, Wakes(s, h), Effect({h}, {}), ~start,
               \A r \in Semaphore \ {s} : waiters'[r] = waiters[r]
        PROVE  \/ \E r \in Semaphore : t \in Range(waiters'[r])
               \/ \E u \in Thread : new'[u] = t
    <2>1. Range(waiters'[s]) = Range(waiters[s]) \ {h}
      BY <1>6, Zenon DEF Wakes
    <2>2. status[t] = "blocked" /\ t # h /\ boot = "done"
      BY <1>6, Zenon DEF Effect
    <2>3. QED
      BY <1>1, <1>2, <1>6, <2>1, <2>2, Zenon
  <1>7. ASSUME NEW w \in Thread, call_thread_create(w), Effect({}, {w}), waiters' = waiters, ~start
        PROVE  \/ \E r \in Semaphore : t \in Range(waiters'[r])
               \/ \E u \in Thread : new'[u] = t
    <2>1. (status[t] = "blocked" \/ t = w) /\ boot = "done"
      BY <1>7, Zenon DEF Effect
    <2>2. new'[current] = w
      BY <1>0, <1>7, Zenon DEF call_thread_create
    <2>3. QED
      BY <1>0, <1>1, <1>2, <1>7, <2>1, <2>2, Zenon
  <1>8. QED
    BY <1>3, <1>4, <1>5, <1>6, <1>7, CallEffects, Zenon

\* No wakeup is lost.
LEMMA WakeupsStay ==
    ASSUME SynchInv, CallStep
    PROVE  WakeupsKept'
  <1>0. /\ value \in [Semaphore -> Nat] /\ value' \in [Semaphore -> Nat] /\ current \in Thread
        /\ waiters \in [Semaphore -> Seq(Thread)]
    BY TypesKept, Zenon DEF SynchInv, SynchTypeOK, SchedInv, SchedTypeOK
  <1> SUFFICES ASSUME NEW s \in Semaphore, waiters'[s] # <<>>
               PROVE  value'[s] <= Cardinality({t \in Thread : Awake(t, s)'})
    BY Zenon DEF WakeupsKept
  <1> DEFINE A == {t \in Thread : Awake(t, s)}
             B == {t \in Thread : Awake(t, s)'}
  <1>1. /\ IsFiniteSet(A) /\ IsFiniteSet(B) /\ Cardinality(A) \in Nat /\ Cardinality(B) \in Nat
        /\ \A C \in SUBSET B : Cardinality(C) <= Cardinality(B)
    <2>1. A \subseteq Thread /\ B \subseteq Thread /\ IsFiniteSet(Thread)
      BY SynchAssumption, Zenon
    <2>2. IsFiniteSet(A) /\ IsFiniteSet(B)
      BY <2>1, FS_Subset, Zenon
    <2>3. QED
      BY <2>2, FS_Subset, FS_CardinalityType, Zenon
  <1>n. value[s] \in Nat /\ value'[s] \in Nat /\ Cardinality(A) \in Nat /\ Cardinality(B) \in Nat
    BY <1>0, <1>1, Zenon
  <1>2. waiters[s] # <<>> => value[s] <= Cardinality(A)
    BY Zenon DEF SynchInv, WakeupsKept
  <1>3. ASSUME NEW t \in Thread, Awake(t, s), Range(waiters'[s]) \subseteq Range(waiters[s])
        PROVE  Awake(t, s)' \/ (t = current /\ \E label \in Label : Down(s, label))
    BY <1>3, DownSteps, Zenon DEF Awake
  <1>4. CASE Up(s)
    <2>1. sema_up(s)
      BY <1>4, Zenon DEF Up
    <2>2. PICK h \in Thread : Wakes(s, h)
      BY <2>1, SemaUp, Zenon
    <2>3. /\ h \in Range(waiters[s]) /\ InDown(h, s) /\ Range(waiters'[s]) = Range(waiters[s]) \ {h}
      BY <2>2, Zenon DEF Wakes
    <2>4. value'[s] = value[s] + 1 /\ waiters[s] # <<>>
      BY <2>1, <2>3, SemaUp, EmptyList, Zenon
    <2>5. \A label \in Label : ~Down(s, label)
      <3>1. ASSUME NEW label \in Label, Down(s, label) PROVE FALSE
        <4>1. Sleeps(s) \/ Takes(s, label)
          BY <3>1, SemaDown, Zenon DEF Down, At
        <4>2. value' = value \/ value'[s] = value[s] - 1
          BY <4>1, Zenon DEF Sleeps, Takes
        <4>3. QED
          BY <1>0, <2>4, <4>2
      <3>2. QED
        BY <3>1, Zenon
    <2>6. A \cup {h} \subseteq B /\ h \notin A
      <3>1. A \subseteq B
        BY <1>3, <2>3, <2>5, Zenon
      <3>2. InDown(h, s)'
        BY <2>3, <2>5, DownSteps, Zenon
      <3>3. Awake(h, s)' /\ ~Awake(h, s)
        BY <2>3, <3>2, Zenon DEF Awake
      <3>4. QED
        BY <3>1, <3>3, Zenon
    <2>7. Cardinality(A \cup {h}) = Cardinality(A) + 1
      BY <1>1, <2>6, FS_AddElement, Zenon
    <2>8. Cardinality(A) + 1 <= Cardinality(B)
      BY <1>1, <2>6, <2>7, Zenon
    <2> HIDE DEF A, B
    <2>9. value'[s] <= Cardinality(B)
      BY <1>n, <1>2, <2>4, <2>8
    <2>10. QED
      BY <2>9, Zenon DEF B
  <1>5. ASSUME NEW label \in Label, Down(s, label)
        PROVE  value'[s] <= Cardinality(B)
    <2>1. CASE Sleeps(s)
      <3>1. value'[s] = 0
        BY <2>1, Zenon DEF Sleeps
      <3> HIDE DEF A, B
      <3>2. QED
        BY <1>n, <3>1
    <2>2. CASE Takes(s, label)
      <3>1. value'[s] = value[s] - 1 /\ value[s] > 0 /\ waiters' = waiters
        BY <2>2, Zenon DEF Takes
      <3>2. A \ {current} \subseteq B
        BY <1>3, <3>1, Zenon
      <3>3. Cardinality(A \ {current}) = IF current \in A THEN Cardinality(A) - 1 ELSE Cardinality(A)
        <4> HIDE DEF A
        <4>1. QED
          BY <1>1, FS_RemoveElement, Zenon
      <3>4. Cardinality(A \ {current}) <= Cardinality(B)
        BY <1>1, <3>2, Zenon
      <3>5. Cardinality(A \ {current}) \in Nat
        BY <1>1, FS_RemoveElement, FS_CardinalityType, Zenon
      <3>6. value[s] <= Cardinality(A)
        BY <1>2, <3>1, Zenon
      <3> HIDE DEF A, B
      <3>7. QED
        BY <1>n, <3>1, <3>3, <3>4, <3>5, <3>6
    <2>3. Sleeps(s) \/ Takes(s, label)
      BY <1>5, SemaDown, Zenon DEF Down, At
    <2>4. QED
      BY <2>1, <2>2, <2>3, Zenon
  <1>6. CASE ~Up(s) /\ \A label \in Label : ~Down(s, label)
    <2>1. value'[s] <= value[s] /\ waiters'[s] = waiters[s]
      BY <1>6, OtherSteps, Zenon
    <2>2. A \subseteq B
      BY <1>3, <1>6, <2>1, Zenon
    <2>3. Cardinality(A) <= Cardinality(B) /\ value[s] <= Cardinality(A)
      BY <1>1, <1>2, <2>1, <2>2, Zenon
    <2> HIDE DEF A, B
    <2>4. value'[s] <= Cardinality(B)
      BY <1>n, <2>1, <2>3
    <2>5. QED
      BY <2>4, Zenon DEF B
  <1>7. QED
    BY <1>4, <1>5, <1>6, Zenon

-----------------------------------------------------------------------------
(* The theorems.                                                           *)

\* Every step keeps the invariant.
LEMMA SynchInductive == SynchInv /\ [SynchNext]_vars => SynchInv'
  <1> SUFFICES ASSUME SynchInv, [SynchNext]_vars PROVE SynchInv'
    OBVIOUS
  <1>1. SchedInv'
    BY SchedulerKept, Zenon
  <1>2. CASE CallStep
    BY <1>1, <1>2, TypesKept, OperandsKept, AliveKept, NewKept, CondListsKept, TidsKept, LocksKept,
       WaitersKept, ListsKept, BlockedKept, WakeupsStay, Zenon DEF SynchInv
  <1>3. CASE SynchBoot \/ SynchIdle \/ SynchTimer \/ call_thread_yield \/ call_thread_exit
               \/ \E lv \in BOOLEAN : call_intr_set_level(lv)
    <2>1. CASE boot = "done"
      <3>1. ~SynchBoot
        BY <2>1, Zenon DEF SynchBoot, Boot, thread_start_create, thread_start_enable, thread_start_wait
      <3>2. QED
        BY <1>1, <1>3, <2>1, <3>1, SwitchesKeep, Zenon
    <2>2. CASE boot # "done"
      <3>1. ~call_thread_yield /\ ~call_thread_exit /\ \A lv \in BOOLEAN : ~call_intr_set_level(lv)
        BY <2>2, ClientFacts, Zenon DEF call_thread_yield, call_thread_exit, call_intr_set_level, Call, At
      <3>2. QED
        BY <1>1, <1>3, <2>2, <3>1, BootKeeps, Zenon
    <2>3. QED
      BY <2>1, <2>2, Zenon
  <1>4. CASE UNCHANGED vars
    <2>1. UNCHANGED <<status, boot, value, waiters, holder, cond_waiters, pc, arg, cv, old_level, tid,
                      next_tid, new>>
      BY <1>4, Zenon DEF vars, schedvars, synchvars
    <2>2. /\ SynchTypeOK /\ TidRead /\ CallersAlive /\ NewOK /\ TidsUnique /\ WaitListsExact
          /\ BlockedListed
      BY Zenon DEF SynchInv
    <2>3. SynchTypeOK'
      BY <2>1, <2>2, Zenon DEF SynchTypeOK
    <2>4. TidRead' /\ CallersAlive' /\ TidsUnique' /\ BlockedListed'
      BY <2>1, <2>2, Zenon DEF TidRead, CallersAlive, TidsUnique, BlockedListed
    <2>5. NewOK' /\ WaitListsExact'
      BY <2>1, <2>2 DEF NewOK, Creating, WaitListsExact, InDown
    <2>6. QED
      BY <1>1, <2>1, <2>3, <2>4, <2>5, CallsFrame, Zenon DEF SynchInv
  <1>5. QED
    BY <1>2, <1>3, <1>4, StepKinds, Zenon

\* SynchInv is an invariant for every number of threads, semaphores, locks and
\* condition variables, every set of calls that clients make and every
\* interleaving of them with the timer and with interrupt handlers.
THEOREM SynchInvariant == SynchSpec => []SynchInv
  BY SynchInitial, SynchInductive, PTL DEF SynchSpec

\* Mutual exclusion, and lock_held_by_current_thread() is right.
THEOREM SynchLockExclusion == SynchSpec => []LockExclusion
  BY SynchInvariant, PTL DEF SynchInv

\* No condition variable and no signaller points to a semaphore_elem whose
\* cond_wait() has returned.
THEOREM SynchWaiterAlive == SynchSpec => []WaiterAlive
  BY SynchInvariant, PTL DEF SynchInv

\* Wait lists are exact, no thread sleeps where nobody finds it, and no wakeup
\* is lost.
THEOREM SynchSleepersListed == SynchSpec => []SleepersListed
  BY SynchInvariant, PTL DEF SynchInv, SleepersListed

\* allocate_tid() gives every thread a tid of its own.
THEOREM SynchTidsUnique == SynchSpec => []TidsUnique
  BY SynchInvariant, PTL DEF SynchInv

\* Whatever calls clients make, the scheduler only sees what its preconditions
\* allow: Synch implements Scheduler.
THEOREM SynchImplementsScheduler == SynchSpec => ImplementsScheduler
  <1>1. SynchInit => SchedInit
    BY Zenon DEF SynchInit
  <1>2. SynchInv /\ [SynchNext]_vars => [SchedNext]_schedvars
    BY SchedulerStep, Zenon DEF vars
  <1>3. QED
    BY <1>1, <1>2, SynchInvariant, PTL DEF SynchSpec, SchedSpec, ImplementsScheduler

\* What is proved of the scheduler therefore holds under every client: its state
\* is consistent, no thread that still runs or waits is freed, and the ready
\* queue is first come, first served.
THEOREM ClientsKeepScheduler == SynchSpec => []SchedSafe /\ NoRugPulled /\ NoOvertaking
  BY SynchImplementsScheduler, SchedSafety, NoRugIsPulled, Fifo, PTL DEF ImplementsScheduler

-----------------------------------------------------------------------------
(* The monitor that a lock and its condition variables implement.          *)

\* The last element of a list, and the list without it.
LEMMA LastElement ==
    ASSUME NEW S, NEW s \in Seq(S), s # <<>>
    PROVE  /\ s[Len(s)] \in S /\ s[Len(s)] \in Range(s)
           /\ SubSeq(s, 1, Len(s) - 1) \in Seq(S)
           /\ Range(SubSeq(s, 1, Len(s) - 1)) \subseteq Range(s)
           /\ Append(SubSeq(s, 1, Len(s) - 1), s[Len(s)]) = s
  <1>1. Len(s) \in Nat /\ Len(s) > 0 /\ DOMAIN s = 1 .. Len(s)
    OBVIOUS
  <1>2. s[Len(s)] \in S /\ s[Len(s)] \in Range(s)
    BY <1>1 DEF Range
  <1> DEFINE f == SubSeq(s, 1, Len(s) - 1)
  <1>3. /\ f \in Seq(S) /\ Len(f) = Len(s) - 1 /\ DOMAIN f = 1 .. Len(s) - 1
        /\ \A i \in 1 .. Len(s) - 1 : f[i] = s[i]
    BY <1>1
  <1> HIDE DEF f
  <1>4. Range(f) \subseteq Range(s)
    BY <1>1, <1>3 DEF Range
  <1>5. Append(f, s[Len(s)]) = s
    <2> DEFINE g == Append(f, s[Len(s)])
    <2>1. /\ g \in Seq(S) /\ Len(g) = Len(s)
          /\ \A i \in 1 .. Len(s) : g[i] = s[i]
      <3>1. /\ g \in Seq(S) /\ Len(g) = Len(f) + 1 /\ g[Len(f) + 1] = s[Len(s)]
            /\ \A i \in 1 .. Len(f) : g[i] = f[i]
        BY <1>2, <1>3
      <3> HIDE DEF g
      <3>2. QED
        BY <1>1, <1>3, <3>1
    <2> HIDE DEF g
    <2>2. g = s
      BY <2>1
    <2>3. QED
      BY <2>2, Zenon DEF g
  <1>6. QED
    BY <1>2, <1>3, <1>4, <1>5, Zenon DEF f

\* The list to which a thread has been appended.
LEMMA Appended ==
    ASSUME NEW S, NEW s \in Seq(S), NEW e \in S
    PROVE  /\ Append(s, e) # <<>> /\ Append(s, e)[Len(Append(s, e))] = e
           /\ SubSeq(Append(s, e), 1, Len(Append(s, e)) - 1) = s
  OBVIOUS

\* At most one thread has a lock.
LEMMA OneHas ==
    ASSUME SynchInv
    PROVE  \A l \in Lock, t, u \in Thread : Has(t, l) /\ Has(u, l) => t = u
  BY Zenon DEF SynchInv, LockExclusion

\* A thread that joined a list and still has the lock.
LEMMA WaiterHas ==
    ASSUME SynchInv, NEW t \in Thread, pc[t] \in {"wait_release", "wait_up"}
    PROVE  arg[t] \in Lock \ {tid_lock} /\ Has(t, arg[t])
  BY Zenon DEF SynchInv, CallOK, Has

\* Whoever has the lock finds that the waiters have released it.
LEMMA WaitersReleased ==
    ASSUME SynchInv, NEW c \in Cond, NEW h \in Thread, Has(h, LockOf[c]), ~InWait(h)
    PROVE  \A t \in Range(cond_waiters[c]) : pc[t] = "wait_down"
  <1> SUFFICES ASSUME NEW t \in Range(cond_waiters[c]), pc[t] # "wait_down" PROVE FALSE
    OBVIOUS
  <1>1. t \in Thread /\ InWait(t) /\ arg[t] = LockOf[c] /\ LockOf[c] \in Lock
    BY CondFacts, CondTypes, Zenon
  <1>2. Has(t, LockOf[c])
    BY <1>1, WaiterHas, Zenon DEF InWait
  <1>3. t = h
    BY <1>1, <1>2, OneHas, Zenon
  <1>4. QED
    BY <1>1, <1>3, Zenon

\* The steps that change a condition variable's list.
LEMMA ListSteps ==
    ASSUME CallStep
    PROVE  \/ cond_waiters' = cond_waiters
           \/ \E c \in Cond : call_cond_wait(c)
           \/ \E c \in Cond, label \in Label : Pop(c, label)
  BY BeginFacts, WorkFacts, Zenon DEF CallStep, start, call_thread_create, Down, Up

\* How a thread comes to be in cond_wait() with the lock: it has called it, or
\* was there before.
LEMMA HoldsOn ==
    ASSUME SynchInv, CallStep, pc'[current] \in {"wait_release", "wait_up"}
    PROVE  \/ \E c \in Cond : call_cond_wait(c)
           \/ /\ pc[current] \in {"wait_release", "wait_up"}
              /\ arg'[current] = arg[current] /\ cond_waiters' = cond_waiters
  <1>0. pc \in [Thread -> Label] /\ current \in Thread
    BY Zenon DEF SynchInv, SynchTypeOK, SchedInv, SchedTypeOK
  <1>1. CASE Begin
    BY <1>0, <1>1, Zenon DEF Begin, call_sema_down, sema_try_down, call_lock_acquire,
       call_lock_try_acquire, call_lock_release, call_cond_broadcast, Call, At, Goto
  <1>2. CASE Work
    BY <1>0, <1>2, Zenon DEF Work, acquired, wait_release, broadcast_end, tid_read, tid_inc, tid_release, At, Goto
  <1>3. CASE start \/ \E t \in Thread : call_thread_create(t)
    BY <1>0, <1>3, Zenon DEF start, call_thread_create, Goto
  <1>4. CASE \E c \in Cond, label \in Label : Pop(c, label)
    BY <1>0, <1>4, Zenon DEF Pop, Goto
  <1>5. ASSUME NEW s \in Semaphore, NEW label \in Label, Down(s, label)
        PROVE  /\ pc[current] \in {"wait_release", "wait_up"}
               /\ arg'[current] = arg[current] /\ cond_waiters' = cond_waiters
    <2>1. Sleeps(s) \/ Takes(s, label)
      BY <1>5, SemaDown, Zenon DEF Down, At
    <2>2. QED
      BY <1>0, <1>5, <2>1, Zenon DEF Down, At, Sleeps, Takes, Goto
  <1>6. CASE \E s \in Semaphore : Up(s)
    BY <1>0, <1>6, Zenon DEF Up, At, Goto
  <1>7. QED
    BY <1>1, <1>2, <1>3, <1>4, <1>5, <1>6, Zenon DEF CallStep

\* A thread is the last of its list until it has released the lock.
LEMMA WaitsLastKept ==
    ASSUME SynchInv, WaitsLast, CallStep
    PROVE  WaitsLast'
  <1>0. /\ current \in Thread /\ cond_waiters \in [Cond -> Seq(Thread)]
        /\ pc \in [Thread -> Label] /\ arg \in [Thread -> Semaphore \cup {NULL}]
    BY Zenon DEF SynchInv, SynchTypeOK, SchedInv, SchedTypeOK
  <1> SUFFICES ASSUME NEW t \in Thread, pc'[t] \in {"wait_release", "wait_up"}
               PROVE  \E c \in Cond : /\ LockOf[c] = arg'[t] /\ cond_waiters'[c] # <<>>
                                      /\ cond_waiters'[c][Len(cond_waiters'[c])] = t
    BY Zenon DEF WaitsLast
  <1>1. ASSUME pc[t] \in {"wait_release", "wait_up"}, arg'[t] = arg[t],
               \A c \in Cond : LockOf[c] = arg[t] => cond_waiters'[c] = cond_waiters[c]
        PROVE  \E c \in Cond : /\ LockOf[c] = arg'[t] /\ cond_waiters'[c] # <<>>
                               /\ cond_waiters'[c][Len(cond_waiters'[c])] = t
    BY <1>1, Zenon DEF WaitsLast
  <1>2. ASSUME NEW c \in Cond, call_cond_wait(c) \/ \E label \in Label : Pop(c, label)
        PROVE  /\ holder[LockOf[c]] = current /\ ~InWait(current)
               /\ \A d \in Cond \ {c} : cond_waiters'[d] = cond_waiters[d]
    BY <1>0, <1>2, Zenon DEF call_cond_wait, Pop, Call, At, lock_held_by_current_thread, InWait
  <1>3. CASE t # current
    <2>1. pc'[t] = pc[t] /\ arg'[t] = arg[t]
      BY <1>3, CurrentOnly, Zenon
    <2>2. Has(t, arg[t]) /\ arg[t] \in Lock
      BY <2>1, WaiterHas, Zenon
    <2>3. \A c \in Cond : LockOf[c] = arg[t] =>
            ~call_cond_wait(c) /\ \A label \in Label : ~Pop(c, label)
      <3>1. holder[arg[t]] # current
        BY <1>0, <1>3, <2>2, OneHas, Zenon DEF Has
      <3>2. \A c \in Cond : LockOf[c] = arg[t] => holder[LockOf[c]] # current
        BY <3>1
      <3>3. QED
        BY <1>2, <3>2, Zenon
    <2>4. \A c \in Cond : LockOf[c] = arg[t] => cond_waiters'[c] = cond_waiters[c]
      BY <1>2, <2>3, ListSteps, Zenon
    <2>5. QED
      BY <1>1, <2>1, <2>4, Zenon
  <1>4. CASE t = current
    <2>1. CASE \E c \in Cond : call_cond_wait(c)
      <3>1. PICK c \in Cond : call_cond_wait(c)
        BY <2>1, Zenon
      <3>2. /\ cond_waiters'[c] = Append(cond_waiters[c], t) /\ arg'[t] = LockOf[c]
            /\ cond_waiters[c] \in Seq(Thread)
        BY <1>0, <1>4, <3>1, Zenon DEF call_cond_wait
      <3>3. cond_waiters'[c] # <<>> /\ cond_waiters'[c][Len(cond_waiters'[c])] = t
        BY <3>2, Appended
      <3>4. QED
        BY <3>2, <3>3, Zenon
    <2>2. CASE ~\E c \in Cond : call_cond_wait(c)
      <3>1. pc[t] \in {"wait_release", "wait_up"} /\ arg'[t] = arg[t] /\ cond_waiters' = cond_waiters
        BY <1>0, <1>4, <2>2, HoldsOn, Zenon
      <3>2. QED
        BY <1>1, <3>1, Zenon
    <2>3. QED
      BY <2>1, <2>2, Zenon
  <1>5. QED
    BY <1>3, <1>4, Zenon

\* t is among the threads that wait to enter the monitor of l.
Contends(t, l) ==
    /\ arg[t] = l
    /\ \/ pc[t] = "acquire"
       \/ pc[t] = "wait_down" /\ \A c \in CondsOf(l) : t \notin Range(cond_waiters[c])

\* What a step does to the monitor's owner depends on the current thread only.
LEMMA OwnerCases ==
    ASSUME SynchInv, LockExclusion', CallStep, NEW l \in Lock, NEW me \in Thread, me = current
    PROVE  /\ Has(me, l) => OwnerOf(l) = me
           /\ ~Has(me, l) => OwnerOf(l) # me
           /\ (Has(me, l)' <=> Has(me, l)) => OwnerOf(l)' = OwnerOf(l)
           /\ ~Has(me, l) /\ Has(me, l)' => OwnerOf(l) = NULL /\ OwnerOf(l)' = me
           /\ Has(me, l) /\ ~Has(me, l)' => OwnerOf(l)' = NULL
  <1>0. me \in Thread /\ NULL \notin Thread
    BY SchedulerAssumption, Zenon
  <1>1. /\ \A t \in Thread : Has(t, l) => OwnerOf(l) = t
        /\ (\A t \in Thread : ~Has(t, l)) => OwnerOf(l) = NULL
    BY OneHas, Zenon DEF OwnerOf
  <1>2. \A t, u \in Thread : Has(t, l)' /\ Has(u, l)' => t = u
    BY Zenon DEF LockExclusion
  <1>3. /\ \A t \in Thread : Has(t, l)' => OwnerOf(l)' = t
        /\ (\A t \in Thread : ~Has(t, l)') => OwnerOf(l)' = NULL
    BY <1>2, Zenon DEF OwnerOf
  <1>4. \A t \in Thread : t # me => (Has(t, l)' <=> Has(t, l))
    BY CurrentOnly, Zenon DEF Has
  <1>5. \A t, u \in Thread : Has(t, l) /\ Has(u, l) => t = u
    BY OneHas, Zenon
  <1>6. (~Has(me, l) => OwnerOf(l) # me) /\ (Has(me, l) => OwnerOf(l) = me)
    BY <1>0, <1>1, Zenon
  <1>7. ASSUME Has(me, l)' <=> Has(me, l) PROVE OwnerOf(l)' = OwnerOf(l)
    <2>1. \A t \in Thread : Has(t, l)' <=> Has(t, l)
      BY <1>4, <1>7, Zenon
    <2>2. QED
      BY <1>1, <1>3, <2>1, Zenon
  <1>8. ASSUME ~Has(me, l), Has(me, l)' PROVE OwnerOf(l) = NULL /\ OwnerOf(l)' = me
    <2>1. \A t \in Thread : ~Has(t, l)
      BY <1>0, <1>2, <1>4, <1>8, Zenon
    <2>2. QED
      BY <1>0, <1>1, <1>3, <1>8, <2>1, Zenon
  <1>9. ASSUME Has(me, l), ~Has(me, l)' PROVE OwnerOf(l)' = NULL
    <2>1. \A t \in Thread : ~Has(t, l)'
      BY <1>0, <1>4, <1>5, <1>9, Zenon
    <2>2. QED
      BY <1>3, <2>1, Zenon
  <1>10. QED
    BY <1>6, <1>7, <1>8, <1>9, Zenon

\* And so does what it does to the threads that contend, as long as no other
\* thread is taken off a list.
LEMMA EntryCases ==
    ASSUME SynchInv, CallStep, NEW l \in Lock, NEW me \in Thread, me = current,
           \A c \in CondsOf(l), t \in Thread \ {me} :
               t \in Range(cond_waiters'[c]) <=> t \in Range(cond_waiters[c])
    PROVE  /\ me \in EntryOf(l) <=> Contends(me, l)
           /\ (Contends(me, l)' <=> Contends(me, l)) => EntryOf(l)' = EntryOf(l)
           /\ Contends(me, l)' => EntryOf(l)' = EntryOf(l) \cup {me}
           /\ ~Contends(me, l)' => EntryOf(l)' = EntryOf(l) \ {me}
  <1>1. \A t \in Thread \ {me} : Contends(t, l)' <=> Contends(t, l)
    BY CurrentOnly, Zenon DEF Contends, CondsOf
  <1>2. /\ EntryOf(l) = {t \in Thread : Contends(t, l)}
        /\ EntryOf(l)' = {t \in Thread : Contends(t, l)'}
    BY Zenon DEF EntryOf, Contends
  <1>3. /\ \A t \in Thread : t \in EntryOf(l) <=> Contends(t, l)
        /\ \A t \in Thread : t \in EntryOf(l)' <=> Contends(t, l)'
        /\ EntryOf(l) \subseteq Thread /\ EntryOf(l)' \subseteq Thread
    BY <1>2, Zenon
  <1> HIDE DEF EntryOf
  <1>4. (Contends(me, l)' <=> Contends(me, l)) => EntryOf(l)' = EntryOf(l)
    BY <1>1, <1>3
  <1>5. Contends(me, l)' => EntryOf(l)' = EntryOf(l) \cup {me}
    BY <1>1, <1>3
  <1>6. ~Contends(me, l)' => EntryOf(l)' = EntryOf(l) \ {me}
    BY <1>1, <1>3
  <1>7. QED
    BY <1>3, <1>4, <1>5, <1>6, Zenon

\* The queues stay as they are unless a list changes, or a thread on a list
\* comes to wait.
LEMMA WaitqSame ==
    ASSUME SynchInv, CallStep, NEW c \in Cond, cond_waiters'[c] = cond_waiters[c],
           current \in Range(cond_waiters[c]) => (pc'[current] = "wait_down" <=> pc[current] = "wait_down")
    PROVE  Waits(cond_waiters[c])' = Waits(cond_waiters[c])
  <1>1. cond_waiters[c] \in Seq(Thread) /\ current \in Thread
    BY CondTypes, Zenon
  <1>2. CASE cond_waiters[c] = <<>>
    BY <1>2, Zenon DEF Waits
  <1>3. CASE cond_waiters[c] # <<>>
    <2> DEFINE t == cond_waiters[c][Len(cond_waiters[c])]
    <2>1. t \in Thread /\ t \in Range(cond_waiters[c])
      BY <1>1, <1>3, LastElement, Zenon
    <2>2. pc'[t] = "wait_down" <=> pc[t] = "wait_down"
      BY <2>1, CurrentOnly, Zenon
    <2>3. QED
      BY <1>3, <2>2, Zenon DEF Waits
  <1>4. QED
    BY <1>2, <1>3, Zenon


\* A thread that begins a call is on no list.
LEMMA CallerOutside ==
    ASSUME SynchInv, NEW l \in Lock, NEW t \in Thread, ~InWait(t), pc[t] # "acquire"
    PROVE  /\ ~Contends(t, l)
           /\ \A c \in Cond : t \notin Range(cond_waiters[c])
           /\ \A c \in CondsOf(l) : t \notin Range(WaitqOf(l)[c])
  <1>1. ~Contends(t, l)
    BY Zenon DEF Contends, InWait
  <1>2. \A c \in Cond : t \notin Range(cond_waiters[c])
    BY CondFacts, Zenon
  <1>3. ASSUME NEW c \in CondsOf(l) PROVE t \notin Range(WaitqOf(l)[c])
    <2>1. c \in Cond /\ cond_waiters[c] \in Seq(Thread)
      BY CondTypes, Zenon DEF CondsOf
    <2>2. Range(Waits(cond_waiters[c])) \subseteq Range(cond_waiters[c])
      BY <2>1, LastElement, Zenon DEF Waits
    <2>3. QED
      BY <1>2, <2>1, <2>2, Zenon DEF WaitqOf
  <1>4. QED
    BY <1>1, <1>2, <1>3, Zenon

\* A step that changes no list, after which a thread on a list waits if it did
\* before, leaves the queues as they are.
LEMMA QueuesStay ==
    ASSUME SynchInv, CallStep, NEW l \in Lock, NEW me \in Thread, me = current, cond_waiters' = cond_waiters,
           (\E c \in Cond : me \in Range(cond_waiters[c])) => (pc'[me] = "wait_down" <=> pc[me] = "wait_down")
    PROVE  /\ WaitqOf(l)' = WaitqOf(l)
           /\ \A c \in CondsOf(l), t \in Thread \ {current} :
                t \in Range(cond_waiters'[c]) <=> t \in Range(cond_waiters[c])
  <1>1. \A c \in CondsOf(l) : c \in Cond
    BY Zenon DEF CondsOf
  <1>2. \A c \in CondsOf(l) : Waits(cond_waiters[c])' = Waits(cond_waiters[c])
    BY <1>1, WaitqSame, Zenon
  <1>3. QED
    BY <1>2, Zenon DEF WaitqOf

\* A step of the monitor of l, or none.
MonitorStep == Mon!MonitorNext \/ UNCHANGED <<OwnerOf(monitor), EntryOf(monitor), WaitqOf(monitor)>>

\* A step that concerns neither the lock nor its condition variables.
LEMMA MonitorStays ==
    ASSUME SynchInv, LockExclusion', CallStep, monitor \in Lock \ {tid_lock},
           NEW me \in Thread, me = current, cond_waiters' = cond_waiters,
           (\E c \in Cond : me \in Range(cond_waiters[c])) => (pc'[me] = "wait_down" <=> pc[me] = "wait_down"),
           Has(me, monitor)' <=> Has(me, monitor), Contends(me, monitor)' <=> Contends(me, monitor)
    PROVE  MonitorStep
  <1>1. OwnerOf(monitor)' = OwnerOf(monitor)
    BY OwnerCases, Zenon
  <1>2. /\ WaitqOf(monitor)' = WaitqOf(monitor)
        /\ \A c \in CondsOf(monitor), t \in Thread \ {current} :
                t \in Range(cond_waiters'[c]) <=> t \in Range(cond_waiters[c])
    BY QueuesStay, Zenon
  <1>3. EntryOf(monitor)' = EntryOf(monitor)
    BY <1>2, EntryCases, Zenon
  <1>4. QED
    BY <1>1, <1>2, <1>3, Zenon DEF MonitorStep

\* lock_acquire() asks to enter, lock_try_acquire() enters at once, and
\* cond_wait() stays inside when it joins the list.
LEMMA BeginMonitor ==
    ASSUME SynchInv, WaitsLast, LockExclusion', Begin, monitor \in Lock \ {tid_lock}
    PROVE  MonitorStep
  <1>0. /\ current \in Thread /\ pc \in [Thread -> Label] /\ arg \in [Thread -> Semaphore \cup {NULL}]
        /\ cond_waiters \in [Cond -> Seq(Thread)] /\ CallStep /\ pc[current] = "client" /\ NULL \notin Thread
        /\ holder \in [Lock -> Thread \cup {NULL}] /\ Sema \cap Lock = {}
    BY BeginFacts, SchedulerAssumption, SynchAssumption, Zenon
       DEF SynchInv, SynchTypeOK, SchedInv, SchedTypeOK, CallStep
  <1> SUFFICES ASSUME NEW t \in Thread, t = current PROVE MonitorStep
    BY <1>0, Zenon
  <1>1. /\ ~Contends(t, monitor) /\ (Has(t, monitor) <=> holder[monitor] = t)
        /\ \A c \in Cond : t \notin Range(cond_waiters[c])
        /\ \A c \in CondsOf(monitor) : t \notin Range(WaitqOf(monitor)[c])
    BY <1>0, CallerOutside, Zenon DEF InWait, Has
  <1>10. ~Mon!Waiting(t)
    BY <1>1, Zenon DEF Mon!Waiting, Mon!Range, Range
  <1>2. ASSUME cond_waiters' = cond_waiters
        PROVE  /\ WaitqOf(monitor)' = WaitqOf(monitor)
               /\ Contends(t, monitor)' => EntryOf(monitor)' = EntryOf(monitor) \cup {t}
               /\ ~Contends(t, monitor)' => EntryOf(monitor)' = EntryOf(monitor)
               /\ t \notin EntryOf(monitor)
    <2>1. /\ WaitqOf(monitor)' = WaitqOf(monitor)
          /\ \A c \in CondsOf(monitor), u \in Thread \ {current} :
                u \in Range(cond_waiters'[c]) <=> u \in Range(cond_waiters[c])
      BY <1>0, <1>1, <1>2, QueuesStay, Zenon
    <2>2. QED
      BY <1>0, <1>1, <2>1, EntryCases, Zenon
  <1>3. CASE \E s \in Sema : call_sema_down(s) \/ sema_try_down(s)
    <2>1. /\ cond_waiters' = cond_waiters /\ holder' = holder /\ pc'[t] \in {"client", "down"}
      BY <1>0, <1>3, Zenon DEF call_sema_down, sema_try_down, Goto
    <2>2. ~Contends(t, monitor)' /\ (Has(t, monitor)' <=> Has(t, monitor))
      BY <1>1, <2>1, Zenon DEF Contends, Has
    <2>3. QED
      BY <1>0, <1>1, <2>1, <2>2, MonitorStays, Zenon
  <1>4. ASSUME NEW m \in Lock \ {tid_lock}, call_lock_acquire(m) PROVE MonitorStep
    <2>1. /\ cond_waiters' = cond_waiters /\ holder' = holder /\ pc'[t] = "acquire" /\ arg'[t] = m
          /\ holder[m] # t
      BY <1>0, <1>4, Zenon DEF call_lock_acquire, lock_held_by_current_thread, Goto
    <2>2. (Contends(t, monitor)' <=> m = monitor) /\ (Has(t, monitor)' <=> Has(t, monitor))
      BY <1>1, <2>1, Zenon DEF Contends, Has
    <2>3. CASE m # monitor
      BY <1>0, <1>1, <2>1, <2>2, <2>3, MonitorStays, Zenon
    <2>4. CASE m = monitor
      <3>1. OwnerOf(monitor)' = OwnerOf(monitor) /\ OwnerOf(monitor) # t
        BY <1>0, <1>1, <2>1, <2>2, <2>4, OwnerCases, Zenon
      <3>2. Mon!Request(t)
        BY <1>2, <1>10, <2>1, <2>2, <2>4, <3>1, Zenon DEF Mon!Request, Mon!Outside
      <3>3. QED
        BY <3>2, Zenon DEF MonitorStep, Mon!MonitorNext
    <2>5. QED
      BY <2>3, <2>4, Zenon
  <1>5. ASSUME NEW m \in Lock \ {tid_lock}, call_lock_try_acquire(m) PROVE MonitorStep
    <2>1. /\ cond_waiters' = cond_waiters /\ holder' = holder /\ pc'[t] = "acquired" /\ arg'[t] = m
          /\ holder[m] # t
      BY <1>0, <1>5, Zenon DEF call_lock_try_acquire, lock_held_by_current_thread, Goto
    <2>2. ~Contends(t, monitor)' /\ (Has(t, monitor)' <=> Has(t, monitor) \/ m = monitor)
      BY <1>1, <2>1, Zenon DEF Contends, Has
    <2>3. CASE m # monitor
      BY <1>0, <1>1, <2>1, <2>2, <2>3, MonitorStays, Zenon
    <2>4. CASE m = monitor
      <3>1. OwnerOf(monitor) = NULL /\ OwnerOf(monitor)' = t /\ OwnerOf(monitor) # t
        BY <1>0, <1>1, <2>1, <2>2, <2>4, OwnerCases, Zenon
      <3>2. Mon!TryEnter(t)
        BY <1>2, <1>10, <2>1, <2>2, <3>1, Zenon DEF Mon!TryEnter, Mon!Outside
      <3>3. QED
        BY <3>2, Zenon DEF MonitorStep, Mon!MonitorNext
    <2>5. QED
      BY <2>3, <2>4, Zenon
  <1>6. ASSUME NEW m \in Lock \ {tid_lock}, call_lock_release(m) PROVE MonitorStep
    <2>1. /\ cond_waiters' = cond_waiters /\ holder' = [holder EXCEPT ![m] = NULL] /\ pc'[t] = "release"
          /\ arg'[t] = m /\ holder[m] = t
      BY <1>0, <1>6, Zenon DEF call_lock_release, lock_held_by_current_thread, Goto
    <2>2. holder'[monitor] = IF monitor = m THEN NULL ELSE holder[monitor]
      BY <1>0, <2>1, Zenon
    <2>3. ~Contends(t, monitor)' /\ (Has(t, monitor)' <=> Has(t, monitor))
      BY <1>0, <1>1, <2>1, <2>2, Zenon DEF Contends, Has
    <2>4. QED
      BY <1>0, <1>1, <2>1, <2>3, MonitorStays, Zenon
  <1>7. ASSUME NEW c \in Cond, call_cond_broadcast(c) PROVE MonitorStep
    <2>1. /\ cond_waiters' = cond_waiters /\ holder' = holder /\ pc'[t] = "broadcast"
      BY <1>0, <1>7, Zenon DEF call_cond_broadcast, Goto
    <2>2. ~Contends(t, monitor)' /\ (Has(t, monitor)' <=> Has(t, monitor))
      BY <1>1, <2>1, Zenon DEF Contends, Has
    <2>3. QED
      BY <1>0, <1>1, <2>1, <2>2, MonitorStays, Zenon
  <1>8. ASSUME NEW c \in Cond, call_cond_wait(c) PROVE MonitorStep
    <2>1. /\ cond_waiters' = [cond_waiters EXCEPT ![c] = Append(@, t)] /\ holder' = holder
          /\ pc'[t] = "wait_release" /\ holder[LockOf[c]] = t
      BY <1>0, <1>8, Zenon DEF call_cond_wait, lock_held_by_current_thread, Goto
    <2>2. ~Contends(t, monitor)' /\ (Has(t, monitor)' <=> Has(t, monitor))
      BY <1>1, <2>1, Zenon DEF Contends, Has
    <2>3. OwnerOf(monitor)' = OwnerOf(monitor)
      BY <1>0, <2>2, OwnerCases, Zenon
    <2> DEFINE s == cond_waiters[c]
    <2>4. /\ s \in Seq(Thread) /\ IsInjective(s) /\ t \notin Range(s)
          /\ cond_waiters'[c] = Append(s, t)
          /\ \A d \in Cond \ {c} : cond_waiters'[d] = cond_waiters[d]
      BY <1>0, <1>1, <2>1, CondTypes, Zenon
    <2>5. Range(cond_waiters'[c]) = Range(s) \cup {t}
      BY <2>4, PushBack
    <2>6. EntryOf(monitor)' = EntryOf(monitor)
      <3>1. \A d \in CondsOf(monitor), u \in Thread \ {current} :
               u \in Range(cond_waiters'[d]) <=> u \in Range(cond_waiters[d])
        BY <2>4, <2>5, Zenon DEF CondsOf
      <3>2. QED
        BY <1>0, <1>1, <2>2, <3>1, EntryCases, Zenon
    <2>7. Waits(cond_waiters[c])' = s
      <3>1. /\ Append(s, t) # <<>> /\ Append(s, t)[Len(Append(s, t))] = t
            /\ SubSeq(Append(s, t), 1, Len(Append(s, t)) - 1) = s
        BY <2>4, Appended
      <3>2. QED
        BY <2>1, <2>4, <3>1, Zenon DEF Waits
    <2>8. Waits(cond_waiters[c]) = s
      <3>1. \A u \in Range(s) : pc[u] = "wait_down"
        BY <1>0, <2>1, WaitersReleased, Zenon DEF Has, InWait
      <3>2. s # <<>> => s[Len(s)] \in Range(s)
        BY <2>4, LastElement
      <3>3. QED
        BY <3>1, <3>2, Zenon DEF Waits
    <2>9. \A d \in CondsOf(monitor) : Waits(cond_waiters[d])' = Waits(cond_waiters[d])
      BY <1>0, <1>1, <2>4, <2>7, <2>8, WaitqSame, Zenon DEF CondsOf
    <2>10. WaitqOf(monitor)' = WaitqOf(monitor)
      BY <2>9, Zenon DEF WaitqOf
    <2>11. QED
      BY <2>3, <2>6, <2>10, Zenon DEF MonitorStep
  <1>9. QED
    BY <1>3, <1>4, <1>5, <1>6, <1>7, <1>8, Zenon DEF Begin

\* The steps between taking a lock's semaphore and setting its holder, or the
\* other way round, are inside the monitor; thread_create() uses another lock.
LEMMA WorkMonitor ==
    ASSUME SynchInv, LockExclusion', monitor \in Lock \ {tid_lock},
           Work \/ start \/ \E u \in Thread : call_thread_create(u)
    PROVE  MonitorStep
  <1>0. /\ current \in Thread /\ pc \in [Thread -> Label] /\ arg \in [Thread -> Semaphore \cup {NULL}]
        /\ CallStep /\ NULL \notin Thread /\ holder \in [Lock -> Thread \cup {NULL}]
    BY SchedulerAssumption, Zenon DEF SynchInv, SynchTypeOK, SchedInv, SchedTypeOK, CallStep
  <1> SUFFICES ASSUME NEW t \in Thread, t = current PROVE MonitorStep
    BY <1>0, Zenon
  <1>1. CallOK(t)
    BY Zenon DEF SynchInv
  <1>2. /\ cond_waiters' = cond_waiters
        /\ pc[t] \notin {"acquire", "wait_down"} /\ pc'[t] # "wait_down"
        /\ pc'[t] = "acquire" => arg'[t] = tid_lock
    <2>1. CASE Work
      BY <1>0, <2>1, WorkFacts, Zenon DEF Goto
    <2>2. CASE start \/ \E u \in Thread : call_thread_create(u)
      BY <1>0, <2>2, Zenon DEF start, call_thread_create, Call, At, Goto
    <2>3. QED
      BY <2>1, <2>2, Zenon
  <1>3. ~Contends(t, monitor) /\ ~Contends(t, monitor)'
    BY <1>2, Zenon DEF Contends
  <1>4. Has(t, monitor)' <=> Has(t, monitor)
    <2>1. CASE acquired
      <3>1. /\ pc[t] = "acquired" /\ pc'[t] \in {"client", "tid"} /\ arg' = arg /\ arg[t] \in Lock
            /\ holder'[monitor] = IF arg[t] = monitor THEN t ELSE holder[monitor]
        BY <1>0, <1>1, <2>1, Zenon DEF acquired, At, Goto, CallOK
      <3>2. QED
        BY <1>0, <3>1, Zenon DEF Has
    <2>2. CASE wait_release
      <3>1. /\ pc[t] = "wait_release" /\ pc'[t] = "wait_up" /\ arg' = arg /\ holder[arg[t]] = t
            /\ holder'[monitor] = IF arg[t] = monitor THEN NULL ELSE holder[monitor]
        BY <1>0, <1>1, <2>2, Zenon DEF wait_release, At, Goto, CallOK
      <3>2. QED
        BY <1>0, <3>1, Zenon DEF Has
    <2>3. CASE tid_release
      <3>1. /\ pc[t] = "tid_release" /\ pc'[t] = "release" /\ arg' = arg /\ arg[t] = tid_lock
            /\ holder'[monitor] = holder[monitor]
        BY <1>0, <1>1, <2>3, Zenon DEF tid_release, At, Goto, CallOK
      <3>2. QED
        BY <1>0, <3>1, Zenon DEF Has
    <2>4. CASE broadcast_end \/ tid_read \/ tid_inc \/ start \/ \E u \in Thread : call_thread_create(u)
      <3>1. /\ pc[t] \in {"broadcast", "tid", "tid_inc", "start", "client"} /\ holder' = holder
            /\ pc'[t] \in {"client", "tid_inc", "tid_release", "acquire"}
        BY <1>0, <2>4, Zenon DEF broadcast_end, tid_read, tid_inc, start, call_thread_create, Call, At, Goto
      <3>2. QED
        BY <1>0, <3>1, Zenon DEF Has
    <2>5. QED
      BY <2>1, <2>2, <2>3, <2>4, Zenon DEF Work
  <1>5. QED
    BY <1>0, <1>2, <1>3, <1>4, MonitorStays, Zenon

\* sema_down() of lock_acquire() enters the monitor when it takes the semaphore;
\* a waiter that takes its own semaphore goes on contending.
LEMMA DownMonitor ==
    ASSUME SynchInv, LockExclusion', monitor \in Lock \ {tid_lock},
           NEW s \in Semaphore, NEW label \in Label, Down(s, label)
    PROVE  MonitorStep
  <1>0. /\ current \in Thread /\ pc \in [Thread -> Label] /\ CallStep /\ InClient /\ NULL \notin Thread
        /\ Lock \cap Thread = {} /\ Lock \cap Sema = {}
    BY SchedulerAssumption, SynchAssumption, Zenon
       DEF SynchInv, SynchTypeOK, SchedInv, SchedTypeOK, CallStep, Down, At
  <1> SUFFICES ASSUME NEW t \in Thread, t = current PROVE MonitorStep
    BY <1>0, Zenon
  <1>1. UNCHANGED <<holder, cond_waiters, arg>> /\ CallOK(t)
    BY Zenon DEF Down, SynchInv
  <1>2. CASE Sleeps(s)
    <2>1. pc' = pc
      BY <1>2, Zenon DEF Sleeps
    <2>2. (Has(t, monitor)' <=> Has(t, monitor)) /\ (Contends(t, monitor)' <=> Contends(t, monitor))
      BY <1>1, <2>1, Zenon DEF Has, Contends
    <2>3. QED
      BY <1>0, <1>1, <2>1, <2>2, MonitorStays, Zenon
  <1>3. CASE Takes(s, label)
    <2>1. pc'[t] = label /\ value[s] > 0
      BY <1>0, <1>3, Zenon DEF Takes, Goto
    <2>2. CASE pc[t] = "down"
      <3>1. pc'[t] = "client"
        BY <2>1, <2>2, Zenon DEF Down, At
      <3>2. /\ Has(t, monitor)' <=> Has(t, monitor)
            /\ ~Contends(t, monitor)' /\ ~Contends(t, monitor)
        BY <1>1, <2>2, <3>1, Zenon DEF Has, Contends
      <3>3. QED
        BY <1>0, <1>1, <2>2, <3>1, <3>2, MonitorStays, Zenon
    <2>3. CASE pc[t] = "acquire"
      <3>1. pc'[t] = "acquired"
        BY <2>1, <2>3, Zenon DEF Down, At
      <3>2. CASE arg[t] # monitor
        <4>1. /\ Has(t, monitor)' <=> Has(t, monitor)
              /\ ~Contends(t, monitor)' /\ ~Contends(t, monitor)
          BY <1>1, <2>3, <3>1, <3>2, Zenon DEF Has, Contends
        <4>2. QED
          BY <1>0, <1>1, <2>3, <3>1, <4>1, MonitorStays, Zenon
      <3>3. CASE arg[t] = monitor
        <4>1. Has(t, monitor)' /\ Contends(t, monitor) /\ ~Contends(t, monitor)'
          BY <1>1, <2>3, <3>1, <3>3, Zenon DEF Has, Contends
        <4>2. ~Has(t, monitor)
          <5>1. s = monitor /\ value[monitor] # 0
            BY <2>1, <2>3, <3>3 DEF Down, At
          <5>2. QED
            BY <5>1, Zenon DEF SynchInv, LockExclusion
        <4>3. OwnerOf(monitor) = NULL /\ OwnerOf(monitor)' = t
          BY <1>0, <4>1, <4>2, OwnerCases, Zenon
        <4>4. /\ WaitqOf(monitor)' = WaitqOf(monitor)
              /\ \A c \in CondsOf(monitor), u \in Thread \ {current} :
                   u \in Range(cond_waiters'[c]) <=> u \in Range(cond_waiters[c])
          BY <1>0, <1>1, <2>3, <3>1, QueuesStay, Zenon
        <4>5. t \in EntryOf(monitor) /\ EntryOf(monitor)' = EntryOf(monitor) \ {t}
          BY <1>0, <4>1, <4>4, EntryCases, Zenon
        <4>6. Mon!Enter(t)
          BY <4>3, <4>4, <4>5, Zenon DEF Mon!Enter
        <4>7. QED
          BY <4>6, Zenon DEF MonitorStep, Mon!MonitorNext
      <3>4. QED
        BY <3>2, <3>3, Zenon
    <2>4. CASE pc[t] = "wait_down"
      <3>1. pc'[t] = "acquire" /\ s = t
        BY <2>1, <2>4, Zenon DEF Down, At
      <3>2. value[t] # 0
        BY <2>1, <3>1
      <3>3. \A c \in Cond : t \notin Range(cond_waiters[c])
        BY <3>2, CondFacts, Zenon
      <3>4. /\ Has(t, monitor)' <=> Has(t, monitor)
            /\ Contends(t, monitor)' <=> Contends(t, monitor)
        BY <1>1, <2>4, <3>1, <3>3, Zenon DEF Has, Contends, CondsOf
      <3>5. QED
        BY <1>0, <1>1, <3>3, <3>4, MonitorStays, Zenon
    <2>5. QED
      BY <2>2, <2>3, <2>4, Zenon DEF Down, At
  <1>4. QED
    BY <1>0, <1>2, <1>3, SemaDown, Zenon DEF Down

\* sema_up() of lock_release() leaves the monitor.  In cond_wait(), the thread
\* is the last of its list and comes to wait in the same step.
LEMMA UpMonitor ==
    ASSUME SynchInv, WaitsLast, LockExclusion', monitor \in Lock \ {tid_lock}, NEW s \in Semaphore, Up(s)
    PROVE  MonitorStep
  <1>0. /\ current \in Thread /\ pc \in [Thread -> Label] /\ CallStep /\ NULL \notin Thread
    BY SchedulerAssumption, Zenon DEF SynchInv, SynchTypeOK, SchedInv, SchedTypeOK, CallStep
  <1> SUFFICES ASSUME NEW t \in Thread, t = current PROVE MonitorStep
    BY <1>0, Zenon
  <1>1. UNCHANGED <<holder, cond_waiters, arg>> /\ CallOK(t)
    BY Zenon DEF Up, SynchInv
  <1>2. ASSUME Has(t, monitor), ~Has(t, monitor)'
        PROVE  OwnerOf(monitor) = t /\ OwnerOf(monitor)' = NULL
    BY <1>0, <1>2, OwnerCases, Zenon
  <1>3. CASE s \in Sema /\ pc' = pc
    <2>1. (Has(t, monitor)' <=> Has(t, monitor)) /\ (Contends(t, monitor)' <=> Contends(t, monitor))
      BY <1>1, <1>3, Zenon DEF Has, Contends
    <2>2. QED
      BY <1>0, <1>1, <1>3, <2>1, MonitorStays, Zenon
  <1>4. ASSUME pc[t] \in {"release", "wait_up", "signal", "broadcast_up"}, pc'[t] \in {"start", "client", "broadcast"},
               pc[t] \in {"release", "wait_up"} => arg[t] # monitor
        PROVE  MonitorStep
    <2>1. /\ Has(t, monitor)' <=> Has(t, monitor)
          /\ ~Contends(t, monitor)' /\ ~Contends(t, monitor)
      BY <1>1, <1>4, Zenon DEF Has, Contends
    <2>2. pc[t] # "wait_down" /\ pc'[t] # "wait_down"
      BY <1>4, Zenon
    <2>3. QED
      BY <1>0, <1>1, <2>1, <2>2, MonitorStays, Zenon
  <1>5. CASE pc[t] = "release" /\ pc'[t] \in {"start", "client"} /\ arg[t] = monitor
    <2>1. Has(t, monitor) /\ ~Contends(t, monitor)' /\ ~Contends(t, monitor)
      BY <1>1, <1>5, Zenon DEF Has, Contends
    <2>2. ~Has(t, monitor)'
      <3>1. holder[monitor] = NULL
        BY <1>5, Zenon DEF SynchInv, LockExclusion
      <3>2. QED
        BY <1>0, <1>1, <1>5, <3>1, Zenon DEF Has
    <2>3. /\ WaitqOf(monitor)' = WaitqOf(monitor)
          /\ \A c \in CondsOf(monitor), u \in Thread \ {current} :
               u \in Range(cond_waiters'[c]) <=> u \in Range(cond_waiters[c])
      BY <1>0, <1>1, <1>5, QueuesStay, Zenon
    <2>4. EntryOf(monitor)' = EntryOf(monitor)
      BY <1>0, <2>1, <2>3, EntryCases, Zenon
    <2>5. Mon!Leave(t)
      BY <1>2, <2>1, <2>2, <2>3, <2>4, Zenon DEF Mon!Leave
    <2>6. QED
      BY <2>5, Zenon DEF MonitorStep, Mon!MonitorNext
  <1>6. CASE pc[t] = "wait_up" /\ pc'[t] = "wait_down"
    <2>1. PICK c \in Cond : /\ LockOf[c] = arg[t] /\ cond_waiters[c] # <<>>
                             /\ cond_waiters[c][Len(cond_waiters[c])] = t
      BY <1>6, Zenon DEF WaitsLast
    <2> DEFINE q == cond_waiters[c]
               f == SubSeq(q, 1, Len(q) - 1)
    <2>2. q \in Seq(Thread) /\ t \in Range(q) /\ Append(f, t) = q
      BY <2>1, CondTypes, LastElement
    <2>3. \A d \in Cond \ {c} : t \notin Range(cond_waiters[d])
      BY <2>2, CondFacts, Zenon
    <2>4. Waits(cond_waiters[c]) = f /\ Waits(cond_waiters[c])' = Append(f, t)
      BY <1>1, <1>6, <2>1, <2>2, Zenon DEF Waits
    <2>5. \A d \in Cond \ {c} : Waits(cond_waiters[d])' = Waits(cond_waiters[d])
      BY <1>0, <1>1, <2>3, WaitqSame, Zenon
    <2> HIDE DEF q, f
    <2>6. \A d \in CondsOf(monitor), u \in Thread \ {current} :
               u \in Range(cond_waiters'[d]) <=> u \in Range(cond_waiters[d])
      BY <1>1, Zenon
    <2>7. CASE arg[t] = monitor
      <3>1. c \in CondsOf(monitor)
        BY <2>1, <2>7, Zenon DEF CondsOf
      <3>2. Has(t, monitor) /\ ~Contends(t, monitor)
        BY <1>6, <2>7, Zenon DEF Has, Contends
      <3>3. ~Contends(t, monitor)'
        BY <1>1, <1>6, <2>2, <3>1, Zenon DEF Contends, CondsOf, q
      <3>4. ~Has(t, monitor)'
        <4>1. holder[monitor] = NULL
          BY <1>6, <2>7, Zenon DEF SynchInv, LockExclusion
        <4>2. QED
          BY <1>0, <1>1, <1>6, <4>1, Zenon DEF Has
      <3>5. EntryOf(monitor)' = EntryOf(monitor)
        BY <1>0, <2>6, <3>2, <3>3, EntryCases, Zenon
      <3>6. WaitqOf(monitor)' = [WaitqOf(monitor) EXCEPT ![c] = Append(@, t)]
        <4>1. \A d \in CondsOf(monitor) : d \in Cond
          BY Zenon DEF CondsOf
        <4>2. /\ WaitqOf(monitor) = [d \in CondsOf(monitor) |-> Waits(cond_waiters[d])]
              /\ WaitqOf(monitor)' = [d \in CondsOf(monitor) |-> Waits(cond_waiters[d])']
          BY Zenon DEF WaitqOf, CondsOf
        <4>3. QED
          BY <2>4, <2>5, <3>1, <4>1, <4>2, Zenon
      <3>7. Mon!Wait(t, c)
        BY <1>2, <3>2, <3>4, <3>5, <3>6, Zenon DEF Mon!Wait
      <3>8. QED
        BY <3>1, <3>7, Zenon DEF MonitorStep, Mon!MonitorNext
    <2>8. CASE arg[t] # monitor
      <3>1. /\ Has(t, monitor)' <=> Has(t, monitor)
            /\ ~Contends(t, monitor)' /\ ~Contends(t, monitor)
        BY <1>1, <1>6, <2>8, Zenon DEF Has, Contends
      <3>2. OwnerOf(monitor)' = OwnerOf(monitor) /\ EntryOf(monitor)' = EntryOf(monitor)
        BY <1>0, <2>6, <3>1, OwnerCases, EntryCases, Zenon
      <3>3. \A d \in CondsOf(monitor) : Waits(cond_waiters[d])' = Waits(cond_waiters[d])
        BY <2>1, <2>5, <2>8, Zenon DEF CondsOf
      <3>4. WaitqOf(monitor)' = WaitqOf(monitor)
        BY <3>3, Zenon DEF WaitqOf
      <3>5. QED
        BY <3>2, <3>4, Zenon DEF MonitorStep
    <2>9. QED
      BY <2>7, <2>8, Zenon
  <1>7. \/ s \in Sema /\ pc' = pc
        \/ pc[t] = "release" /\ pc'[t] \in {"start", "client"}
        \/ pc[t] = "wait_up" /\ pc'[t] = "wait_down"
        \/ pc[t] = "signal" /\ pc'[t] = "client"
        \/ pc[t] = "broadcast_up" /\ pc'[t] = "broadcast"
    BY <1>0, Zenon DEF Up, At, Goto
  <1>8. QED
    BY <1>3, <1>4, <1>5, <1>6, <1>7, Zenon

\* cond_signal() and every round of cond_broadcast() signal: the thread that has
\* waited longest contends for the lock from then on.
LEMMA PopMonitor ==
    ASSUME SynchInv, LockExclusion', monitor \in Lock \ {tid_lock},
           NEW c \in Cond, NEW label \in Label, Pop(c, label)
    PROVE  MonitorStep
  <1>0. /\ current \in Thread /\ pc \in [Thread -> Label] /\ CallStep /\ NULL \notin Thread
        /\ arg \in [Thread -> Semaphore \cup {NULL}] /\ cond_waiters \in [Cond -> Seq(Thread)]
    BY SchedulerAssumption, Zenon DEF SynchInv, SynchTypeOK, SchedInv, SchedTypeOK, CallStep
  <1> SUFFICES ASSUME NEW t \in Thread, t = current PROVE MonitorStep
    BY <1>0, Zenon
  <1>1. /\ pc[t] \in {"client", "broadcast"} /\ pc'[t] \in {"signal", "broadcast_up"} /\ holder' = holder
        /\ holder[LockOf[c]] = t /\ cond_waiters[c] # <<>>
        /\ cond_waiters'[c] = Tail(cond_waiters[c])
        /\ \A d \in Cond \ {c} : cond_waiters'[d] = cond_waiters[d]
    BY <1>0, Zenon DEF Pop, Goto
  <1>2. /\ ~Contends(t, monitor) /\ ~Contends(t, monitor)' /\ (Has(t, monitor)' <=> Has(t, monitor))
        /\ \A d \in Cond : t \notin Range(cond_waiters[d])
    BY <1>1, CallerOutside, Zenon DEF InWait, Has, Contends
  <1>3. OwnerOf(monitor)' = OwnerOf(monitor)
    BY <1>0, <1>2, OwnerCases, Zenon
  <1> DEFINE q == cond_waiters[c]
             w == Head(q)
  <1>4. /\ w \in Range(q) /\ pc[w] = "wait_down" /\ w # t /\ w \in Thread /\ arg[w] = LockOf[c]
        /\ Range(Tail(q)) = Range(q) \ {w} /\ q \in Seq(Thread) /\ Tail(q) \in Seq(Thread)
    BY <1>0, SignalledWaits, CondFacts, CondTypes, Zenon
  <1>5. \A d \in Cond \ {c} : Waits(cond_waiters[d])' = Waits(cond_waiters[d])
    BY <1>0, <1>1, <1>2, WaitqSame, Zenon
  <1>6. Waits(cond_waiters[c]) = q /\ Waits(cond_waiters[c])' = Tail(q)
    <2>1. \A u \in Range(q) : pc[u] = "wait_down" /\ u \in Thread /\ u # t
      BY <1>1, <1>2, CondFacts, WaitersReleased, Zenon DEF InWait, Has
    <2>2. \A u \in Range(q) : pc'[u] = "wait_down"
      BY <1>0, <2>1, CurrentOnly, Zenon
    <2>3. q[Len(q)] \in Range(q) /\ (Tail(q) # <<>> => Tail(q)[Len(Tail(q))] \in Range(Tail(q)))
      BY <1>1, <1>4, LastElement
    <2>4. QED
      BY <1>1, <1>4, <2>1, <2>2, <2>3, Zenon DEF Waits
  <1> HIDE DEF q, w
  <1>7. CASE LockOf[c] # monitor
    <2>1. \A d \in CondsOf(monitor) : d \in Cond \ {c}
      BY <1>7, Zenon DEF CondsOf
    <2>2. WaitqOf(monitor)' = WaitqOf(monitor)
      BY <1>5, <2>1, Zenon DEF WaitqOf
    <2>3. EntryOf(monitor)' = EntryOf(monitor)
      <3>1. \A d \in CondsOf(monitor), u \in Thread \ {current} :
               u \in Range(cond_waiters'[d]) <=> u \in Range(cond_waiters[d])
        BY <1>1, <2>1, Zenon
      <3>2. QED
        BY <1>0, <1>2, <3>1, EntryCases, Zenon
    <2>4. QED
      BY <1>3, <2>2, <2>3, Zenon DEF MonitorStep
  <1>8. CASE LockOf[c] = monitor
    <2>1. c \in CondsOf(monitor) /\ \A d \in CondsOf(monitor) : d \in Cond
      BY <1>8, Zenon DEF CondsOf
    <2>2. /\ WaitqOf(monitor) = [d \in CondsOf(monitor) |-> Waits(cond_waiters[d])]
          /\ WaitqOf(monitor)' = [d \in CondsOf(monitor) |-> Waits(cond_waiters[d])']
      BY Zenon DEF WaitqOf, CondsOf
    <2>3. WaitqOf(monitor)[c] = q /\ WaitqOf(monitor)' = [WaitqOf(monitor) EXCEPT ![c] = Tail(@)]
      BY <1>5, <1>6, <2>1, <2>2, Zenon
    <2>4. OwnerOf(monitor) = t
      BY <1>0, <1>1, <1>8, OwnerCases, Zenon DEF Has
    <2>5. \A u \in Thread : Contends(u, monitor)' <=> Contends(u, monitor) \/ u = w
      <3>1. \A u \in Thread \ {t} : pc'[u] = pc[u] /\ arg'[u] = arg[u]
        BY <1>0, CurrentOnly, Zenon
      <3>2. \A u \in Thread \ {w}, d \in Cond : u \in Range(cond_waiters'[d]) <=> u \in Range(cond_waiters[d])
        BY <1>1, <1>4, Zenon DEF q
      <3>3. \A d \in Cond : w \notin Range(cond_waiters'[d])
        BY <1>1, <1>4, CondFacts, Zenon DEF q
      <3>4. PICK v \in Thread : v = w
        BY <1>4, Zenon
      <3>5. Contends(v, monitor)'
        <4>1. pc'[v] = "wait_down" /\ arg'[v] = monitor /\ \A d \in Cond : v \notin Range(cond_waiters'[d])
          BY <1>4, <1>8, <3>1, <3>3, <3>4, Zenon
        <4>2. QED
          BY <4>1, Zenon DEF Contends, CondsOf
      <3>6. ASSUME NEW u \in Thread \ {t, w} PROVE Contends(u, monitor)' <=> Contends(u, monitor)
        <4>1. /\ u \in Thread /\ pc'[u] = pc[u] /\ arg'[u] = arg[u]
              /\ \A d \in Cond : u \in Range(cond_waiters'[d]) <=> u \in Range(cond_waiters[d])
          BY <3>1, <3>2, <3>6, Zenon
        <4>2. QED
          BY <4>1, Zenon DEF Contends, CondsOf
      <3>7. QED
        BY <1>2, <1>4, <3>4, <3>5, <3>6, Zenon
    <2>6. EntryOf(monitor)' = EntryOf(monitor) \cup {w}
      <3>1. /\ EntryOf(monitor) = {u \in Thread : Contends(u, monitor)}
            /\ EntryOf(monitor)' = {u \in Thread : Contends(u, monitor)'}
        BY Zenon DEF EntryOf, Contends
      <3>2. QED
        BY <1>4, <2>5, <3>1, Zenon
    <2>7. Mon!Signal(t, c)
      BY <1>1, <1>3, <2>3, <2>4, <2>6, Zenon DEF Mon!Signal, q, w
    <2>8. QED
      BY <2>1, <2>7, Zenon DEF MonitorStep, Mon!MonitorNext
  <1>9. QED
    BY <1>7, <1>8, Zenon

\* A lock and its condition variables implement the monitor: in particular
\* cond_wait() releases the lock and starts to wait in one step, so that no
\* signal sent after the release is missed.
THEOREM SynchImplementsMonitor ==
    ASSUME monitor \in Lock \ {tid_lock}
    PROVE  SynchSpec => ImplementsMonitor
  <1>1. SynchInit => Mon!MonitorInit /\ WaitsLast
    <2> SUFFICES ASSUME SynchInit PROVE Mon!MonitorInit /\ WaitsLast
      OBVIOUS
    <2>1. /\ \A t \in Thread : pc[t] = "client" /\ \A l \in Lock : ~Has(t, l)
          /\ cond_waiters = [c \in Cond |-> <<>>]
      BY SchedulerAssumption, Zenon DEF SynchInit, Has
    <2>2. OwnerOf(monitor) = NULL /\ EntryOf(monitor) = {} /\ WaitsLast
      BY <2>1, Zenon DEF OwnerOf, EntryOf, WaitsLast
    <2>3. WaitqOf(monitor) = [c \in CondsOf(monitor) |-> <<>>]
      BY <2>1, Zenon DEF WaitqOf, Waits, CondsOf
    <2>4. QED
      BY <2>2, <2>3, Zenon DEF Mon!MonitorInit
  <1>2. ASSUME UNCHANGED <<holder, cond_waiters, pc, arg>>
        PROVE  /\ UNCHANGED <<OwnerOf(monitor), EntryOf(monitor), WaitqOf(monitor)>>
               /\ WaitsLast => WaitsLast'
    BY <1>2 DEF OwnerOf, Has, EntryOf, WaitqOf, Waits, CondsOf, WaitsLast
  <1>3. SynchInv /\ SynchInv' /\ WaitsLast /\ [SynchNext]_vars => WaitsLast' /\ MonitorStep
    <2> SUFFICES ASSUME SynchInv, SynchInv', WaitsLast, [SynchNext]_vars PROVE WaitsLast' /\ MonitorStep
      OBVIOUS
    <2>1. CASE CallStep
      <3>1. LockExclusion'
        BY Zenon DEF SynchInv
      <3>2. MonitorStep
        BY <2>1, <3>1, BeginMonitor, WorkMonitor, DownMonitor, UpMonitor, PopMonitor, Zenon DEF CallStep
      <3>3. QED
        BY <2>1, <3>2, WaitsLastKept, Zenon
    <2>2. CASE \/ SynchBoot \/ SynchIdle \/ SynchTimer \/ call_thread_yield \/ call_thread_exit
               \/ (\E lv \in BOOLEAN : call_intr_set_level(lv)) \/ UNCHANGED vars
      <3>1. UNCHANGED <<holder, cond_waiters, pc, arg>>
        BY <2>2, Zenon DEF SynchBoot, SynchIdle, SynchTimer, call_thread_yield, call_thread_exit,
                           call_intr_set_level, synchvars, vars
      <3>2. QED
        BY <1>2, <3>1, Zenon DEF MonitorStep
    <2>3. QED
      BY <2>1, <2>2, StepKinds, Zenon
  <1>4. MonitorStep => [Mon!MonitorNext]_(Mon!monitorvars)
    BY Zenon DEF MonitorStep, Mon!monitorvars
  <1>5. QED
    BY <1>1, <1>3, <1>4, SynchInvariant, PTL DEF SynchSpec, ImplementsMonitor, Mon!MonitorSpec

=============================================================================
