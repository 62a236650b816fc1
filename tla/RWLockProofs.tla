------------------------------ MODULE RWLockProofs ------------------------------
(***************************************************************************)
(* Proofs about RWLock, for any finite sets of readers and writers.        *)
(*                                                                         *)
(* The counters are tested and changed in one step under the mutex, so     *)
(* what they say of each other (CountersExclude) is inductive with their   *)
(* types.  What they say of the threads needs the counting: each counter   *)
(* is the cardinality of a set that every step changes by one element.     *)
(***************************************************************************)
EXTENDS RWLock, FiniteSetTheorems, TLAPS

\* A thread that asks for the lock holds nothing; one that returns it under
\* the contract of rw_lock.h holds what it returns.
HeldFits ==
    \A t \in Threads :
        /\ pc[t] \in {"locking", "testing", "waiting", "woken"} => held[t] = None
        /\ OwnersOnly /\ pc[t] \in {"unlocking", "releasing"} => held[t] = mode[t]

\* A writer is announced from its entry to its departure, contract or not.
WaitersCount == num_waiting_writers_ = Cardinality(WaitingWriters)

IInv == TypeOK /\ WaitersCount /\ CountersExclude /\ HeldFits /\ CountersCount

-----------------------------------------------------------------------------
(* Lemmas *)

\* The threads are finitely many, and so is any set of them.
LEMMA FiniteThreads == IsFiniteSet(Threads)
<1>1. IsFiniteSet(Readers \cup Writers)
  BY ThreadsAssumption, FS_Union
<1> QED  BY <1>1 DEF Threads

LEMMA FiniteThreadSets ==
    /\ IsFiniteSet(WaitingWriters)
    /\ \A m : IsFiniteSet(Holders(m))
<1>1. WaitingWriters \subseteq Threads
  BY DEF WaitingWriters
<1>2. \A m : Holders(m) \subseteq Threads
  BY DEF Holders
<1> QED  BY <1>1, <1>2, FiniteThreads, FS_Subset

\* A counter that counts a set keeps counting it when both grow or shrink by
\* one element, and a counter that counts a set with an element is positive.
LEMMA CountUp ==
    ASSUME NEW S, IsFiniteSet(S), NEW x, x \notin S
    PROVE  Cardinality(S \cup {x}) = Cardinality(S) + 1
BY FS_AddElement

LEMMA CountDown ==
    ASSUME NEW S, IsFiniteSet(S), NEW x, x \in S
    PROVE  /\ Cardinality(S \ {x}) = Cardinality(S) - 1
           /\ Cardinality(S) \in Nat
           /\ Cardinality(S) > 0
<1>1. Cardinality(S) \in Nat  BY FS_CardinalityType
<1>2. Cardinality(S \ {x}) = Cardinality(S) - 1  BY FS_RemoveElement
<1>3. Cardinality(S) # 0  BY FS_EmptySet
<1> QED  BY <1>1, <1>2, <1>3

-----------------------------------------------------------------------------
(* The invariant holds initially, and every step preserves it. *)

LEMMA InitIInv == Init => IInv
<1> SUFFICES ASSUME Init PROVE IInv  OBVIOUS
<1>1. TypeOK
  BY DEF Init, TypeOK, Labels, Mode, None, Free
<1>2. WaitingWriters = {} /\ \A m \in Mode : Holders(m) = {}
  BY DEF Init, WaitingWriters, Holders, InLock, Mode, None
<1>3. Cardinality({}) = 0
  BY FS_EmptySet
<1>4. WaitersCount /\ CountersCount
  BY <1>2, <1>3 DEF Init, WaitersCount, CountersCount, Mode
<1>5. CountersExclude /\ HeldFits
  BY DEF Init, CountersExclude, HeldFits
<1> QED  BY <1>1, <1>4, <1>5 DEF IInv

LEMMA NextIInv == IInv /\ [Next]_vars => IInv'
<1> SUFFICES ASSUME IInv, [Next]_vars PROVE IInv'  OBVIOUS
<1> USE DEF IInv
<1>f. IsFiniteSet(WaitingWriters) /\ \A m : IsFiniteSet(Holders(m))
  BY FiniteThreadSets
<1>1. ASSUME NEW t \in Threads, NEW m \in Mode, CallLock(t, m) PROVE IInv'
  <2>1. TypeOK' /\ CountersExclude' /\ HeldFits'
    BY <1>1 DEF CallLock, TypeOK, CountersExclude, HeldFits, Goto, Labels, counters
  <2>2. WaitingWriters' = WaitingWriters
    BY <1>1 DEF CallLock, TypeOK, WaitingWriters, InLock, Goto
  <2>3. \A n : Holders(n)' = Holders(n)
    BY <1>1 DEF CallLock, Holders
  <2> QED  BY <1>1, <2>1, <2>2, <2>3 DEF CallLock, WaitersCount, CountersCount, counters
<1>2. ASSUME NEW t \in Threads, EnterLock(t) PROVE IInv'
  <2>1. TypeOK' /\ CountersExclude' /\ HeldFits'
    BY <1>2 DEF EnterLock, TypeOK, CountersExclude, HeldFits, Goto, Labels
  <2>2. \A n : Holders(n)' = Holders(n)
    BY <1>2 DEF EnterLock, Holders
  <2>3. num_waiting_writers_' = Cardinality(WaitingWriters')
    <3>1. CASE mode[t] = "RW_WRITE_LOCK"
      <4>1. WaitingWriters' = WaitingWriters \cup {t} /\ t \notin WaitingWriters
        BY <1>2, <3>1 DEF EnterLock, TypeOK, WaitingWriters, InLock, Goto
      <4> QED  BY <1>2, <1>f, <3>1, <4>1, CountUp DEF EnterLock, WaitersCount
    <3>2. CASE mode[t] # "RW_WRITE_LOCK"
      <4>1. WaitingWriters' = WaitingWriters
        BY <1>2, <3>2 DEF EnterLock, TypeOK, WaitingWriters, InLock, Goto
      <4> QED  BY <1>2, <3>2, <4>1 DEF EnterLock, WaitersCount
    <3> QED  BY <3>1, <3>2
  <2> QED  BY <1>2, <2>1, <2>2, <2>3 DEF EnterLock, WaitersCount, CountersCount
<1>3. ASSUME NEW t \in Threads, Wait(t) \/ SpuriousWakeup(t) \/ Rewake(t) PROVE IInv'
  <2> USE <1>3 DEF Wait, SpuriousWakeup, Rewake
  <2>1. TypeOK' /\ CountersExclude' /\ HeldFits'
    BY DEF TypeOK, CountersExclude, HeldFits, Goto, Labels, counters
  <2>2. WaitingWriters' = WaitingWriters
    BY DEF TypeOK, WaitingWriters, InLock, Goto
  <2>3. \A n : Holders(n)' = Holders(n)
    BY DEF Holders
  <2> QED  BY <2>1, <2>2, <2>3 DEF WaitersCount, CountersCount, counters
<1>4. ASSUME NEW t \in Threads, Acquire(t) PROVE IInv'
  <2>1. pc[t] = "testing" /\ held[t] = None /\ None \notin Mode /\ mode[t] \in Mode
    BY <1>4 DEF Acquire, HeldFits, TypeOK, Mode, None
  <2>2. Holders(mode[t])' = Holders(mode[t]) \cup {t} /\ t \notin Holders(mode[t])
    BY <1>4, <2>1 DEF Acquire, Holders, TypeOK
  <2>3. \A n \in Mode : n # mode[t] => Holders(n)' = Holders(n)
    BY <1>4, <2>1 DEF Acquire, Holders, TypeOK
  <2>4. Cardinality(Holders(mode[t])') = Cardinality(Holders(mode[t])) + 1
    BY <1>f, <2>2, CountUp
  <2>5. CASE mode[t] = "RW_READ_LOCK"
    <3>1. WaitingWriters' = WaitingWriters
      BY <1>4, <2>5 DEF Acquire, TypeOK, WaitingWriters, InLock, Goto
    <3>2. TypeOK' /\ CountersExclude' /\ HeldFits'
      BY <1>4, <2>5 DEF Acquire, MustWait, TypeOK, CountersExclude, HeldFits, Goto, Labels, Mode
    <3> QED  BY <1>4, <2>3, <2>4, <2>5, <3>1, <3>2 DEF Acquire, WaitersCount, CountersCount, Mode
  <2>6. CASE mode[t] = "RW_WRITE_LOCK"
    <3>1. WaitingWriters' = WaitingWriters \ {t} /\ t \in WaitingWriters
      BY <1>4, <2>6 DEF Acquire, TypeOK, WaitingWriters, InLock, Goto
    <3>2. Cardinality(WaitingWriters') = Cardinality(WaitingWriters) - 1
          /\ num_waiting_writers_ > 0
      BY <1>f, <3>1, CountDown DEF WaitersCount
    <3>3. TypeOK' /\ CountersExclude' /\ HeldFits'
      BY <1>4, <2>6, <3>2 DEF Acquire, MustWait, TypeOK, CountersExclude, HeldFits, Goto, Labels, Mode
    <3> QED  BY <1>4, <2>3, <2>4, <2>6, <3>2, <3>3 DEF Acquire, WaitersCount, CountersCount, Mode
  <2> QED  BY <2>1, <2>5, <2>6 DEF Mode
<1>5. ASSUME NEW t \in Threads, NEW m \in Mode, CallUnlock(t, m) PROVE IInv'
  <2>1. TypeOK' /\ CountersExclude' /\ HeldFits'
    BY <1>5 DEF CallUnlock, TypeOK, CountersExclude, HeldFits, Goto, Labels, counters
  <2>2. WaitingWriters' = WaitingWriters
    BY <1>5 DEF CallUnlock, TypeOK, WaitingWriters, InLock, Goto
  <2>3. \A n : Holders(n)' = Holders(n)
    BY <1>5 DEF CallUnlock, Holders
  <2> QED  BY <1>5, <2>1, <2>2, <2>3 DEF CallUnlock, WaitersCount, CountersCount, counters
<1>6. ASSUME NEW t \in Threads, EnterUnlock(t) PROVE IInv'
  <2>1. TypeOK' /\ CountersExclude' /\ HeldFits'
    BY <1>6 DEF EnterUnlock, TypeOK, CountersExclude, HeldFits, Goto, Labels, counters
  <2>2. WaitingWriters' = WaitingWriters
    BY <1>6 DEF EnterUnlock, TypeOK, WaitingWriters, InLock, Goto
  <2>3. \A n : Holders(n)' = Holders(n)
    BY <1>6 DEF EnterUnlock, Holders
  <2> QED  BY <1>6, <2>1, <2>2, <2>3 DEF EnterUnlock, WaitersCount, CountersCount, counters
<1>7. ASSUME NEW t \in Threads, Unlock(t) PROVE IInv'
  <2>1. WaitingWriters' = WaitingWriters
    BY <1>7 DEF Unlock, Broadcast, TypeOK, WaitingWriters, InLock
  <2>2. TypeOK' /\ CountersExclude'
    BY <1>7 DEF Unlock, Broadcast, GiveUp, NotHeld, TypeOK, CountersExclude, Labels, Mode, None
  <2>3. HeldFits'
    BY <1>7 DEF Unlock, Broadcast, GiveUp, HeldFits, TypeOK
  <2>4. CountersCount'
    <3> SUFFICES ASSUME OwnersOnly PROVE CountersCount'  BY DEF CountersCount
    <3>1. held[t] = mode[t] /\ mode[t] \in Mode /\ None \notin Mode
      BY <1>7 DEF Unlock, HeldFits, TypeOK, Mode, None
    <3>2. Holders(mode[t])' = Holders(mode[t]) \ {t} /\ t \in Holders(mode[t])
      BY <1>7, <3>1 DEF Unlock, GiveUp, Holders, TypeOK
    <3>3. \A n \in Mode : n # mode[t] => Holders(n)' = Holders(n)
      BY <1>7, <3>1 DEF Unlock, GiveUp, Holders, TypeOK
    <3>4. Cardinality(Holders(mode[t])') = Cardinality(Holders(mode[t])) - 1
      BY <1>f, <3>2, CountDown
    <3> QED  BY <1>7, <2>1, <3>1, <3>3, <3>4 DEF Unlock, CountersCount, WaitersCount, Mode
  <2> QED  BY <1>7, <2>1, <2>2, <2>3, <2>4 DEF Unlock, WaitersCount
<1>8. ASSUME NEW t \in Threads, UnlockNotHeld(t) PROVE IInv'
  <2>1. WaitingWriters' = WaitingWriters
    BY <1>8 DEF UnlockNotHeld, Goto, TypeOK, WaitingWriters, InLock
  <2>2. TypeOK' /\ CountersExclude' /\ HeldFits'
    BY <1>8 DEF UnlockNotHeld, Goto, GiveUp, TypeOK, CountersExclude, HeldFits, Labels, Mode, None, counters
  <2>3. CountersCount'
    <3> SUFFICES ASSUME OwnersOnly PROVE FALSE  BY DEF CountersCount
    <3>1. t \in Holders(mode[t]) /\ mode[t] \in Mode
      BY <1>8 DEF UnlockNotHeld, HeldFits, TypeOK, Holders
    <3>2. Cardinality(Holders(mode[t])) > 0
      BY <1>f, <3>1, CountDown
    <3> QED  BY <1>8, <3>1, <3>2 DEF UnlockNotHeld, NotHeld, CountersCount, Mode
  <2> QED  BY <1>8, <2>1, <2>2, <2>3 DEF UnlockNotHeld, WaitersCount, counters
<1>9. CASE UNCHANGED vars
  <2>1. WaitingWriters' = WaitingWriters /\ \A n : Holders(n)' = Holders(n)
    BY <1>9 DEF vars, WaitingWriters, InLock, Holders
  <2> QED  BY <1>9, <2>1 DEF vars, TypeOK, WaitersCount, CountersExclude, HeldFits, CountersCount
<1> QED  BY <1>1, <1>2, <1>3, <1>4, <1>5, <1>6, <1>7, <1>8, <1>9 DEF Next, Inside

-----------------------------------------------------------------------------
(* Theorems *)

\* IInv is an invariant of the lock, whatever its threads do.
THEOREM Invariant == Spec => []IInv
BY InitIInv, NextIInv, PTL DEF Spec

\* The counters never go below zero: rw_lock_unlock checks before it subtracts.
THEOREM TypeCorrect == Spec => []TypeOK
<1>1. IInv => TypeOK  BY DEF IInv
<1> QED  BY <1>1, Invariant, PTL

\* num_writers_ is 0 or 1, and never positive together with num_readers_, even
\* when threads unlock what they do not hold.
THEOREM CountersExcluded == Spec => []CountersExclude
<1>1. IInv => CountersExclude  BY DEF IInv
<1> QED  BY <1>1, Invariant, PTL

\* Under the contract the counters count the holders and the waiting writers.
THEOREM CountersExact == Spec => []CountersCount
<1>1. IInv => CountersCount  BY DEF IInv
<1> QED  BY <1>1, Invariant, PTL

\* Under the contract of rw_lock.h nobody shares the lock with a writer: the
\* two holders would make num_writers_ 2, or num_readers_ and num_writers_
\* both positive.
LEMMA CountingExcludes == IInv => MutualExclusion
<1> SUFFICES ASSUME IInv, OwnersOnly,
                    NEW t \in Threads, NEW u \in Threads, t # u,
                    held[t] = "RW_WRITE_LOCK", held[u] # None
             PROVE  FALSE
  BY DEF MutualExclusion
<1> DEFINE W == Holders("RW_WRITE_LOCK")
           R == Holders("RW_READ_LOCK")
<1>1. IsFiniteSet(W) /\ IsFiniteSet(R)
  BY FiniteThreadSets
<1>2. num_writers_ = Cardinality(W) /\ num_readers_ = Cardinality(R)
  BY DEF IInv, CountersCount
<1>3. t \in W
  BY DEF Holders
<1>4. Cardinality(W) > 0
  BY <1>1, <1>3, CountDown
<1>5. Cardinality(W) = 1 /\ Cardinality(R) = 0
  BY <1>2, <1>4 DEF IInv, CountersExclude
<1>6. CASE held[u] = "RW_WRITE_LOCK"
  <2>1. u \in W \ {t}
    BY <1>6 DEF Holders
  <2>2. IsFiniteSet(W \ {t})
    BY <1>1, FS_Subset
  <2>3. Cardinality(W \ {t}) > 0
    BY <2>1, <2>2, CountDown
  <2>4. Cardinality(W \ {t}) = 0
    BY <1>1, <1>3, <1>5, CountDown
  <2> QED  BY <2>3, <2>4
<1>7. CASE held[u] = "RW_READ_LOCK"
  <2>1. u \in R
    BY <1>7 DEF Holders
  <2>2. Cardinality(R) > 0
    BY <1>1, <2>1, CountDown
  <2> QED  BY <1>5, <2>2
<1> QED  BY <1>6, <1>7 DEF IInv, TypeOK, Mode

THEOREM Excludes == Spec => []MutualExclusion
BY Invariant, CountingExcludes, PTL

-----------------------------------------------------------------------------
(* No lost wakeup: a test may only become false for a sleeper in a step that
   wakes every sleeper. *)

LEMMA NextWakeup == IInv /\ NoLostWakeup /\ [Next]_vars => NoLostWakeup'
<1> SUFFICES ASSUME IInv, NoLostWakeup, [Next]_vars,
                    NEW s \in Threads, pc'[s] = "waiting"
             PROVE  MustWait(mode[s])'
  BY DEF NoLostWakeup
<1> USE DEF IInv, TypeOK, NoLostWakeup, Goto, counters
<1>1. ASSUME NEW t \in Threads, NEW m \in Mode, CallLock(t, m) \/ CallUnlock(t, m)
      PROVE  MustWait(mode[s])'
  BY <1>1 DEF CallLock, CallUnlock, MustWait
<1>2. ASSUME NEW t \in Threads, EnterLock(t) PROVE MustWait(mode[s])'
  BY <1>2 DEF EnterLock, MustWait
<1>3. ASSUME NEW t \in Threads, Wait(t) PROVE MustWait(mode[s])'
  BY <1>3 DEF Wait, MustWait
<1>4. ASSUME NEW t \in Threads, Acquire(t) PROVE MustWait(mode[s])'
  BY <1>4 DEF Acquire, MustWait
<1>5. ASSUME NEW t \in Threads, SpuriousWakeup(t) \/ Rewake(t) \/ EnterUnlock(t) \/ UnlockNotHeld(t)
      PROVE  MustWait(mode[s])'
  BY <1>5 DEF SpuriousWakeup, Rewake, EnterUnlock, UnlockNotHeld, MustWait
<1>6. ASSUME NEW t \in Threads, Unlock(t) PROVE MustWait(mode[s])'
  BY <1>6 DEF Unlock, Broadcast
<1>7. CASE UNCHANGED vars
  BY <1>7 DEF vars, MustWait
<1> QED  BY <1>1, <1>2, <1>3, <1>4, <1>5, <1>6, <1>7 DEF Next, Inside

\* Nobody sleeps on the condition variable while its condition is false.
THEOREM WakeupsReach == Spec => []NoLostWakeup
<1>1. Init => NoLostWakeup
  BY DEF Init, NoLostWakeup
<1> QED  BY <1>1, Invariant, NextWakeup, PTL DEF Spec

-----------------------------------------------------------------------------
(* The code implements the abstract lock: entering rw_lock_lock's critical
   section is the request, leaving its loop the grant, the decrement in
   rw_lock_unlock the release; every other step changes nothing there. *)

phaseBar == [t \in Threads |-> PhaseOf(t)]

\* The four phases and the program states they stand for.
LEMMA PhaseCases ==
    ASSUME IInv, NEW t \in Threads
    PROVE  /\ phaseBar[t] = "reading"   <=> held[t] = "RW_READ_LOCK"
           /\ phaseBar[t] = "writing"   <=> held[t] = "RW_WRITE_LOCK"
           /\ phaseBar[t] = "wantRead"  <=> InLock(t) /\ mode[t] = "RW_READ_LOCK"
           /\ phaseBar[t] = "wantWrite" <=> InLock(t) /\ mode[t] = "RW_WRITE_LOCK"
           /\ phaseBar[t] = "idle"      <=> held[t] = None /\ ~InLock(t)
<1>1. /\ held[t] \in {"RW_READ_LOCK", "RW_WRITE_LOCK", None}
      /\ mode[t] \in {"RW_READ_LOCK", "RW_WRITE_LOCK"}
      /\ InLock(t) => held[t] = None
  BY DEF IInv, TypeOK, Mode, HeldFits, InLock
<1>2. phaseBar[t] = PhaseOf(t)
  BY DEF phaseBar
<1> QED  BY <1>1, <1>2 DEF PhaseOf, None

\* What the abstract lock tests, the counters say.
LEMMA PhaseCounts ==
    ASSUME IInv, OwnersOnly
    PROVE  /\ num_writers_ = 0 => \A t \in Threads : phaseBar[t] # "writing"
           /\ num_readers_ = 0 => \A t \in Threads : phaseBar[t] # "reading"
           /\ num_waiting_writers_ = 0 => \A t \in Threads : phaseBar[t] # "wantWrite"
<1>1. \A t \in Threads, m \in Mode : held[t] = m => Cardinality(Holders(m)) > 0
  <2> TAKE t \in Threads, m \in Mode
  <2> HAVE held[t] = m
  <2>1. t \in Holders(m)  BY DEF Holders
  <2> QED  BY <2>1, FiniteThreadSets, CountDown
<1>2. ASSUME NEW t \in Threads, InLock(t), mode[t] = "RW_WRITE_LOCK"
      PROVE  Cardinality(WaitingWriters) > 0
  <2>1. t \in WaitingWriters  BY <1>2 DEF WaitingWriters
  <2> QED  BY <2>1, FiniteThreadSets, CountDown
<1>3. /\ num_readers_ = Cardinality(Holders("RW_READ_LOCK"))
      /\ num_writers_ = Cardinality(Holders("RW_WRITE_LOCK"))
      /\ num_waiting_writers_ = Cardinality(WaitingWriters)
  BY DEF IInv, CountersCount
<1> QED  BY <1>1, <1>2, <1>3, PhaseCases DEF Mode

\* A step in which only one thread's phase may change is an update of phase.
LEMMA PhaseUpdate ==
    ASSUME NEW t \in Threads,
           \A u \in Threads : u # t => phaseBar'[u] = phaseBar[u]
    PROVE  phaseBar' = [phaseBar EXCEPT ![t] = phaseBar'[t]]
<1>1. phaseBar' = [u \in Threads |-> PhaseOf(u)']
  BY DEF phaseBar
<1>2. phaseBar = [u \in Threads |-> PhaseOf(u)]
  BY DEF phaseBar
<1> QED  BY <1>1, <1>2

LEMMA StepImplements ==
    ASSUME IInv, IInv', OwnersOnly, [Next]_vars
    PROVE  [Abs!Next]_phaseBar
<1> USE DEF IInv, TypeOK
<1>s. ASSUME \A u \in Threads : phaseBar'[u] = phaseBar[u] PROVE phaseBar' = phaseBar
  BY <1>s DEF phaseBar
<1>p. ASSUME NEW u \in Threads, held'[u] = held[u], InLock(u)' = InLock(u),
             InLock(u) => mode'[u] = mode[u]
      PROVE  phaseBar'[u] = phaseBar[u]
  BY <1>p DEF phaseBar, PhaseOf
<1>1. ASSUME NEW t \in Threads, NEW m \in Mode, CallLock(t, m) \/ CallUnlock(t, m)
      PROVE  phaseBar' = phaseBar
  BY <1>1, <1>p, <1>s DEF CallLock, CallUnlock, InLock, Goto
<1>2. ASSUME NEW t \in Threads, EnterLock(t) PROVE Abs!Next
  <2>1. \A u \in Threads : u # t => phaseBar'[u] = phaseBar[u]
    BY <1>2, <1>p DEF EnterLock, InLock, Goto
  <2>2. phaseBar[t] = "idle"
    BY <1>2, PhaseCases DEF EnterLock, HeldFits, InLock
  <2>3. InLock(t)' /\ mode'[t] \in Mode
    BY <1>2 DEF EnterLock, InLock, Goto
  <2>4. PhaseOf(t)' \in {"wantRead", "wantWrite"} /\ phaseBar'[t] = PhaseOf(t)'
    BY <1>2, <2>3 DEF phaseBar, PhaseOf, EnterLock, HeldFits, Mode, None
  <2>5. Abs!Request(t)
    BY <2>1, <2>2, <2>4, PhaseUpdate DEF Abs!Request, Abs!Become, phaseBar
  <2> QED  BY <2>5 DEF Abs!Next
<1>3. ASSUME NEW t \in Threads, Wait(t) \/ SpuriousWakeup(t) \/ Rewake(t)
      PROVE  phaseBar' = phaseBar
  BY <1>3, <1>p, <1>s DEF Wait, SpuriousWakeup, Rewake, InLock, Goto
<1>4. ASSUME NEW t \in Threads, Acquire(t) PROVE Abs!Next
  <2>1. \A u \in Threads : u # t => phaseBar'[u] = phaseBar[u]
    BY <1>4, <1>p DEF Acquire, InLock, Goto
  <2>2. InLock(t) /\ mode[t] \in Mode /\ held'[t] = mode[t]
    BY <1>4 DEF Acquire, InLock
  <2>3. CASE mode[t] = "RW_READ_LOCK"
    <3>1. phaseBar[t] = "wantRead" /\ phaseBar'[t] = "reading"
      BY <2>2, <2>3, PhaseCases DEF phaseBar, PhaseOf
    <3>2. Abs!In("writing") = {} /\ Abs!In("wantWrite") = {}
      BY <1>4, <2>3, PhaseCounts DEF Acquire, MustWait, Abs!In, phaseBar
    <3>3. Abs!GrantRead(t)
      BY <2>1, <3>1, <3>2, PhaseUpdate DEF Abs!GrantRead, Abs!Become, phaseBar
    <3> QED  BY <3>3 DEF Abs!Next
  <2>4. CASE mode[t] = "RW_WRITE_LOCK"
    <3>1. phaseBar[t] = "wantWrite" /\ phaseBar'[t] = "writing"
      BY <2>2, <2>4, PhaseCases DEF phaseBar, PhaseOf
    <3>2. Abs!In("writing") = {} /\ Abs!In("reading") = {}
      BY <1>4, <2>4, PhaseCounts DEF Acquire, MustWait, Abs!In, phaseBar
    <3>3. Abs!GrantWrite(t)
      BY <2>1, <3>1, <3>2, PhaseUpdate DEF Abs!GrantWrite, Abs!Become, phaseBar
    <3> QED  BY <3>3 DEF Abs!Next
  <2> QED  BY <2>2, <2>3, <2>4 DEF Mode
<1>5. ASSUME NEW t \in Threads, EnterUnlock(t) PROVE phaseBar' = phaseBar
  BY <1>5, <1>p, <1>s DEF EnterUnlock, InLock, Goto
<1>6. ASSUME NEW t \in Threads, Unlock(t) PROVE Abs!Next
  <2>1. \A u \in Threads : u # t => phaseBar'[u] = phaseBar[u]
    BY <1>6, <1>p DEF Unlock, Broadcast, GiveUp, InLock
  <2>2. held[t] = mode[t] /\ mode[t] \in Mode /\ held'[t] = None /\ ~InLock(t)'
    BY <1>6 DEF Unlock, Broadcast, GiveUp, HeldFits, InLock
  <2>3. phaseBar[t] \in {"reading", "writing"}
    BY <2>2, PhaseCases DEF Mode
  <2>4. phaseBar'[t] = "idle"
    BY <2>2 DEF phaseBar, PhaseOf, None
  <2>5. Abs!Release(t)
    BY <2>1, <2>3, <2>4, PhaseUpdate DEF Abs!Release, Abs!Become, phaseBar
  <2> QED  BY <2>5 DEF Abs!Next
<1>7. ASSUME NEW t \in Threads, UnlockNotHeld(t) PROVE FALSE
  <2>1. t \in Holders(mode[t]) /\ mode[t] \in Mode
    BY <1>7 DEF UnlockNotHeld, HeldFits, Holders
  <2>2. Cardinality(Holders(mode[t])) > 0
    BY <2>1, FiniteThreadSets, CountDown
  <2> QED  BY <1>7, <2>1, <2>2 DEF UnlockNotHeld, NotHeld, CountersCount, Mode
<1>8. CASE UNCHANGED vars
  BY <1>8 DEF vars, phaseBar, PhaseOf, InLock
<1> QED  BY <1>1, <1>2, <1>3, <1>4, <1>5, <1>6, <1>7, <1>8 DEF Next, Inside

\* Under the contract of rw_lock.h, rw_lock.cpp implements the lock that
\* RWLockAbs describes.
THEOREM Implements == ASSUME OwnersOnly PROVE Spec => ImplementsAbs
<1>1. Init => Abs!Init
  BY DEF Init, Abs!Init, PhaseOf, InLock, None
<1>2. IInv /\ IInv' /\ [Next]_vars => [Abs!Next]_phaseBar
  BY StepImplements
<1> QED  BY <1>1, <1>2, Invariant, PTL DEF Spec, Abs!Spec, ImplementsAbs, phaseBar
================================================================================
