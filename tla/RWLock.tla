--------------------------------- MODULE RWLock ---------------------------------
(***************************************************************************)
(* The reader-writer lock of rw_lock.cpp, as its threads execute it: one   *)
(* pthread mutex, one condition variable, three counters.  A step is what  *)
(* a thread does between two points at which another thread can run:       *)
(* waiting for the mutex, or sleeping in pthread_cond_wait.                *)
(*                                                                         *)
(* held is not in the code: it records what each caller was given, so that *)
(* the counters can be compared with it.                                   *)
(***************************************************************************)
EXTENDS Integers, FiniteSets

CONSTANTS
    Readers,      \* the threads that call rw_lock_lock(lock, RW_READ_LOCK)
    Writers,      \* the threads that call rw_lock_lock(lock, RW_WRITE_LOCK)
    OwnersOnly    \* TRUE: a thread unlocks only what it holds, as rw_lock.h asks;
                  \* FALSE: any thread may call rw_lock_unlock at any time

ASSUME ThreadsAssumption == IsFiniteSet(Readers) /\ IsFiniteSet(Writers)
ASSUME OwnersOnlyAssumption == OwnersOnly \in BOOLEAN

Threads == Readers \cup Writers

Mode == {"RW_READ_LOCK", "RW_WRITE_LOCK"}

None == "none"
Free == "free"

ASSUME FreeAssumption == Free \notin Threads

VARIABLES
    mutex_,                 \* the thread that owns the mutex, or Free
    num_readers_,
    num_writers_,
    num_waiting_writers_,
    pc,                     \* where each thread is
    mode,                   \* the mode argument of each thread's current call
    held                    \* the mode each thread holds the lock in, or None

vars == <<mutex_, num_readers_, num_writers_, num_waiting_writers_, pc, mode, held>>

counters == <<num_readers_, num_writers_, num_waiting_writers_>>

(***************************************************************************)
(* "locking", "woken" and "unlocking" wait for the mutex; "waiting" sleeps *)
(* in pthread_cond_wait; "testing" and "releasing" own the mutex.          *)
(***************************************************************************)
Labels == {"idle", "locking", "testing", "waiting", "woken", "unlocking", "releasing"}

\* The threads that have entered rw_lock_lock's critical section and not left it.
InLock(t) == pc[t] \in {"testing", "waiting", "woken"}

WaitingWriters == {t \in Threads : InLock(t) /\ mode[t] = "RW_WRITE_LOCK"}

Holders(m) == {t \in Threads : held[t] = m}

Goto(t, l) == pc' = [pc EXCEPT ![t] = l]

Init ==
    /\ mutex_ = Free
    /\ num_readers_ = 0
    /\ num_writers_ = 0
    /\ num_waiting_writers_ = 0
    /\ pc = [t \in Threads |-> "idle"]
    /\ mode = [t \in Threads |-> "RW_READ_LOCK"]
    /\ held = [t \in Threads |-> None]

-----------------------------------------------------------------------------
(* rw_lock_lock *)

CallLock(t, m) ==
    /\ pc[t] = "idle" /\ held[t] = None
    /\ t \in (IF m = "RW_READ_LOCK" THEN Readers ELSE Writers)
    /\ Goto(t, "locking")
    /\ mode' = [mode EXCEPT ![t] = m]
    /\ UNCHANGED <<mutex_, counters, held>>

\* pthread_mutex_lock; a writer announces itself before it tests anything.
EnterLock(t) ==
    /\ pc[t] = "locking" /\ mutex_ = Free
    /\ mutex_' = t
    /\ num_waiting_writers_' =
         IF mode[t] = "RW_WRITE_LOCK" THEN num_waiting_writers_ + 1 ELSE num_waiting_writers_
    /\ Goto(t, "testing")
    /\ UNCHANGED <<num_readers_, num_writers_, mode, held>>

\* Mutants of MustWait: a writer that forgets the readers, and a reader that
\* forgets the waiting writers.
MustWaitForgetsReaders(m) ==
    IF m = "RW_READ_LOCK" THEN num_writers_ > 0 \/ num_waiting_writers_ > 0 ELSE num_writers_ > 0

MustWaitReadersFirst(m) ==
    num_writers_ > 0 \/ (m = "RW_WRITE_LOCK" /\ num_readers_ > 0)

\* The condition of the while loop of each mode.
MustWait(m) ==
    IF m = "RW_READ_LOCK"
      THEN num_writers_ > 0 \/ num_waiting_writers_ > 0
      ELSE num_writers_ > 0 \/ num_readers_ > 0

\* pthread_cond_wait gives up the mutex and sleeps, in one step.
Wait(t) ==
    /\ pc[t] = "testing" /\ MustWait(mode[t])
    /\ mutex_' = Free
    /\ Goto(t, "waiting")
    /\ UNCHANGED <<counters, mode, held>>

\* The loop ends: the caller is counted and leaves through pthread_mutex_unlock.
Acquire(t) ==
    /\ pc[t] = "testing" /\ ~MustWait(mode[t])
    /\ IF mode[t] = "RW_READ_LOCK"
         THEN /\ num_readers_' = num_readers_ + 1
              /\ UNCHANGED <<num_writers_, num_waiting_writers_>>
         ELSE /\ num_writers_' = num_writers_ + 1
              /\ num_waiting_writers_' = num_waiting_writers_ - 1
              /\ UNCHANGED num_readers_
    /\ mutex_' = Free
    /\ held' = [held EXCEPT ![t] = mode[t]]
    /\ Goto(t, "idle")
    /\ UNCHANGED mode

\* POSIX lets pthread_cond_wait return although nobody signalled.
SpuriousWakeup(t) ==
    /\ pc[t] = "waiting"
    /\ Goto(t, "woken")
    /\ UNCHANGED <<mutex_, counters, mode, held>>

\* A mutant of Rewake: the writer announces itself inside the loop.
RewakeAnnouncesAgain(t) ==
    /\ pc[t] = "woken" /\ mutex_ = Free
    /\ mutex_' = t
    /\ num_waiting_writers_' =
         IF mode[t] = "RW_WRITE_LOCK" THEN num_waiting_writers_ + 1 ELSE num_waiting_writers_
    /\ Goto(t, "testing")
    /\ UNCHANGED <<num_readers_, num_writers_, mode, held>>

\* pthread_cond_wait returns once it has the mutex again.
Rewake(t) ==
    /\ pc[t] = "woken" /\ mutex_ = Free
    /\ mutex_' = t
    /\ Goto(t, "testing")
    /\ UNCHANGED <<counters, mode, held>>

-----------------------------------------------------------------------------
(* rw_lock_unlock *)

CallUnlock(t, m) ==
    /\ pc[t] = "idle"
    /\ OwnersOnly => held[t] = m
    /\ Goto(t, "unlocking")
    /\ mode' = [mode EXCEPT ![t] = m]
    /\ UNCHANGED <<mutex_, counters, held>>

EnterUnlock(t) ==
    /\ pc[t] = "unlocking" /\ mutex_ = Free
    /\ mutex_' = t
    /\ Goto(t, "releasing")
    /\ UNCHANGED <<counters, mode, held>>

\* A mutant of NotHeld: the test for -EPERM is missing.
NotHeldUnchecked(m) == FALSE

\* Nobody holds the lock in mode m.
NotHeld(m) == IF m = "RW_READ_LOCK" THEN num_readers_ = 0 ELSE num_writers_ = 0

\* A mutant of Broadcast: the waiters are not signalled.
BroadcastMissing(t) == Goto(t, "idle")

\* pthread_cond_broadcast wakes every sleeper; the caller returns.
Broadcast(t) ==
    pc' = [s \in Threads |-> IF s = t THEN "idle"
                             ELSE IF pc[s] = "waiting" THEN "woken" ELSE pc[s]]

\* Whatever the answer, the caller no longer counts on what it gave back.
GiveUp(t) == held' = [held EXCEPT ![t] = IF @ = mode[t] THEN None ELSE @]

Unlock(t) ==
    /\ pc[t] = "releasing" /\ ~NotHeld(mode[t])
    /\ IF mode[t] = "RW_READ_LOCK"
         THEN num_readers_' = num_readers_ - 1 /\ UNCHANGED num_writers_
         ELSE num_writers_' = num_writers_ - 1 /\ UNCHANGED num_readers_
    /\ Broadcast(t)
    /\ mutex_' = Free
    /\ GiveUp(t)
    /\ UNCHANGED <<num_waiting_writers_, mode>>

\* -EPERM, and nobody is woken.
UnlockNotHeld(t) ==
    /\ pc[t] = "releasing" /\ NotHeld(mode[t])
    /\ mutex_' = Free
    /\ GiveUp(t)
    /\ Goto(t, "idle")
    /\ UNCHANGED <<counters, mode>>

-----------------------------------------------------------------------------

\* What a thread inside the library does; when it calls is up to its caller.
Inside(t) ==
    \/ EnterLock(t) \/ Wait(t) \/ Acquire(t) \/ Rewake(t)
    \/ EnterUnlock(t) \/ Unlock(t) \/ UnlockNotHeld(t)

Next ==
    \E t \in Threads :
        \/ Inside(t) \/ SpuriousWakeup(t)
        \/ \E m \in Mode : CallLock(t, m) \/ CallUnlock(t, m)

Spec == Init /\ [][Next]_vars

(***************************************************************************)
(* A thread that owns the mutex runs on.  The mutex is granted to every    *)
(* thread that asks for it again and again (strong fairness: another       *)
(* thread may own it whenever this one looks).  Whoever holds the lock     *)
(* gives it back: the server's clients send "unlock" after their transfer. *)
(***************************************************************************)
Fairness ==
    \A t \in Threads :
        /\ WF_vars(Wait(t) \/ Acquire(t) \/ Unlock(t) \/ UnlockNotHeld(t))
        /\ SF_vars(EnterLock(t) \/ Rewake(t) \/ EnterUnlock(t))
        /\ WF_vars(held[t] # None /\ CallUnlock(t, held[t]))

FairSpec == Spec /\ Fairness

-----------------------------------------------------------------------------
(* Properties *)

\* The variables hold what their declarations allow: the counters never go
\* below zero, whoever calls rw_lock_unlock, which is what its -EPERM is for.
TypeOK ==
    /\ mutex_ \in Threads \cup {Free}
    /\ num_readers_ \in Nat
    /\ num_writers_ \in Nat
    /\ num_waiting_writers_ \in Nat
    /\ pc \in [Threads -> Labels]
    /\ mode \in [Threads -> Mode]
    /\ held \in [Threads -> Mode \cup {None}]

\* rw_lock.h: num_writers_ "should only ever be 0 or 1", and readers and
\* writers exclude each other.  This speaks of the counters alone, and holds
\* even when a thread unlocks what another one holds.
CountersExclude ==
    /\ num_writers_ \in {0, 1}
    /\ num_readers_ = 0 \/ num_writers_ = 0

\* No wakeup is lost: a thread sleeps on the condition variable only while
\* the condition it sleeps for is true (rw_lock_unlock's broadcast has not
\* been missed by anybody who could go on).
NoLostWakeup == \A t \in Threads : pc[t] = "waiting" => MustWait(mode[t])

\* When threads unlock only what they hold, the counters count the callers
\* inside: the readers, the writers, and the writers still waiting.
CountersCount ==
    OwnersOnly =>
        /\ num_readers_ = Cardinality(Holders("RW_READ_LOCK"))
        /\ num_writers_ = Cardinality(Holders("RW_WRITE_LOCK"))
        /\ num_waiting_writers_ = Cardinality(WaitingWriters)

\* Nobody shares the lock with a writer, provided that threads unlock only
\* what they hold.
MutualExclusion ==
    OwnersOnly =>
        \A t, u \in Threads : t # u /\ held[t] = "RW_WRITE_LOCK" => held[u] = None

\* rw_lock.h: the waiting writers are counted "to prevent writer starvation":
\* while a writer waits, a writer (itself or another one) gets the lock again
\* and again, however many readers come.  Among writers there is no order: one
\* that is woken may find the lock taken again by the one that gave it back.
WriterGetsLock ==
    \A t \in Writers :
        InLock(t) /\ mode[t] = "RW_WRITE_LOCK" ~> \E u \in Writers : held[u] = "RW_WRITE_LOCK"

(***************************************************************************)
(* The abstract lock this code implements.                                 *)
(***************************************************************************)
PhaseOf(t) ==
    CASE held[t] = "RW_READ_LOCK" -> "reading"
      [] held[t] = "RW_WRITE_LOCK" -> "writing"
      [] held[t] = None /\ InLock(t) ->
            IF mode[t] = "RW_READ_LOCK" THEN "wantRead" ELSE "wantWrite"
      [] OTHER -> "idle"

Abs == INSTANCE RWLockAbs WITH phase <- [t \in Threads |-> PhaseOf(t)]

\* Every step of the code is a step of the abstract lock, or none.
ImplementsAbs == Abs!Spec
================================================================================
