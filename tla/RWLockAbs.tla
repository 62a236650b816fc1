------------------------------- MODULE RWLockAbs -------------------------------
(***************************************************************************)
(* What rw_lock.h promises: a lock held by many readers or by one writer,  *)
(* in which a reader that arrives after a writer lets that writer go       *)
(* first.  No mutex, no condition variable, no counters: only what each    *)
(* thread has asked for and what it has been given.  RWLock (the code of   *)
(* rw_lock.cpp) is shown to implement this module.                         *)
(***************************************************************************)

CONSTANT Threads

VARIABLE phase      \* phase[t]: what thread t has asked of the lock

Phases == {"idle", "wantRead", "wantWrite", "reading", "writing"}

In(p) == {t \in Threads : phase[t] = p}

Become(t, p) == phase' = [phase EXCEPT ![t] = p]

Init == phase = [t \in Threads |-> "idle"]

\* rw_lock_lock has counted the caller among those that want the lock.
Request(t) == phase[t] = "idle" /\ \E p \in {"wantRead", "wantWrite"} : Become(t, p)

\* Readers share the lock, and yield to every writer that holds it or waits.
GrantRead(t) ==
    /\ phase[t] = "wantRead"
    /\ In("writing") = {} /\ In("wantWrite") = {}
    /\ Become(t, "reading")

\* A writer needs the lock free of readers and of other writers.
GrantWrite(t) ==
    /\ phase[t] = "wantWrite"
    /\ In("writing") = {} /\ In("reading") = {}
    /\ Become(t, "writing")

Release(t) == phase[t] \in {"reading", "writing"} /\ Become(t, "idle")

Next == \E t \in Threads : Request(t) \/ GrantRead(t) \/ GrantWrite(t) \/ Release(t)

Spec == Init /\ [][Next]_phase
================================================================================
