\* Two readers and two writers that keep to the contract of rw_lock.h.  No
\* symmetry: two of the properties are about behaviours.
CONSTANTS
    r1 = r1  r2 = r2  w1 = w1  w2 = w2
    Readers = {r1, r2}
    Writers = {w1, w2}
    OwnersOnly = TRUE
SPECIFICATION FairSpec
INVARIANTS NoLostWakeup CountersCount MutualExclusion
PROPERTIES ImplementsAbs WriterGetsLock
