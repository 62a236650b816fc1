\* Threads that unlock what they do not hold: rw_lock_unlock's -EPERM is all
\* that protects the counters.
CONSTANTS
    r1 = r1  r2 = r2  w1 = w1  w2 = w2
    Readers = {r1, r2}
    Writers = {w1, w2}
    OwnersOnly = FALSE
SPECIFICATION Spec
SYMMETRY ThreadSymmetry
INVARIANTS TypeOK CountersExclude
