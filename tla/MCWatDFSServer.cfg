\* Two clients make every call of the server, on one file that may not exist.  Two
\* descriptors: two openers, or one and what utimensat leaks, exhaust them, so that
\* open(2) fails.  Two locks: the one in the table and the one a sleeper may still
\* refer to.
CONSTANTS
    c1 = c1  c2 = c2
    f1 = f1  f2 = f2
    l1 = l1  l2 = l2
    p1 = p1
    zero = zero
    Clients = {c1, c2}
    Paths = {p1}
    FD = {f1, f2}
    Locks = {l1, l2}
    Data = {zero}
    Zero = zero
    MaxLen = 1
    MaxTime = 1
    MaxCount = 2
    Calls = {"getattr", "mknod", "open", "release", "read", "write", "truncate", "fsync",
             "utimensat", "lock", "unlock"}
SPECIFICATION ServerSpec
SYMMETRY ServerSymmetry
VIEW WithoutTimes
\* Clients of any kind may all wait for a lock that none of them gives back.
CHECK_DEADLOCK FALSE
INVARIANTS ServerTypeOK OneWriter OpenNumCovers NotOrphaned LocksExclude
