\* A client asks for a file before and after another one makes it.
CONSTANTS
    c1 = c1  c2 = c2
    f1 = f1  f2 = f2  f3 = f3  f4 = f4
    l1 = l1  l2 = l2
    p1 = p1
    zero = zero  a = a
    Clients = {c1, c2}
    Paths = {p1}
    File = p1
    FD = {f1, f2, f3, f4}
    Locks = {l1, l2}
    Data = {zero, a}
    Zero = zero
    MaxLen = 1
    MaxTime = 1
    MaxCount = 9
    Calls = {"getattr", "mknod", "open", "release", "read", "write", "truncate", "fsync",
             "utimensat", "lock", "unlock"}
    cacheInterval = 1
    ViaKernel = TRUE
    WriteData <- MCWriteData
    MaxCalls = 5
    MaxLost = 0
    Operations = {"getattr", "mknod"}
SPECIFICATION Spec
SYMMETRY WatDFSSymmetry
\* Clients stop when the calls are used up.
CHECK_DEADLOCK FALSE
INVARIANT UnlockedWhenFinished
