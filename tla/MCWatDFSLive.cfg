\* Does every call return?  No symmetry, the property is about behaviours.
CONSTANTS
    c1 = c1  c2 = c2
    f1 = f1  f2 = f2  f3 = f3
    l1 = l1  l2 = l2
    p1 = p1
    zero = zero  a = a
    Clients = {c1, c2}
    Paths = {p1}
    File = p1
    FD = {f1, f2, f3}
    Locks = {l1, l2}
    Data = {zero, a}
    Zero = zero
    MaxLen = 1
    MaxTime = 1
    MaxCount = 9
    Calls = {"getattr", "mknod", "open", "release", "read", "write", "truncate", "fsync",
             "utimensat", "lock", "unlock"}
    cacheInterval = 0
    ViaKernel = TRUE
    WriteData <- MCWriteData
    MaxCalls = 4
    MaxLost = 1
    Operations = {"getattr", "open", "write", "fsync", "release"}
SPECIFICATION FairSpec
\* Clients stop when the calls are used up.
CHECK_DEADLOCK FALSE
PROPERTY CallsReturn
