\* Two clients open the same file at once.
CONSTANTS
    c1 = c1  c2 = c2
    f1 = f1  f2 = f2
    l1 = l1  l2 = l2
    p1 = p1
    zero = zero
    Clients = {c1, c2}
    Paths = {p1}
    FD = {f1, f2}
    Locks = {l1, l2}
    Data = {zero}
    Zero = zero
    MaxLen = 1
    MaxTime = 0
    MaxCount = 2
    Calls = {"open", "release"}
SPECIFICATION TableSpec
INVARIANT OneWriter
