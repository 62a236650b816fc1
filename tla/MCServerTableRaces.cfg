\* Three clients open and release one file, in any interleaving; symmetry is
\* sound, the properties are about states and single steps.
CONSTANTS
    c1 = c1  c2 = c2  c3 = c3
    f1 = f1  f2 = f2  f3 = f3
    l1 = l1  l2 = l2
    p1 = p1
    zero = zero
    Clients = {c1, c2, c3}
    Paths = {p1}
    FD = {f1, f2, f3}
    Locks = {l1, l2}
    Data = {zero}
    Zero = zero
    MaxLen = 1
    MaxTime = 0
    MaxCount = 2
    Calls = {"open", "release"}
SPECIFICATION RaceSpec
SYMMETRY RaceSymmetry
CONSTRAINT SomeExact
INVARIANTS TableCountsExactly OneWriterUnlessRaced
PROPERTY AtomicWhenAlone
