\* Chunks of two bytes: transfers of none, one, two and three chunks, exact and
\* with a rest, of files that are shorter and longer; sizes beyond INT_MAX.
CONSTANTS
    MAX_ARRAY_LEN = 2
    INT_MAX = 5
    MaxSize = 7
SPECIFICATION Spec
\* A call that ends outside of C++ has no next step.
CHECK_DEADLOCK FALSE
INVARIANTS LoopTypeOK ReadDelivers WriteDelivers CopiesInside SuccessReported
