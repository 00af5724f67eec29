SPECIFICATION Spec
CONSTANTS
    Threads = {t1, t2}
    Pointers = {p1, p2, p3, p4}
    outer = outer
    inner1 = inner1
    inner2 = inner2
    Counters = {outer, inner1, inner2}
    Null = Null
    MaxLeaked = 1
    Pointee <- MCPointee
    Depth <- MCDepth
SYMMETRY MCSymmetry
INVARIANT TypeOK
INVARIANT NoDanglingPointer
INVARIANT ReferencesCounted
INVARIANT DeletedOnce
INVARIANT Reclaimed
CHECK_DEADLOCK FALSE
