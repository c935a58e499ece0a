CONSTANTS
    p1 = p1
    p2 = p2
    p3 = p3
    i1 = i1
    i2 = i2
    r1 = r1
    o1 = o1
    o2 = o2
    Proc <- MCProc
    Inode <- MCInode
    Reason <- MCReason
    Origin <- MCOrigin
    MaxFails = 1
    NoDir = NoDir
    NoInode = NoInode
    NoStop = NoStop
    NoTask = NoTask
SPECIFICATION Spec
CHECK_DEADLOCK FALSE
SYMMETRY MCSymmetry
INVARIANTS
    TypeOK
    MutualExclusion
    NoRetroactiveCancel
    OneOutcomeTold
PROPERTIES
    EndStands
