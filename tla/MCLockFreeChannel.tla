------------------------- MODULE MCLockFreeChannel --------------------------
EXTENDS LockFreeChannel

CONSTANTS m1, m2, None

MCMessage == {m1, m2}
=============================================================================
