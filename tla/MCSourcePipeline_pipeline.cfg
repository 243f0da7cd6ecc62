SPECIFICATION Spec
CONSTANTS
    Tokens = {t1, t2}
    Covers = {{t1, t2}}
    QueueCap = 2
    DoneCap = 1
    MaxFaults = 2
INVARIANT ReadableIsAfterBarrier
INVARIANT MirrorsAgree
INVARIANT NoStrandedRecovery
SYMMETRY Pair
CHECK_DEADLOCK FALSE
