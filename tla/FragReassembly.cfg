\* Every interleaving of loss, wrap and reboot over up to MaxSnaps snapshots.
CONSTANTS
    fast = fast
    slow = slow
    Kinds <- MCKinds
    FragTot <- MCFragTot
    SeqMod = 3
    MaxPending = 2
    MaxSnaps = 5
SPECIFICATION Spec
INVARIANTS TypeOK PendingBounded WholeUnlessSeqReused FullReceptionReturned
PROPERTY ImplementsLink
CHECK_DEADLOCK FALSE
