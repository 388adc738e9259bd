SPECIFICATION Spec
CONSTANTS
    Wrap = 12
    ChargeReqFreshMs = 2
    BalanceOverrideFreshMs = 3
    Period <- MCPeriod
    TxFrames <- MCTxFrames
    FarAhead = 7
    BusOffRetryMs = 3
    FifoDepth = 1
    QueueCap = 1
    Latency = 1
    MaxSlips = 1
    RxKinds = {"arm"}
    MaxRx = 1
    MaxFaults = 1
INVARIANTS RecoveryRuns
