SPECIFICATION NodeSpec
CONSTANTS
    MaxConns = 3
    MaxSlot = 3
    SeqLimit = 2
    Null = Null
    KeyEnd = 3
    KeyReserve = 2
    MaxListen = 1
    MaxAtOnce = 2
INVARIANTS
    IdsFindTheirOwn
    ToldSoundly
PROPERTIES
    ImplementsKeyPool
    ConnectAnswered
    FinishReturns
CHECK_DEADLOCK FALSE
